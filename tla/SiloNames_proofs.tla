--------------------------- MODULE SiloNames_proofs ---------------------------
(***************************************************************************)
(* What SiloNames promises, for any number of clients, sessions and jobs   *)
(* of other programs.  Three facts carry everything.  A search that is     *)
(* under way still has before it whatever was there when it began          *)
(* (Pending).  The exec that holds a name is the job of that name          *)
(* (OneHolder).  Two execs that write into one directory therefore hold    *)
(* different namespaces (NoStaleFiles).                                    *)
(***************************************************************************)
EXTENDS SiloNames, TLAPS

\* What was there when the search of c began, and still is, has the name in a
\* namespace that the search has not looked at; what counts for an entrant are
\* silos.
Pending ==
  \A c \in Clients : pc[c] = "search" =>
     \A j \in present[c] :
        /\ c \in Entrants => j \in silos
        /\ \E i \in DOMAIN Candidates(c) : i >= at[c] /\ job[Candidates(c)[i]] = j

\* A client looks at one of its candidates, and begins with the first.
InReach == \A c \in Clients : /\ at[c] \in DOMAIN Candidates(c)
                              /\ pc[c] = "idle" => at[c] = 1

\* What a search has seen are jobs.
SeesJobs == \A c \in Clients : NoJob \notin present[c]

IInv == /\ TypeOK /\ InReach /\ SeesJobs /\ Pending
        /\ AbsentMeansAbsent /\ EntrantFindsSilo
        /\ OneHolder /\ NoStaleFiles

-----------------------------------------------------------------------------
(* Names and candidates.                                                   *)

\* The candidates are one or two namespaces, and they are what the name means.
LEMMA CandidateFacts ==
  ASSUME TypeOK, NEW c \in Clients
  PROVE  /\ Candidates(c) \in Seq(Spaces)
         /\ DOMAIN Candidates(c) = 1..Len(Candidates(c))
         /\ Len(Candidates(c)) \in 1..2
         /\ \A s \in Meant(c) : \E i \in DOMAIN Candidates(c) : Candidates(c)[i] = s
         /\ Space(c) \in Spaces
<1>1. typed[c] \in {"plain", "global", "local"} /\ Session[c] \in Spaces /\ Global \in Spaces
  BY SpacesAssumption DEF TypeOK, Spellings
<1>2. CASE typed[c] = "plain"
  BY <1>1, <1>2 DEF Candidates, Space, Meant
<1>3. CASE typed[c] = "global"
  BY <1>1, <1>3 DEF Candidates, Space, Meant
<1>4. CASE typed[c] = "local"
  BY <1>1, <1>4 DEF Candidates, Space, Meant
<1> QED
  BY <1>1, <1>2, <1>3, <1>4

\* The namespaces of a client depend on what it typed alone.
LEMMA TypedFixes ==
  ASSUME UNCHANGED typed
  PROVE  \A c \in Clients : Candidates(c)' = Candidates(c) /\ Space(c)' = Space(c)
  BY DEF Candidates, Space

-----------------------------------------------------------------------------

\* At the start nobody searches or holds a name.
LEMMA InitHolds == Init => IInv
<1> SUFFICES ASSUME Init PROVE IInv
  OBVIOUS
<1>1. TypeOK
  BY DEF Init, TypeOK
<1>2. InReach
  BY <1>1, CandidateFacts DEF Init, InReach
<1>3. \A c \in Clients : pc[c] = "idle" /\ present[c] = {}
  BY DEF Init
<1>4. SeesJobs /\ Pending
  BY <1>3 DEF SeesJobs, Pending
<1>5. AbsentMeansAbsent /\ EntrantFindsSilo /\ OneHolder /\ NoStaleFiles
  BY <1>3 DEF AbsentMeansAbsent, EntrantFindsSilo, OneHolder, NoStaleFiles, Held, Clients
<1> QED
  BY <1>1, <1>2, <1>4, <1>5 DEF IInv

\* The facts about execs are not touched by a step of the searches.
LEMMA ExecsStay ==
  ASSUME IInv, UNCHANGED <<typed, job, files>>,
         \A e \in Execs : pc'[e] \in {"promote", "temp", "running"} => pc'[e] = pc[e]
  PROVE  OneHolder' /\ NoStaleFiles'
<1>1. \A e \in Execs : Space(e)' = Space(e)
  BY TypedFixes DEF Clients
<1>2. OneHolder'
  BY <1>1 DEF IInv, OneHolder, Held
<1>3. NoStaleFiles'
  <2> SUFFICES ASSUME NEW e \in Execs, pc'[e] = "running", NEW g \in files[typed[e]]
               PROVE  g = e \/ Space(g)' # Space(e)'
    BY DEF NoStaleFiles
  <2>1. typed[e] \in Spellings /\ g \in Execs
    BY DEF IInv, TypeOK, Clients
  <2>2. g = e \/ Space(g) # Space(e)
    BY DEF IInv, NoStaleFiles
  <2> QED
    BY <1>1, <2>1, <2>2
<1> QED
  BY <1>2, <1>3

\* A search begins with everything that is there before it.
LEMMA BeginKeeps == \A c \in Clients : IInv /\ Begin(c) => IInv'
<1> SUFFICES ASSUME IInv, NEW c \in Clients, Begin(c) PROVE IInv'
  OBVIOUS
<1>1. /\ pc[c] = "idle" /\ pc' = [pc EXCEPT ![c] = "search"]
      /\ \A d \in Clients \ {c} : present'[d] = present[d]
      /\ present'[c] \subseteq Visible(c) /\ (c \in Entrants => present'[c] \subseteq silos)
      /\ UNCHANGED <<typed, job, silos, at, files>>
  BY DEF Begin, IInv, TypeOK
<1>2. Visible(c) \subseteq Jobs \ {NoJob}
  BY CandidateFacts, SpacesAssumption DEF Visible, Meant, IInv, TypeOK
<1>3. TypeOK'
  BY <1>1, <1>2 DEF IInv, TypeOK, Begin
<1>4. InReach' /\ SeesJobs'
  BY <1>1, <1>2, TypedFixes DEF IInv, TypeOK, InReach, SeesJobs
<1>5. Pending'
  <2> SUFFICES ASSUME NEW d \in Clients, pc'[d] = "search", NEW j \in present'[d]
               PROVE  /\ d \in Entrants => j \in silos
                      /\ \E i \in DOMAIN Candidates(d) : i >= at[d] /\ job[Candidates(d)[i]] = j
    BY <1>1, TypedFixes DEF Pending
  <2>1. CASE d = c
    <3>1. PICK s \in Meant(c) : job[s] = j
      BY <1>1, <2>1 DEF Visible
    <3>2. PICK i \in DOMAIN Candidates(c) : Candidates(c)[i] = s
      BY CandidateFacts DEF IInv
    <3>3. i >= at[c]
      BY <1>1, CandidateFacts DEF IInv, InReach
    <3> QED
      BY <1>1, <2>1, <3>1, <3>2, <3>3
  <2>2. CASE d # c
    BY <1>1, <2>2 DEF IInv, TypeOK, Pending
  <2> QED
    BY <2>1, <2>2
<1>6. AbsentMeansAbsent' /\ EntrantFindsSilo'
  BY <1>1 DEF IInv, TypeOK, AbsentMeansAbsent, EntrantFindsSilo, Clients
<1>7. OneHolder' /\ NoStaleFiles'
  <2>1. \A e \in Execs : pc'[e] \in {"promote", "temp", "running"} => pc'[e] = pc[e]
    BY <1>1 DEF IInv, TypeOK, Clients
  <2> QED
    BY <1>1, <2>1, ExecsStay
<1> QED
  BY <1>3, <1>4, <1>5, <1>6, <1>7 DEF IInv

\* A candidate without the name, or without a silo of that name, is nothing that
\* the search has seen.
LEMMA PassedOver ==
  ASSUME IInv, NEW c \in Clients, pc[c] = "search",
         Missing(c) \/ (c \in Entrants /\ job[Here(c)] \notin silos)
  PROVE  /\ \A j \in present[c] : \E i \in DOMAIN Candidates(c) :
               i >= at[c] + 1 /\ job[Candidates(c)[i]] = j
         /\ IsLast(c) => present[c] = {}
<1>1. \A j \in present[c] : j # job[Here(c)]
  BY DEF IInv, SeesJobs, Pending, Missing
<1>2. \A j \in present[c] : \E i \in DOMAIN Candidates(c) :
         i >= at[c] + 1 /\ job[Candidates(c)[i]] = j
  <2> SUFFICES ASSUME NEW j \in present[c]
               PROVE  \E i \in DOMAIN Candidates(c) :
                         i >= at[c] + 1 /\ job[Candidates(c)[i]] = j
    OBVIOUS
  <2>1. PICK i \in DOMAIN Candidates(c) : i >= at[c] /\ job[Candidates(c)[i]] = j
    BY DEF IInv, Pending
  <2>2. i # at[c]
    BY <1>1, <2>1 DEF Here
  <2>3. i \in Nat /\ at[c] \in Nat
    BY <2>1, CandidateFacts DEF IInv, InReach
  <2> QED
    BY <2>1, <2>2, <2>3
<1>3. ASSUME IsLast(c) PROVE present[c] = {}
  BY <1>2, <1>3, CandidateFacts DEF IInv, IsLast
<1> QED
  BY <1>2, <1>3

\* The search moves on, or it ends.
LEMMA SearchKeeps ==
  ASSUME IInv, NEW c \in Clients, pc[c] = "search",
         UNCHANGED <<typed, job, silos, present, files>>,
         \/ /\ TriesNext(c) /\ ~IsLast(c)
            /\ Missing(c) \/ (c \in Entrants /\ job[Here(c)] \notin silos)
         \/ \E how \in {"failed", "error", "entered", "exists", "absent", "create"} :
              /\ Ends(c, how)
              /\ (how \in {"absent", "create"} \/ (how = "failed" /\ c \in Entrants))
                   => present[c] = {}
  PROVE  IInv'
<1>1. CASE TriesNext(c) /\ ~IsLast(c) /\ (Missing(c) \/ (c \in Entrants /\ job[Here(c)] \notin silos))
  <2>1. at' = [at EXCEPT ![c] = @ + 1] /\ pc' = pc
    BY <1>1 DEF TriesNext
  <2>2. at'[c] \in DOMAIN Candidates(c) /\ at'[c] \in 1..2
    <3>1. /\ at[c] \in 1..Len(Candidates(c)) /\ at[c] # Len(Candidates(c))
          /\ Len(Candidates(c)) \in 1..2 /\ DOMAIN Candidates(c) = 1..Len(Candidates(c))
      BY <1>1, CandidateFacts DEF IInv, InReach, IsLast
    <3>2. at'[c] = at[c] + 1
      BY <2>1 DEF IInv, TypeOK
    <3> QED
      BY <3>1, <3>2
  <2>3. TypeOK' /\ InReach' /\ SeesJobs'
    BY <2>1, <2>2, TypedFixes DEF IInv, TypeOK, InReach, SeesJobs
  <2>4. Pending'
    <3>1. \A j \in present[c] : \E i \in DOMAIN Candidates(c) :
             i >= at'[c] /\ job[Candidates(c)[i]] = j
      BY <1>1, <2>1, PassedOver DEF IInv, TypeOK
    <3> QED
      BY <2>1, <3>1, TypedFixes DEF IInv, TypeOK, Pending
  <2>5. AbsentMeansAbsent' /\ EntrantFindsSilo'
    BY <2>1 DEF IInv, AbsentMeansAbsent, EntrantFindsSilo
  <2> QED
    BY <2>1, <2>3, <2>4, <2>5, ExecsStay DEF IInv
<1>2. CASE \E how \in {"failed", "error", "entered", "exists", "absent", "create"} :
              /\ Ends(c, how)
              /\ (how \in {"absent", "create"} \/ (how = "failed" /\ c \in Entrants))
                   => present[c] = {}
  <2>1. PICK how \in {"failed", "error", "entered", "exists", "absent", "create"} :
           /\ pc' = [pc EXCEPT ![c] = how] /\ at' = at
           /\ (how \in {"absent", "create"} \/ (how = "failed" /\ c \in Entrants))
                => present[c] = {}
    BY <1>2 DEF Ends
  <2>2. TypeOK' /\ InReach' /\ SeesJobs'
    BY <2>1, TypedFixes DEF IInv, TypeOK, InReach, SeesJobs
  <2>3. Pending'
    BY <2>1, TypedFixes DEF IInv, TypeOK, Pending
  <2>4. AbsentMeansAbsent' /\ EntrantFindsSilo'
    BY <2>1 DEF IInv, TypeOK, AbsentMeansAbsent, EntrantFindsSilo, Clients
  <2>5. \A e \in Execs : pc'[e] \in {"promote", "temp", "running"} => pc'[e] = pc[e]
    BY <2>1 DEF IInv, TypeOK, Clients
  <2> QED
    BY <2>1, <2>2, <2>3, <2>4, <2>5, ExecsStay DEF IInv
<1> QED
  BY <1>1, <1>2

\* The existence check, of exec and of `silo exists`.
LEMMA OpenKeeps == \A c \in Clients : IInv /\ Open(c) => IInv'
<1> SUFFICES ASSUME IInv, NEW c \in Clients, Open(c) PROVE IInv'
  OBVIOUS
<1>1. /\ pc[c] = "search" /\ c \notin Entrants
      /\ UNCHANGED <<typed, job, silos, present, files>>
  BY ClientsAssumption DEF Open
<1>2. \/ Missing(c) /\ ~IsLast(c) /\ TriesNext(c)
      \/ \E how \in {"create", "absent"} : Missing(c) /\ IsLast(c) /\ Ends(c, how)
      \/ \E how \in {"failed", "exists", "error"} : Ends(c, how)
  BY DEF Open
<1> QED
  BY <1>1, <1>2, PassedOver, SearchKeeps

\* The search for a silo to enter.
LEMMA OpenNamedSiloKeeps == \A n \in Entrants : IInv /\ OpenNamedSilo(n) => IInv'
<1> SUFFICES ASSUME IInv, NEW n \in Entrants, OpenNamedSilo(n) PROVE IInv'
  OBVIOUS
<1>1. /\ pc[n] = "search" /\ n \in Clients
      /\ UNCHANGED <<typed, job, silos, present, files>>
  BY DEF OpenNamedSilo, Clients
<1>2. \/ (Missing(n) \/ job[Here(n)] \notin silos) /\ ~IsLast(n) /\ TriesNext(n)
      \/ (Missing(n) \/ job[Here(n)] \notin silos) /\ IsLast(n) /\ Ends(n, "failed")
      \/ \E how \in {"entered", "error"} : Ends(n, how)
  BY DEF OpenNamedSilo, IsNoSilo
<1> QED
  BY <1>1, <1>2, PassedOver, SearchKeeps

-----------------------------------------------------------------------------
(* The steps that are no search.                                           *)

\* A step leaves the searches alone when it takes away the name of a job only if
\* no search sees that job any more.
LEMMA SearchesStay ==
  ASSUME IInv, UNCHANGED <<typed, at>>, silos \subseteq silos',
         \A c \in Clients : present'[c] \subseteq present[c],
         \A c \in Clients : pc'[c] \in {"idle", "search", "absent", "create"} => pc'[c] = pc[c],
         \A n \in Entrants : pc'[n] = pc[n],
         \A c \in Clients, s \in Spaces : job[s] \in present'[c] => job'[s] = job[s]
  PROVE  InReach' /\ SeesJobs' /\ Pending' /\ AbsentMeansAbsent' /\ EntrantFindsSilo'
<1>1. InReach' /\ SeesJobs'
  BY TypedFixes DEF IInv, InReach, SeesJobs
<1>2. Pending'
  <2> SUFFICES ASSUME NEW c \in Clients, pc'[c] = "search", NEW j \in present'[c]
               PROVE  /\ c \in Entrants => j \in silos'
                      /\ \E i \in DOMAIN Candidates(c) : i >= at[c] /\ job'[Candidates(c)[i]] = j
    BY TypedFixes DEF Pending
  <2>1. PICK i \in DOMAIN Candidates(c) : i >= at[c] /\ job[Candidates(c)[i]] = j
    BY DEF IInv, Pending
  <2>2. Candidates(c)[i] \in Spaces
    BY <2>1, CandidateFacts DEF IInv
  <2>3. job'[Candidates(c)[i]] = j
    BY <2>1, <2>2
  <2> QED
    BY <2>1, <2>3 DEF IInv, Pending
<1>3. AbsentMeansAbsent' /\ EntrantFindsSilo'
  <2>1. \A c \in Clients : present[c] = {} => present'[c] = {}
    OBVIOUS
  <2> QED
    BY <2>1 DEF IInv, AbsentMeansAbsent, EntrantFindsSilo, Clients
<1> QED
  BY <1>1, <1>2, <1>3

\* What an exec does with a name it holds disturbs neither the searches nor
\* another holder: the step moves it on and touches no name.
LEMMA HolderKeeps ==
  ASSUME IInv, NEW e \in Execs, pc[e] \in {"promote", "temp", "running"},
         NEW where \in {"temp", "running"}, pc' = [pc EXCEPT ![e] = where],
         UNCHANGED <<typed, job, at, present>>, silos' \in {silos, silos \cup {e}},
         files' \in [Spellings -> SUBSET Execs]
  PROVE  TypeOK' /\ InReach' /\ SeesJobs' /\ Pending' /\ AbsentMeansAbsent' /\ EntrantFindsSilo'
         /\ OneHolder'
<1>1. e \in Clients /\ e \notin Entrants
  BY ClientsAssumption DEF Clients
<1>2. TypeOK'
  BY <1>1 DEF IInv, TypeOK
<1>3. /\ \A c \in Clients : pc'[c] \in {"idle", "search", "absent", "create"} => pc'[c] = pc[c]
      /\ \A n \in Entrants : pc'[n] = pc[n]
  BY <1>1 DEF IInv, TypeOK, Clients
<1>4. OneHolder'
  BY <1>1, TypedFixes DEF IInv, TypeOK, OneHolder, Held, Clients
<1> QED
  BY <1>2, <1>3, <1>4, SearchesStay

\* A job becomes a silo.
LEMMA PromoteKeeps == \A e \in Execs : IInv /\ Promote(e) => IInv'
<1> SUFFICES ASSUME IInv, NEW e \in Execs, Promote(e) PROVE IInv'
  OBVIOUS
<1>1. /\ pc[e] = "promote" /\ pc' = [pc EXCEPT ![e] = "temp"]
      /\ silos' = silos \cup {e} /\ UNCHANGED <<typed, job, at, present, files>>
  BY DEF Promote
<1>2. files' \in [Spellings -> SUBSET Execs]
  BY <1>1 DEF IInv, TypeOK
<1>3. \A d \in Execs : pc'[d] = "running" => pc[d] = "running"
  BY <1>1 DEF IInv, TypeOK, Clients
<1>4. NoStaleFiles'
  <2>1. \A d \in Execs : files'[typed[d]] = files[typed[d]] /\ typed[d] \in Spellings
    BY <1>1 DEF IInv, TypeOK, Clients
  <2> QED
    BY <1>1, <1>3, <2>1, TypedFixes DEF IInv, TypeOK, NoStaleFiles, Clients
<1> QED
  BY <1>1, <1>2, <1>4, HolderKeeps DEF IInv

\* A directory is cleared: nothing stale is left in it.
LEMMA PrepareTempKeeps == \A e \in Execs : IInv /\ PrepareTemp(e) => IInv'
<1> SUFFICES ASSUME IInv, NEW e \in Execs, PrepareTemp(e) PROVE IInv'
  OBVIOUS
<1>1. /\ pc[e] = "temp" /\ pc' = [pc EXCEPT ![e] = "running"]
      /\ files' = [files EXCEPT ![typed[e]] = {}]
      /\ UNCHANGED <<typed, job, silos, at, present>>
  BY DEF PrepareTemp
<1>2. files' \in [Spellings -> SUBSET Execs]
  BY <1>1 DEF IInv, TypeOK
<1>3. NoStaleFiles'
  <2> SUFFICES ASSUME NEW d \in Execs, pc'[d] = "running", NEW g \in files'[typed[d]]
               PROVE  g = d \/ Space(g) # Space(d)
    BY <1>1, <1>2, TypedFixes DEF NoStaleFiles, IInv, TypeOK, Clients
  <2>1. typed[d] # typed[e] /\ g \in files[typed[d]]
    BY <1>1 DEF IInv, TypeOK, Clients
  <2>2. pc[d] = "running"
    BY <1>1, <2>1 DEF IInv, TypeOK, Clients
  <2> QED
    BY <2>1, <2>2 DEF IInv, NoStaleFiles
<1> QED
  BY <1>1, <1>2, <1>3, HolderKeeps DEF IInv

\* A running silo writes; another running silo that shares its directory holds
\* the name in another namespace.
LEMMA WriteKeeps == \A e \in Execs : IInv /\ Write(e) => IInv'
<1> SUFFICES ASSUME IInv, NEW e \in Execs, Write(e) PROVE IInv'
  OBVIOUS
<1>1. /\ pc[e] = "running" /\ pc' = pc
      /\ files' = [files EXCEPT ![typed[e]] = @ \cup {e}]
      /\ UNCHANGED <<typed, job, silos, at, present>>
  BY DEF Write
<1>2. /\ files' \in [Spellings -> SUBSET Execs]
      /\ pc' = [pc EXCEPT ![e] = "running"]
  BY <1>1 DEF IInv, TypeOK, Clients
<1>3. NoStaleFiles'
  <2> SUFFICES ASSUME NEW d \in Execs, pc[d] = "running", NEW g \in files'[typed[d]]
               PROVE  g = d \/ Space(g) # Space(d)
    BY <1>1, <1>2, TypedFixes DEF NoStaleFiles, IInv, TypeOK, Clients
  <2>1. CASE g \in files[typed[d]]
    BY <2>1 DEF IInv, NoStaleFiles
  <2>2. CASE g \notin files[typed[d]]
    <3>1. g = e
      BY <1>1, <2>2 DEF IInv, TypeOK, Clients
    <3>2. job[Space(d)] = d /\ job[Space(e)] = e
      BY <1>1 DEF IInv, OneHolder, Held
    <3> QED
      BY <3>1, <3>2
  <2> QED
    BY <2>1, <2>2
<1> QED
  BY <1>1, <1>2, <1>3, HolderKeeps DEF IInv

\* exec gets a name that nobody has, or it fails.
LEMMA CreateKeeps == \A e \in Execs : IInv /\ Create(e) => IInv'
<1> SUFFICES ASSUME IInv, NEW e \in Execs, Create(e) PROVE IInv'
  OBVIOUS
<1>1. /\ pc[e] = "create" /\ UNCHANGED <<typed, silos, at, present, files>>
      /\ \E where \in {"promote", "failed"} : pc' = [pc EXCEPT ![e] = where]
      /\ \/ job' = job /\ pc'[e] # "promote"
         \/ job[Space(e)] = NoJob /\ job' = [job EXCEPT ![Space(e)] = e]
  BY DEF Create, IInv, TypeOK, Clients
<1>2. e \in Clients /\ e \notin Entrants /\ e \in Jobs /\ Space(e) \in Spaces
  BY ClientsAssumption, CandidateFacts DEF Clients, Jobs, IInv
<1>3. TypeOK'
  BY <1>1, <1>2 DEF IInv, TypeOK
<1>4. /\ \A c \in Clients : pc'[c] \in {"idle", "search", "absent", "create"} => pc'[c] = pc[c]
      /\ \A c \in Clients \ {e} : pc'[c] = pc[c]
      /\ pc'[e] \in {"promote", "failed"}
  BY <1>1, <1>2 DEF IInv, TypeOK
<1>5. \A s \in Spaces : job[s] # NoJob => job'[s] = job[s]
  BY <1>1 DEF IInv, TypeOK
<1>6. InReach' /\ SeesJobs' /\ Pending' /\ AbsentMeansAbsent' /\ EntrantFindsSilo'
  <2>1. \A c \in Clients, s \in Spaces : job[s] \in present'[c] => job'[s] = job[s]
    BY <1>1, <1>5 DEF IInv, SeesJobs
  <2>2. \A n \in Entrants : pc'[n] = pc[n]
    BY <1>2, <1>4 DEF Clients
  <2> QED
    BY <1>1, <1>4, <2>1, <2>2, SearchesStay
<1>7. OneHolder'
  <2> SUFFICES ASSUME NEW d \in Execs, Held(d)' PROVE job'[Space(d)] = d
    BY <1>1, TypedFixes DEF OneHolder, Clients
  <2>1. CASE d = e
    BY <1>1, <1>2, <1>4, <2>1 DEF Held, IInv, TypeOK
  <2>2. CASE d # e
    <3>1. Held(d) /\ Space(d) \in Spaces /\ d # NoJob
      BY <1>4, <2>2, ClientsAssumption, CandidateFacts DEF Held, Clients, Jobs, IInv
    <3> QED
      BY <1>5, <3>1 DEF IInv, OneHolder
  <2> QED
    BY <2>1, <2>2
<1>8. NoStaleFiles'
  <2>1. \A d \in Execs : pc'[d] = "running" => pc[d] = "running"
    BY <1>4 DEF Clients
  <2>2. \A d \in Execs : typed[d] \in Spellings
    BY DEF IInv, TypeOK, Clients
  <2> QED
    BY <1>1, <2>1, <2>2, TypedFixes DEF IInv, TypeOK, NoStaleFiles, Clients
<1> QED
  BY <1>3, <1>6, <1>7, <1>8 DEF IInv

\* When the name of a job goes away the searches forget the job, and every other
\* holder keeps its name.
LEMMA CloseKeeps ==
  ASSUME IInv, NEW j \in Jobs, Close(j), UNCHANGED <<typed, silos, at, files>>,
         \/ pc' = pc /\ j \notin Execs
         \/ j \in Execs /\ pc[j] \notin {"idle", "search"} /\ pc' = [pc EXCEPT ![j] = "ended"]
  PROVE  IInv'
<1>1. /\ \A s \in Spaces : job[s] # j => job'[s] = job[s]
      /\ \A c \in Clients : present'[c] = present[c] \ {j}
  BY DEF Close
<1>2. j \in Execs => j \in Clients /\ j \notin Entrants
  BY ClientsAssumption DEF Clients
<1>3. TypeOK'
  BY <1>2 DEF IInv, TypeOK, Close
<1>4. InReach' /\ SeesJobs' /\ Pending' /\ AbsentMeansAbsent' /\ EntrantFindsSilo'
  <2>1. \A c \in Clients, s \in Spaces : job[s] \in present'[c] => job'[s] = job[s]
    BY <1>1
  <2>2. /\ \A c \in Clients : pc'[c] \in {"idle", "search", "absent", "create"} => pc'[c] = pc[c]
        /\ \A n \in Entrants : pc'[n] = pc[n]
    BY <1>2 DEF IInv, TypeOK, Clients
  <2> QED
    BY <1>1, <2>1, <2>2, SearchesStay
<1>5. \A e \in Execs : pc'[e] \in {"promote", "temp", "running"} => pc'[e] = pc[e] /\ e # j
  BY DEF IInv, TypeOK, Clients
<1>6. OneHolder'
  <2> SUFFICES ASSUME NEW e \in Execs, Held(e)' PROVE job'[Space(e)] = e
    BY TypedFixes DEF OneHolder, Clients
  <2>1. Held(e) /\ e # j /\ Space(e) \in Spaces
    BY <1>5, CandidateFacts DEF Held, Clients, IInv
  <2> QED
    BY <1>1, <2>1 DEF IInv, OneHolder
<1>7. NoStaleFiles'
  <2>1. \A e \in Execs : pc'[e] = "running" => pc[e] = "running"
    BY <1>5
  <2>2. \A e \in Execs : typed[e] \in Spellings
    BY DEF IInv, TypeOK, Clients
  <2> QED
    BY <2>1, <2>2, TypedFixes DEF IInv, TypeOK, NoStaleFiles, Clients
<1> QED
  BY <1>3, <1>4, <1>6, <1>7 DEF IInv

\* A silo comes to its end.
LEMMA EndKeeps == \A e \in Execs : IInv /\ End(e) => IInv'
<1> SUFFICES ASSUME IInv, NEW e \in Execs, End(e) PROVE IInv'
  OBVIOUS
<1>1. pc[e] \notin {"idle", "search"} /\ e \in Jobs
  BY DEF End, Jobs
<1> QED
  BY <1>1, CloseKeeps DEF End

\* The job of another program goes away.
LEMMA ForeignCloseKeeps == \A f \in Foreign : IInv /\ ForeignClose(f) => IInv'
<1> SUFFICES ASSUME IInv, NEW f \in Foreign, ForeignClose(f) PROVE IInv'
  OBVIOUS
<1>1. f \in Jobs /\ f \notin Execs
  BY ClientsAssumption DEF Jobs
<1> QED
  BY <1>1, CloseKeeps DEF ForeignClose

\* Another program takes a name that nobody has.
LEMMA ForeignCreateKeeps ==
  \A f \in Foreign, s \in Spaces : IInv /\ ForeignCreate(f, s) => IInv'
<1> SUFFICES ASSUME IInv, NEW f \in Foreign, NEW s \in Spaces, ForeignCreate(f, s) PROVE IInv'
  OBVIOUS
<1>1. /\ job[s] = NoJob /\ job' = [job EXCEPT ![s] = f]
      /\ UNCHANGED <<typed, silos, pc, at, present, files>>
  BY DEF ForeignCreate
<1>2. TypeOK'
  BY <1>1 DEF IInv, TypeOK, Jobs
<1>3. \A t \in Spaces : job[t] # NoJob => job'[t] = job[t]
  BY <1>1 DEF IInv, TypeOK
<1>4. InReach' /\ SeesJobs' /\ Pending' /\ AbsentMeansAbsent' /\ EntrantFindsSilo'
  <2>1. \A c \in Clients, t \in Spaces : job[t] \in present'[c] => job'[t] = job[t]
    BY <1>1, <1>3 DEF IInv, SeesJobs
  <2> QED
    BY <1>1, <2>1, SearchesStay
<1>5. OneHolder'
  <2> SUFFICES ASSUME NEW e \in Execs, Held(e) PROVE job'[Space(e)] = e
    BY <1>1, TypedFixes DEF OneHolder, Held, Clients
  <2>1. Space(e) \in Spaces /\ e # NoJob
    BY ClientsAssumption, CandidateFacts DEF Clients, Jobs, IInv
  <2> QED
    BY <1>3, <2>1 DEF IInv, OneHolder
<1>6. NoStaleFiles'
  <2>1. \A e \in Execs : typed[e] \in Spellings
    BY DEF IInv, TypeOK, Clients
  <2> QED
    BY <1>1, <2>1, TypedFixes DEF IInv, TypeOK, NoStaleFiles, Clients
<1> QED
  BY <1>2, <1>4, <1>5, <1>6 DEF IInv

\* Nothing happens.
LEMMA StutterKeeps == IInv /\ UNCHANGED vars => IInv'
<1> SUFFICES ASSUME IInv, UNCHANGED vars PROVE IInv'
  OBVIOUS
<1>1. TypeOK' /\ OneHolder' /\ NoStaleFiles'
  BY ExecsStay DEF vars, IInv, TypeOK
<1> QED
  BY <1>1, SearchesStay DEF vars, IInv

\* Every step keeps the inductive invariant.
LEMMA NextKeeps == IInv /\ [Next]_vars => IInv'
  BY BeginKeeps, OpenKeeps, OpenNamedSiloKeeps, CreateKeeps, PromoteKeeps, PrepareTempKeeps,
     WriteKeeps, EndKeeps, ForeignCreateKeeps, ForeignCloseKeeps, StutterKeeps DEF Next

-----------------------------------------------------------------------------

\* The inductive invariant holds in every reachable state.
THEOREM Invariance == Spec => []IInv
  BY InitHolds, NextKeeps, PTL DEF Spec

\* Names, candidates and directories keep their types.
THEOREM TypeCorrect == Spec => []TypeOK
<1>1. IInv => TypeOK BY DEF IInv
<1> QED BY <1>1, Invariance, PTL

\* "does not exist" is said, and a silo is created, only when nothing had the
\* name all the while.
THEOREM AbsentMeansAbsentHolds == Spec => []AbsentMeansAbsent
<1>1. IInv => AbsentMeansAbsent BY DEF IInv
<1> QED BY <1>1, Invariance, PTL

\* silo exec does not miss a silo that is there, whatever other jobs are.
THEOREM EntrantFindsSiloHolds == Spec => []EntrantFindsSilo
<1>1. IInv => EntrantFindsSilo BY DEF IInv
<1> QED BY <1>1, Invariance, PTL

\* Two silos never hold one name in one namespace, although the existence check
\* and the creation are two steps.
THEOREM OneHolderHolds == Spec => []OneHolder
<1>1. IInv => OneHolder BY DEF IInv
<1> QED BY <1>1, Invariance, PTL

\* Stale files come from other namespaces alone.
THEOREM NoStaleFilesHolds == Spec => []NoStaleFiles
<1>1. IInv => NoStaleFiles BY DEF IInv
<1> QED BY <1>1, Invariance, PTL

\* A directory in use is cleared from other namespaces alone: two execs with one
\* spelling and one namespace never hold their names together.
THEOREM KeptInNamespaceHolds == Spec => KeptInNamespace
<1>1. IInv /\ [Next]_vars =>
        [\A e \in Execs :
           pc[e] = "running" /\ e \in files[typed[e]] /\ e \notin files'[typed[e]] =>
             \E g \in Execs : /\ pc[g] = "temp" /\ pc'[g] = "running"
                              /\ Space(g) # Space(e)]_vars
  <2> SUFFICES ASSUME IInv, Next, NEW e \in Execs, pc[e] = "running",
                      e \in files[typed[e]], e \notin files'[typed[e]]
               PROVE  \E g \in Execs : /\ pc[g] = "temp" /\ pc'[g] = "running"
                                       /\ Space(g) # Space(e)
    OBVIOUS
  <2>1. ~\E g \in Execs : Write(g)
    BY DEF Write, IInv, TypeOK, Clients
  <2>2. PICK g \in Execs : PrepareTemp(g)
    BY <2>1 DEF Next, Begin, Open, OpenNamedSilo, Create, Promote, End, ForeignCreate, ForeignClose
  <2>3. pc[g] = "temp" /\ pc'[g] = "running"
    BY <2>2 DEF PrepareTemp, IInv, TypeOK, Clients
  <2>4. job[Space(e)] = e /\ job[Space(g)] = g /\ g # e
    BY <2>3 DEF IInv, OneHolder, Held
  <2> QED
    BY <2>3, <2>4
<1> QED
  BY <1>1, Invariance, PTL DEF Spec, KeptInNamespace

=============================================================================
