----------------------------- MODULE RootStaging -----------------------------
(***************************************************************************)
(* The file system under several exec that share one --root directory: the *)
(* directories that createRootMappings makes for the initialization paths  *)
(* and the directory links that createPathMappings stages, call by call.   *)
(* The drive is C; its backing tree is R.  Everything here runs before the *)
(* silo's view exists, so every path is resolved on the host, through the  *)
(* links on the way: also through those an earlier run staged in R.        *)
(*                                                                         *)
(* A link target is a location, and two spellings of it are one.  Files    *)
(* and links with a relative target are left out.                          *)
(***************************************************************************)
EXTENDS Naturals, Sequences

CONSTANTS
  Execs,      \* exec invocations with one --root directory, concurrent or not
  Tops,       \* "C", "R" and the directories outside both that links lead to
  Relative,   \* paths below a top, <<>> among them
  InitPaths,  \* choices of the initialization paths, sequences over Relative
  PathEntries,\* choices of PATH, sequences over Relative
  HostTrees,  \* choices of the entries outside R
  Relinks,    \* choices of a new target for a link of the host
  MaxRelinks  \* bound: links of the host that get another target

\* The names that occur in paths.
Names == UNION {{p[i] : i \in DOMAIN p} : p \in Relative}

ASSUME TopsAssumption == {"C", "R"} \subseteq Tops

ASSUME RelativeAssumption ==
  /\ Relative \subseteq Seq(Names)
  /\ <<>> \in Relative
  /\ \A p \in Relative : p # <<>> => SubSeq(p, 1, Len(p) - 1) \in Relative

ASSUME ChoicesAssumption ==
  /\ InitPaths \subseteq Seq(Relative) /\ PathEntries \subseteq Seq(Relative)
  /\ MaxRelinks \in Nat

Locations == UNION {{<<t>> \o p : p \in Relative} : t \in Tops}
Backing(p) == <<"R">> \o p     \* rootBackingPath
OnHost(p)  == <<"C">> \o p
InTree(l)  == l[1] = "R"

None    == [kind |-> "none", to |-> <<>>]
Dir     == [kind |-> "dir", to |-> <<>>]
Link(l) == [kind |-> "link", to |-> l]
Entries == {None, Dir} \cup {Link(l) : l \in Locations}

\* The host is a file system: C is a directory, no top is a link, what there is
\* is in a directory, and links lead to tops, and not into R.
ASSUME HostAssumption ==
  /\ Relinks \subseteq Locations /\ \A to \in Relinks : Len(to) = 1
  /\ \A host \in HostTrees :
        /\ host \in [Locations -> Entries]
        /\ host[<<"C">>] = Dir
        /\ \A l \in Locations :
              /\ Len(l) = 1 => host[l] \in {None, Dir}
              /\ Len(l) > 1 /\ host[l] # None => host[SubSeq(l, 1, Len(l) - 1)] = Dir
              /\ host[l].kind = "link" => ~InTree(host[l].to) /\ Len(host[l].to) = 1

\* What exec does for the tree: make an initialization path, look at a PATH entry.
Tasks == [do : {"init", "path"}, at : Relative]

VARIABLES
  fs,       \* the entry at each location
  relinked, \* links of the host changed so far
  pc,       \* where each exec is
  plan,     \* what it has to do for the tree
  now,      \* the task in hand
  goal,     \* the directory its MkdirAll is to make
  depth,    \* how many names of goal the next call is about
  target,   \* the target of the host's link it stages
  staged,   \* the links it has staged or found staged
  made      \* directories its initialization paths have made

execVars == <<pc, plan, now, goal, depth, target, staged, made>>
vars     == <<fs, relinked, execVars>>

Phases == {"next", "stat", "mkdir", "lstat", "readlink", "remove", "symlink",
           "launched", "conflict", "lost", "failed"}
Active(e) == pc[e] \notin {"launched", "conflict", "lost", "failed"}

-----------------------------------------------------------------------------
(* Resolution of paths.                                                    *)

Parent(p) == SubSeq(p, 1, Len(p) - 1)
Prefix(p, n) == SubSeq(p, 1, n)

\* Where the entry named by p is, the links above it followed; Full follows a
\* link at p too.  A link leads to a top, which is no link itself.
Full[p \in Locations] ==
  IF Len(p) = 1 THEN p
  ELSE LET at == Append(Full[Parent(p)], p[Len(p)])
       IN  IF at \in Locations /\ fs[at].kind = "link" THEN fs[at].to ELSE at

At(p) == IF Len(p) = 1 THEN p ELSE Append(Full[Parent(p)], p[Len(p)])

Lstat(p) == IF At(p) \in Locations THEN fs[At(p)] ELSE None
IsDir(p) == Full[p] \in Locations /\ fs[Full[p]] = Dir

\* A new entry needs a free place in a directory.
CanCreate(p) == /\ Lstat(p) = None /\ At(p) \in Locations
                /\ Len(p) > 1 => IsDir(Parent(p))

HasChild(l) == \E q \in Locations : Len(q) = Len(l) + 1 /\ Parent(q) = l /\ fs[q] # None

Put(p, entry) == fs' = [fs EXCEPT ![At(p)] = entry]

\* What an exec does for the tree, in order: the drive's directory, the
\* initialization paths, the entries of PATH.
PlanOf(ps, qs) == <<[do |-> "init", at |-> <<>>]>>
                    \o [i \in DOMAIN ps |-> [do |-> "init", at |-> ps[i]]]
                    \o [i \in DOMAIN qs |-> [do |-> "path", at |-> qs[i]]]

Plans == UNION {{PlanOf(ps, qs) : qs \in PathEntries} : ps \in InitPaths}

Init ==
  /\ \E host \in HostTrees :
        fs = [l \in Locations |-> IF InTree(l) THEN None ELSE host[l]]
  /\ relinked = 0
  /\ pc = [e \in Execs |-> "next"]
  /\ plan \in [Execs -> Plans]
  /\ now = [e \in Execs |-> 1]
  /\ goal = [e \in Execs |-> <<>>]
  /\ depth = [e \in Execs |-> 0]
  /\ target = [e \in Execs |-> <<>>]
  /\ staged = [e \in Execs |-> {}]
  /\ made = [e \in Execs |-> {}]

Goto(e, where) == pc' = [pc EXCEPT ![e] = where]

Task(e) == plan[e][now[e]]

\* Fault: the task after this one is passed over.
DoneSkipping(e) == now' = [now EXCEPT ![e] = @ + 2] /\ Goto(e, "next")

\* The task in hand is done.
Done(e) == now' = [now EXCEPT ![e] = @ + 1] /\ Goto(e, "next")

\* MkdirAll(p) begins with a Stat of the whole of p.
MkdirAll(e, p) == /\ goal' = [goal EXCEPT ![e] = p]
                  /\ depth' = [depth EXCEPT ![e] = Len(p)]
                  /\ Goto(e, "stat")

\* MkdirAll has returned without an error.
Made(e) == IF Task(e).do = "init" THEN Done(e)
           ELSE Goto(e, "lstat") /\ UNCHANGED now

Doing(e, what) == pc[e] = "next" /\ now[e] <= Len(plan[e]) /\ Task(e).do = what

\* The drive's backing directory and the initialization paths in it.
MakeRoot(e) ==
  /\ Doing(e, "init")
  /\ MkdirAll(e, Backing(Task(e).at))
  /\ UNCHANGED <<fs, relinked, plan, now, target, staged, made>>

\* A PATH entry that is no directory of the host is passed over, one that is
\* not itself a link is only passed through.
SkipEntry(e) ==
  /\ Doing(e, "path")
  /\ LET p == OnHost(Task(e).at)
     IN  ~IsDir(p) \/ Lstat(p).kind # "link"
  /\ Done(e)
  /\ UNCHANGED <<fs, relinked, plan, goal, depth, target, staged, made>>

\* Fault: MkdirAll is given the link's own path.
StageEntryWhole(e) ==
  /\ Doing(e, "path")
  /\ LET p == Task(e).at
     IN  /\ IsDir(OnHost(p)) /\ Lstat(OnHost(p)).kind = "link"
         /\ target' = [target EXCEPT ![e] = Lstat(OnHost(p)).to]
         /\ MkdirAll(e, Backing(p))
  /\ UNCHANGED <<fs, relinked, plan, now, staged, made>>

\* A directory link of the host: its target is read, and the directory above
\* its place in the tree is made.
StageEntry(e) ==
  /\ Doing(e, "path")
  /\ LET p == Task(e).at
     IN  /\ IsDir(OnHost(p)) /\ Lstat(OnHost(p)).kind = "link"
         /\ target' = [target EXCEPT ![e] = Lstat(OnHost(p)).to]
         /\ MkdirAll(e, Backing(Parent(p)))
  /\ UNCHANGED <<fs, relinked, plan, now, staged, made>>

\* os.MkdirAll: Stat from the whole path upwards until a directory is found.
Stat(e) ==
  /\ pc[e] = "stat"
  /\ IF depth[e] = 0 \/ IsDir(Prefix(goal[e], depth[e]))
       THEN IF depth[e] = Len(goal[e])
              THEN Made(e) /\ UNCHANGED depth
              ELSE /\ depth' = [depth EXCEPT ![e] = @ + 1]
                   /\ Goto(e, "mkdir") /\ UNCHANGED now
       ELSE /\ depth' = [depth EXCEPT ![e] = @ - 1]
            /\ UNCHANGED <<pc, now>>
  /\ UNCHANGED <<fs, relinked, plan, goal, target, staged, made>>

\* Then Mkdir downwards; what exists by then must be a directory itself, a link
\* to one does not do.
Mkdir(e) ==
  LET p == Prefix(goal[e], depth[e])
  IN  /\ pc[e] = "mkdir"
      /\ \/ /\ CanCreate(p)
            /\ Put(p, Dir)
            /\ made' = [made EXCEPT ![e] =
                          IF Task(e).do = "init" THEN @ \cup {At(p)} ELSE @]
         \/ Lstat(p) = Dir /\ UNCHANGED <<fs, made>>
      /\ IF depth[e] = Len(goal[e])
           THEN Made(e) /\ UNCHANGED depth
           ELSE /\ depth' = [depth EXCEPT ![e] = @ + 1]
                /\ UNCHANGED <<pc, now>>
      /\ UNCHANGED <<relinked, plan, goal, target, staged>>

MkdirFails(e) ==
  LET p == Prefix(goal[e], depth[e])
  IN  /\ pc[e] = "mkdir"
      /\ ~CanCreate(p) /\ Lstat(p) # Dir
      /\ Goto(e, "failed")
      /\ UNCHANGED <<fs, relinked, plan, now, goal, depth, target, staged, made>>

-----------------------------------------------------------------------------
(* stageDirectorySymbolicLink, from the Lstat of the backing path.         *)

Here(e) == Backing(Task(e).at)

LookAtPlace(e) ==
  /\ pc[e] = "lstat"
  /\ Goto(e, CASE Lstat(Here(e)).kind = "none" -> "symlink"
               [] Lstat(Here(e)).kind = "dir"  -> "conflict"
               [] OTHER                        -> "readlink")
  /\ UNCHANGED <<fs, relinked, plan, now, goal, depth, target, staged, made>>

Stand(e) == staged' = [staged EXCEPT ![e] =
              @ \cup {[at |-> Task(e).at, to |-> target[e]]}]

\* Fault: the link found is replaced without a look at its target.
ReadPlaceBlindly(e) ==
  /\ pc[e] = "readlink"
  /\ Goto(e, IF Lstat(Here(e)).kind = "link" THEN "remove" ELSE "failed")
  /\ UNCHANGED <<fs, relinked, plan, now, goal, depth, target, staged, made>>

\* A link with the same target stays.
ReadPlace(e) ==
  /\ pc[e] = "readlink"
  /\ IF Lstat(Here(e)) = Link(target[e])
       THEN Stand(e) /\ Done(e)
       ELSE /\ Goto(e, IF Lstat(Here(e)).kind = "link" THEN "remove" ELSE "failed")
            /\ UNCHANGED <<staged, now>>
  /\ UNCHANGED <<fs, relinked, plan, goal, depth, target, made>>

\* os.Remove takes a link, and a directory that is empty.
RemovePlace(e) ==
  /\ pc[e] = "remove"
  /\ LET l == At(Here(e))
     IN  \/ /\ Lstat(Here(e)) # None /\ ~HasChild(l)
            /\ Put(Here(e), None) /\ Goto(e, "symlink")
         \/ /\ Lstat(Here(e)) = None \/ HasChild(l)
            /\ Goto(e, "failed") /\ UNCHANGED fs
  /\ UNCHANGED <<relinked, plan, now, goal, depth, target, staged, made>>

\* os.Symlink, which fails on what has come there since.
MakeLink(e) ==
  /\ pc[e] = "symlink"
  /\ \/ /\ CanCreate(Here(e))
        /\ Put(Here(e), Link(target[e]))
        /\ Stand(e) /\ Done(e)
     \/ /\ ~CanCreate(Here(e))
        /\ Goto(e, "lost") /\ UNCHANGED <<fs, staged, now>>
  /\ UNCHANGED <<relinked, plan, goal, depth, target, made>>

-----------------------------------------------------------------------------

\* The tree is ready; what exec does next leaves it alone.
Launch(e) ==
  /\ pc[e] = "next" /\ now[e] > Len(plan[e])
  /\ Goto(e, "launched")
  /\ UNCHANGED <<fs, relinked, plan, now, goal, depth, target, staged, made>>

\* Any call fails, or exec is killed: what it has created stays.
Stop(e) ==
  /\ Active(e)
  /\ Goto(e, "failed")
  /\ UNCHANGED <<fs, relinked, plan, now, goal, depth, target, staged, made>>

\* Somebody points a link of the host elsewhere.
Relink ==
  /\ relinked < MaxRelinks
  /\ \E l \in Locations, to \in Relinks :
        /\ l[1] = "C" /\ fs[l].kind = "link" /\ fs[l].to # to
        /\ fs' = [fs EXCEPT ![l] = Link(to)]
  /\ relinked' = relinked + 1
  /\ UNCHANGED execVars

Step(e) == \/ MakeRoot(e) \/ SkipEntry(e) \/ StageEntry(e)
           \/ Stat(e) \/ Mkdir(e) \/ MkdirFails(e)
           \/ LookAtPlace(e) \/ ReadPlace(e) \/ RemovePlace(e) \/ MakeLink(e)
           \/ Launch(e) \/ Stop(e)

Next == Relink \/ \E e \in Execs : Step(e)

Spec == Init /\ [][Next]_vars

-----------------------------------------------------------------------------
(* Properties.                                                             *)

\* Types; MkdirAll never looks past the path it was given.
TypeOK ==
  /\ fs \in [Locations -> Entries]
  /\ relinked \in 0..MaxRelinks
  /\ pc \in [Execs -> Phases]
  /\ plan \in [Execs -> Seq(Tasks)]
  /\ now \in [Execs -> Nat] /\ depth \in [Execs -> Nat]
  /\ goal \in [Execs -> Locations \cup {<<>>}]
  /\ target \in [Execs -> Locations \cup {<<>>}]
  /\ staged \in [Execs -> SUBSET [at : Relative, to : Locations]]
  /\ made \in [Execs -> SUBSET Locations]
  /\ \A e \in Execs : /\ now[e] \in 1..Len(plan[e]) + 1
                      /\ depth[e] \in 0..Len(goal[e])

\* A launched command finds the links that its exec staged, whatever other exec
\* with the same --root do, fail at or are killed at: nobody replaces a link
\* that has the target the host's link has.
StagedStands ==
  relinked = 0 =>
    \A e \in Execs : pc[e] = "launched" =>
      \A s \in staged[e] : Lstat(Backing(s.at)) = Link(s.to)

\* Staging goes through links that lead out of the tree, and removes what it
\* finds at their end; while the links of the host are as they were, that is
\* nothing: no entry is replaced or removed, of the host or of the tree.
EntriesKept ==
  [][relinked' = 0 => \A l \in Locations : fs[l] # None => fs'[l] = fs[l]]_vars

\* Exec x has wanted a directory at p or below.
WantsDirectory(x, p) ==
  \E i \in 1..now[x] \cap DOMAIN plan[x] :
     LET q == plan[x][i].at
     IN  /\ Len(q) >= Len(p) /\ Prefix(q, Len(p)) = p
         /\ plan[x][i].do = "path" => q # p

\* "already exists and is not a symbolic link": only where some exec has made
\* the place, or one below it, a directory of the tree.  And where the place was
\* free and the link cannot be made after all, there is such a directory, or
\* another exec has made the very link.
ConflictHasCause ==
  relinked = 0 =>
    \A e \in Execs :
      /\ pc[e] = "conflict" => \E x \in Execs : WantsDirectory(x, Task(e).at)
      /\ pc[e] = "lost" => \/ \E x \in Execs : WantsDirectory(x, Task(e).at)
                          \/ Lstat(Here(e)) = Link(target[e])

-----------------------------------------------------------------------------
(* What a comment says and the code does not do: see the findings.         *)

\* The initialization paths "are deliberately created only in the backing tree"
\* (exec_windows.go:667).
InitOnlyInTree == \A e \in Execs : \A l \in made[e] : InTree(l)

=============================================================================
