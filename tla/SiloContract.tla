----------------------------- MODULE SiloContract -----------------------------
(***************************************************************************)
(* What a silo promises to everybody who knows its name, without launchers,*)
(* handles or calls: at any moment one job at most has the name; processes *)
(* enter it when it is a silo, and stay until they end; the job's own      *)
(* command enters a finished view; and when the name becomes free, the     *)
(* whole tree has ended in that same step.                                 *)
(*                                                                         *)
(* SiloRefinement shows that SiloLifecycle keeps this promise.             *)
(***************************************************************************)

CONSTANTS
  Jobs,        \* the jobs that may get the name
  Procs,       \* the processes that may run in them
  OwnCommand,  \* the command each job was made for
  NoJob        \* the name is free

VARIABLES
  holder,  \* the job that has the name
  stage,   \* how far it is: "none", "job", "silo" or "ready" (all mappings there)
  tree,    \* the processes in it
  over     \* processes that were in some job and have ended

vars == <<holder, stage, tree, over>>

Stages == {"none", "job", "silo", "ready"}

Init == holder = NoJob /\ stage = "none" /\ tree = {} /\ over = {}

\* A job gets the name, which must be free.
Take(j) == /\ holder = NoJob
           /\ holder' = j
           /\ stage' = "job"
           /\ UNCHANGED <<tree, over>>

\* The job becomes a silo; a silo without mappings is ready at once.
Promote == /\ stage = "job" /\ tree = {}
           /\ stage' \in {"silo", "ready"}
           /\ UNCHANGED <<holder, tree, over>>

Finish == /\ stage = "silo"
          /\ stage' = "ready"
          /\ UNCHANGED <<holder, tree, over>>

\* Anybody may enter an unfinished silo, except the command it is made for.
Enter(p) == /\ stage \in {"silo", "ready"}
            /\ p \notin tree \cup over
            /\ \A j \in Jobs : p = OwnCommand[j] => j = holder /\ stage = "ready"
            /\ tree' = tree \cup {p}
            /\ UNCHANGED <<holder, stage, over>>

\* Some processes end, together when they are killed.
End(P) == /\ tree' = tree \ P
          /\ over' = over \cup P
          /\ UNCHANGED <<holder, stage>>

\* The name becomes free, and nothing is left of the tree.
Free == /\ holder # NoJob
        /\ holder' = NoJob
        /\ stage' = "none"
        /\ tree' = {}
        /\ over' = over \cup tree

Next == \/ \E j \in Jobs : Take(j)
        \/ Promote \/ Finish
        \/ \E p \in Procs : Enter(p)
        \/ \E P \in SUBSET tree : End(P)
        \/ Free

Spec == Init /\ [][Next]_vars

=============================================================================
