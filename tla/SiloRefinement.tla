---------------------------- MODULE SiloRefinement ----------------------------
(***************************************************************************)
(* SiloLifecycle, with all its handles and calls, keeps the promise of     *)
(* SiloContract.                                                           *)
(***************************************************************************)
EXTENDS SiloLifecycle

\* The job that somebody has a handle to.
Holder == IF NameFree THEN NoJob ELSE CHOOSE j \in Jobs : Named(j)

Stage == IF NameFree THEN "none"
         ELSE IF ~silo[Holder] THEN "job"
         ELSE IF mapped[Holder] < MapSteps THEN "silo" ELSE "ready"

\* Processes that have been placed in a job, and are alive or have ended.  A
\* process created suspended is in no job until it is assigned.
Tree == {p \in Procs : Live(p) /\ member[p] \in Jobs}
Over == {p \in Procs : proc[p] = "exited" /\ member[p] \in Jobs}

Contract == INSTANCE SiloContract WITH
              OwnCommand <- [j \in Jobs |-> Command(j)],
              holder <- Holder, stage <- Stage, tree <- Tree, over <- Over

\* Every step of an exec, a silo exec, a kill, a crash or a process is a step the
\* contract allows: one holder of the name at a time, processes only in a silo,
\* exec's own command only in its own finished one, no process back after its end,
\* and the tree gone when the name is free.
ContractKept == Contract!Spec

=============================================================================
