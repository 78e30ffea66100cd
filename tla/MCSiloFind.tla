----------------------------- MODULE MCSiloFind -----------------------------
(* Processes and jobs for SiloFind; some jobs may not be opened. *)
EXTENDS SiloFind, TLC

\* Processes of one name play the same part; they differ by their PIDs.
ProcSymmetry == Permutations(Matching)

\* What others do once silo find has ended changes nothing it has said.
StillRuns == pc \notin {"done", "failed"}

=============================================================================
