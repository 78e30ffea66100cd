---------------------------- MODULE MCSiloLifecycle ----------------------------
(***************************************************************************)
(* SiloRefinement with two exec, a silo exec, a visitor that may kill and  *)
(* one that only looks.  Together they are too many for a search that also *)
(* checks liveness, so a run has one of three parties: the two exec and    *)
(* the killer, an exec with the silo exec and the killer, an exec with     *)
(* both visitors.                                                          *)
(***************************************************************************)
EXTENDS SiloRefinement, TLC

CONSTANTS e1, e2, n1, v1, v2

\* A client that does not take part.  Fairness asks nothing of one that has not
\* begun, and its --detach does not matter.
Absent(c) == pc[c] = "idle" /\ c \notin detached

OneParty == \E others \in {{n1, v2}, {e2, v2}, {e2, n1}} : \A c \in others : Absent(c)
=============================================================================
