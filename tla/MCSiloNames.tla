----------------------------- MODULE MCSiloNames -----------------------------
(* Sessions and clients for SiloNames. *)
EXTENDS SiloNames, TLC

CONSTANTS e1, e2, n1, c1, user

\* One exec in session 0, everybody else in a user's session.
MCSession == [c \in Clients |-> IF c = e2 THEN Global ELSE user]

=============================================================================
