----------------------------- MODULE MCPersistence -----------------------------
(* Instances of Repository for TLC. *)
EXTENDS Repository, TLC

CONSTANTS a, b, t, s1, nobody

MCCalls == (t :> 2) @@ (s1 :> 1)
MCRows == (SUBSET {t, s1}) \cup {{nobody}}
=============================================================================
