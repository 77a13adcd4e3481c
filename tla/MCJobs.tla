------------------------------- MODULE MCJobs -------------------------------
(***************************************************************************)
(* Three jobs over two signatures and two kinds; two processes, both of    *)
(* one principal, that may crash.                                          *)
(***************************************************************************)
EXTENDS JobStore, TLC

CONSTANTS s1, s2, dedupe, stale, p1, p2, agent

MCSignatures == {s1, s2}
MCKinds == {dedupe, stale}
MCKindOf == (s1 :> dedupe) @@ (s2 :> stale)
MCProcesses == {p1, p2}
MCPrincipal == [p \in MCProcesses |-> agent]
=============================================================================
