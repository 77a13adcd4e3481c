------------------------------ MODULE MCAnswer ------------------------------
(***************************************************************************)
(* Two agents, one of them with two requests at a time, answering up to    *)
(* three jobs of two signatures of one kind.                               *)
(***************************************************************************)
EXTENDS JobAnswer, TLC

CONSTANTS s1, s2, dedupe, p1, p2, p3, alice, bob

MCSignatures == {s1, s2}
MCKinds == {dedupe}
MCKindOf == [s \in MCSignatures |-> dedupe]
MCProcesses == {p1, p2, p3}
MCPrincipal == [p \in MCProcesses |-> IF p = p3 THEN bob ELSE alice]
=============================================================================
