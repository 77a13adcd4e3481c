------------------------------ MODULE MCWorker ------------------------------
(***************************************************************************)
(* Three calls, one of another configuration and one resident-only, with   *)
(* fewer child slots than calls; or two calls of one configuration, where  *)
(* the second may find the restart backing off.                            *)
(***************************************************************************)
EXTENDS WorkerSupervisor, TLC

CONSTANTS c1, c2, c3, c4

MCCalls == {c1, c2, c3, c4}
MCKeyOf == [c \in MCCalls |-> IF c = c2 THEN "new" ELSE "old"]
MCResidentOnly == {c3}
MCMixes == {{c1, c2, c3}, {c1, c4}}
=============================================================================
