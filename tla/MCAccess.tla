------------------------------ MODULE MCAccess ------------------------------
(***************************************************************************)
(* A daemon that serves two data directories, both with a legacy file: a   *)
(* call on each and a startup check on the first, which a command-line     *)
(* process calls too.  One idle store may stay open.                       *)
(***************************************************************************)
EXTENDS StoreAccess

CONSTANTS daemon, ops, r1, r2, check, cli, d1, d2

MCProcesses == {daemon, ops}
MCDirs == {d1, d2}
MCRequests == {r1, r2, check, cli}
MCProcessOf == [r \in MCRequests |-> IF r = cli THEN ops ELSE daemon]
MCDirOf == [r \in MCRequests |-> IF r = r2 THEN d2 ELSE d1]
MCChecks == {check}
MCLegacy == MCDirs
=============================================================================
