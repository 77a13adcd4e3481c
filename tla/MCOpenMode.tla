----------------------------- MODULE MCOpenMode -----------------------------
(***************************************************************************)
(* One open-mode memory: written and asserted before tokens were           *)
(* configured, voted on, rewritten and restored by authenticated peers     *)
(* while open-mode requests still arrive and its expiry date passes.       *)
(***************************************************************************)
EXTENDS MemoryKernel, TLC

CONSTANTS anon, a, b, m1

MCEntries == {m1}
MCPrincipals == {anon, a, b}
MCAnonymous == anon
Everyone == MCPrincipals
MCProposers == {anon}
MCEditors == {anon, a}
MCAdmins == {anon, a}
MCApprovers == {anon}
NoOne == {}
MCOwner == [p \in MCPrincipals |-> p]
MCBallots == {"approve", "reject"}
MCDrafts ==
    {[readonly |-> FALSE, tighten |-> FALSE, quarantine |-> FALSE, core |-> FALSE, expiry |-> "none"]}
MCEdits ==
    {[changes |-> x = "none", quarantine |-> FALSE, expiry |-> x] : x \in {"none", "future"}}
MCSettings == {[multi |-> TRUE, threshold |-> 2, owner |-> FALSE]}
=============================================================================
