----------------------------- MODULE MCLineage -----------------------------
(***************************************************************************)
(* Two memories that replace, duplicate and outlive one another, under     *)
(* peer gates, open-mode gates and a human approver, with quarantine and   *)
(* the core tier, while the operator switches between multi-agent and      *)
(* single-agent mode.                                                      *)
(***************************************************************************)
EXTENDS MemoryKernel, TLC

CONSTANTS anon, a, b, m1, m2

MCEntries == {m1, m2}
Ids == Permutations(MCEntries)
MCPrincipals == {anon, a, b}
MCAnonymous == anon
MCAdmins == {}
MCApprovers == {b}
MCVerifiers == {a, b}
MCHumanApprovers == {b}
MCProposers == {anon, a}
MCEditors == {}
MCOwner == [p \in MCPrincipals |-> p]
MCBallots == {"approve", "duplicate_of"}
MCDrafts ==
    {[readonly |-> FALSE, tighten |-> k = "tighten", quarantine |-> k = "quarantine",
      core |-> FALSE, expiry |-> "none"] : k \in {"tighten", "quarantine"}}
MCEdits == {}
MCSettings == {[multi |-> m, threshold |-> 2, owner |-> FALSE] : m \in BOOLEAN}
=============================================================================
