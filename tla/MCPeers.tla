------------------------------ MODULE MCPeers ------------------------------
(***************************************************************************)
(* One memory proposed with a token and rewritten twice: three agents, two *)
(* of one owner, decide it and its edits, HTTP rewrites come on top of     *)
(* edits that still wait, and expiry and retention come in between.        *)
(***************************************************************************)
EXTENDS MemoryKernel, TLC

CONSTANTS anon, a, b, b2, c, m1

MCEntries == {m1}
MCPrincipals == {anon, a, b, b2, c}
MCAnonymous == anon
MCAdmins == {}
MCApprovers == {}
MCVerifiers == {b, b2, c}
MCHumanApprovers == {}
MCProposers == {a}
MCEditors == {a}
MCOwner == [p \in MCPrincipals |-> IF p \in {b, b2} THEN "ops" ELSE p]
Twins == Permutations({b, b2})
MCBallots == {"approve", "reject"}
MCDrafts ==
    {[readonly |-> FALSE, tighten |-> FALSE, quarantine |-> FALSE, core |-> FALSE, expiry |-> "none"]}
MCEdits == {[changes |-> TRUE, quarantine |-> FALSE, expiry |-> "none"]}
MCSettings == {[multi |-> TRUE, threshold |-> 2, owner |-> TRUE]}
=============================================================================
