------------------------------ MODULE MCHeavy ------------------------------
(***************************************************************************)
(* A build, an import, an index refresh and a capture path share the slot. *)
(***************************************************************************)
EXTENDS HeavySlot, TLC

CONSTANTS build, refresh, capture, huge

MCCallers == {build, refresh, capture, huge}
MCHotPath == {capture}
MCTooLarge == {huge}
=============================================================================
