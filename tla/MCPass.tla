------------------------------- MODULE MCPass -------------------------------
(***************************************************************************)
(* A table whose anchors are too many for one pass, with ids in the order  *)
(* of insertion; and, with ids in the opposite order, the cases in which   *)
(* the budget ends between two entries of a page and in which two memories *)
(* on one anchor lie either side of the place where a pass stops.          *)
(***************************************************************************)
EXTENDS Consolidation

\* Pages of two entries with a budget of three anchors: a pass that starts at 1 reads the
\* first anchor of 3 and not the second, which drifted, and does not get to 4, an ageing
\* proposal.  1 and 2 share an anchor.
MCIdRank == [e \in Entries |-> e]
MCAnchorsOf == <<<<"a">>, <<"a">>, <<"c", "gone">>, <<"d">>>>
MCStale == {"gone"}
MCAged == {4}
MCRetirable == {4}

\* Ids in the opposite order.
ReversedIds == [e \in Entries |-> MaxEntries - e]

\* Entries whose one anchor drifted.
OneAnchorEach == [e \in Entries |-> <<"gone">>]

\* Entries 2 and 3 are about one file, the others about nothing.
SharedByTwo == [e \in Entries |-> IF e \in {2, 3} THEN <<"file">> ELSE <<>>]
NoEntries == {}

ASSUME WalkAssumption == WalksTyped
=============================================================================
