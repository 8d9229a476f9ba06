---------------------------- MODULE MCPublishing ----------------------------
(***************************************************************************)
(* A pool of three titles and two a day, for two days and two pods; one    *)
(* title in the bank, one on top, one retired; a user posts a title of the *)
(* pool in a private room.                                                 *)
(***************************************************************************)
EXTENDS Publishing, TLC

CONSTANTS p1, p2, p3, bank, top, old, pod1, pod2

MCTitles == {p1, p2, p3, bank, top, old}
MCPool == <<p1, p2, p3>>
MCBank == <<bank>>
MCTop == <<top>>
MCOwn == {<<p2, FALSE>>}
MCPods == {pod1, pod2}

=============================================================================
