---------------------------- MODULE MCRoomChat ----------------------------
(* Instances of RoomChat for TLC.                                          *)
EXTENDS RoomChat, TLC

HandlersAlike == Permutations(Handlers)

(* The conditions under which the page's patches keep it current: the room *)
(* is quiet while the page loads and subscribes, the socket holds, and two *)
(* requests of one kind for one message, or one for a message not yet      *)
(* announced, do not overlap.                                              *)
Quiet == AtRest /\ inbox = <<>>
Open == subscribed /\ history = "loaded"
Closed == ~subscribed /\ history = "none"

Apart(kind, m) ==
    \A r \in Handlers : req[r].msg = m => ~Is(r, kind) /\ ~Is(r, "create")

SteadyNext ==
    \/ \E r \in Handlers :
        \/ (Open \/ Closed) /\ \E p \in Profiles : Send(r, p)
        \/ /\ Open \/ Closed
           /\ \E kind \in {"edit", "delete", "react", "pin"}, p \in Profiles,
                 m \in DOMAIN rows, pinned \in BOOLEAN :
                 /\ pinned => kind = "pin"
                 /\ Apart(kind, m)
                 /\ Ask(r, kind, p, m, pinned)
        \/ Step(r)
    \/ \E p \in Profiles : BurstEnds(p)
    \/ \E w \in Flushers : TakeCount(w) \/ StoreCount(w)
    \/ Quiet /\ (LoadHistory \/ Subscribe)
    \/ ReceiveHistory \/ Deliver \/ Reload

SteadySpec == Init /\ [][SteadyNext]_vars

=============================================================================
