---------------------------- MODULE MCRoomSeats ----------------------------
(* Instances of RoomSeats for TLC.                                         *)
EXTENDS RoomSeats, TLC

(* Requests are interchangeable, and so are the profiles other than the    *)
(* owner with the same seat at the start.                                  *)
Interchangeable ==
    Permutations(Seated \ {Owner}) \cup Permutations(Profiles \ Seated)
        \cup Permutations(Requests)

(* The load under which automatic admission can be relied on: one leave or *)
(* kick at a time, admission included; a profile's requests one after the  *)
(* other, but for a join sent twice; nobody asks again for a place in line *)
(* he has, or is kicked from it.                                           *)
OrderlyArrival(kind, p) ==
    /\ kind \in {"leave", "kick"} =>
           \A r \in Requests : req[r].kind \notin {"leave", "kick", "admit"}
    /\ kind \in {"enqueue", "kick"} => ~Contains(queue, p)
    /\ \A r \in Requests : req[r].who = p => kind = "join" /\ req[r].kind = "join"

OrderlyNext ==
    \/ \E r \in Requests :
        \/ \E kind \in DOMAIN FirstStage, p \in Profiles :
              OrderlyArrival(kind, p) /\ Receive(r, kind, p)
        \/ Step(r)
    \/ \E p \in Profiles : ExpireBlock(p)

OrderlySpec ==
    Init /\ [][OrderlyNext]_vars /\ \A r \in Requests : WF_vars(Step(r))

=============================================================================
