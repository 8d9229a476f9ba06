--------------------------- MODULE RoomChatProofs ---------------------------
(***************************************************************************)
(* What holds of RoomChat for any members, handlers and flushes, and for   *)
(* any number of requests, drops and failures; and, under the conditions   *)
(* of SteadySpec (MCRoomChat), that the page keeps current.                *)
(***************************************************************************)
EXTENDS MCRoomChat, FiniteSetTheorems, SequenceTheorems, TLAPS

-----------------------------------------------------------------------------
(* Types.                                                                  *)

(* A reaction's rows are counted, so there are finitely many; and only a   *)
(* react goes through "count".                                             *)
ChatTypes ==
    /\ TypeOK
    /\ IsFiniteSet(reactions)
    /\ \A r \in Handlers : At(r, "count") => Is(r, "react")

(* What ToView makes of a row.                                             *)
LEMMA ToViewType ==
    ASSUME TypeOK, IsFiniteSet(reactions), NEW m \in DOMAIN rows
    PROVE  ToView(m, 0) \in Item /\ Cardinality(On(m)) \in Nat
<1>1. rows[m] \in Row /\ m \in Nat
  BY DEF TypeOK
<1>2. On(m) \in SUBSET reactions
  BY DEF On
<1>3. Cardinality(On(m)) \in Nat
  BY <1>2, FS_Subset, FS_CardinalityType
<1> QED
  BY <1>1, <1>3 DEF ToView, Item, Row

LEMMA CountType ==
    ASSUME IsFiniteSet(reactions), NEW m
    PROVE  Cardinality(On(m)) \in Nat
BY FS_Subset, FS_CardinalityType DEF On

(* A patch changes one item of the list and leaves ids and nonces alone.   *)
LEMMA PatchTypes ==
    ASSUME TypeOK, NEW e \in Event
    PROVE  /\ e.type = "edited" => OnEdited(e) \subseteq Item
           /\ e.type = "deleted" => OnDeleted(e) \subseteq Item
           /\ e.type = "pinned" => OnPinned(e) \subseteq Item
           /\ e.type = "reaction" => OnReaction(e) \subseteq Item
<1>0. items \subseteq Item
  BY DEF TypeOK
<1>1. e.type = "edited" => OnEdited(e) \subseteq Item
  BY <1>0 DEF OnEdited, PatchMessages, Item, Event
<1>2. e.type = "deleted" => OnDeleted(e) \subseteq Item
  <2>1. \A x \in Item : [x EXCEPT !.deleted = TRUE, !.text = 0] \in Item
    BY DEF Item
  <2> QED
    BY <1>0, <2>1 DEF OnDeleted, PatchMessages
<1>3. e.type = "pinned" => OnPinned(e) \subseteq Item
  BY <1>0 DEF OnPinned, PatchMessages, Item, Event
<1>4. e.type = "reaction" => OnReaction(e) \subseteq Item
  BY <1>0 DEF OnReaction, PatchMessages, Item, Event
<1> QED
  BY <1>1, <1>2, <1>3, <1>4

(* What a step does to the handlers.                                       *)
LEMMA GotoTypes ==
    ASSUME ChatTypes, NEW r \in Handlers, NEW stage \in Stage, stage # "count" \/ Is(r, "react"),
           Goto(r, stage)
    PROVE  req' \in [Handlers -> Request]
           /\ \A d \in Handlers : At(d, "count")' => Is(d, "react")'
BY DEF ChatTypes, TypeOK, Goto, At, Is, Request

LEMMA FinishTypes ==
    ASSUME ChatTypes, NEW r \in Handlers, Finish(r)
    PROVE  req' \in [Handlers -> Request]
           /\ \A d \in Handlers : At(d, "count")' => Is(d, "react")'
<1>1. Idle \in Request
  BY ViewerAssumption DEF Idle, Request, Kind, Stage
<1> QED
  BY <1>1 DEF ChatTypes, TypeOK, Finish, At, Is, Idle

LEMMA SetTypes ==
    ASSUME ChatTypes, NEW r \in Handlers, NEW q \in Request,
           q.stage = "count" => q.kind = "react", req' = [req EXCEPT ![r] = q]
    PROVE  req' \in [Handlers -> Request]
           /\ \A d \in Handlers : At(d, "count")' => Is(d, "react")'
BY DEF ChatTypes, TypeOK, At, Is

(* The requests the actions write.                                         *)
LEMMA IdleType == Idle \in Request /\ Idle.stage = "idle" /\ Idle.kind = "none"
BY ViewerAssumption DEF Idle, Request, Kind, Stage

LEMMA SendRequest ==
    ASSUME NEW q \in Request, NEW p \in Profiles, NEW n \in Nat, NEW c,
           c = [q EXCEPT !.kind = "create", !.stage = "guard", !.who = p, !.no = n]
    PROVE  c \in Request /\ c.stage = "guard"
BY DEF Request, Kind, Stage

LEMMA ProgressRequest ==
    ASSUME NEW q \in Request, NEW n \in Nat, NEW c,
           \/ c = [q EXCEPT !.msg = n, !.stage = "emit"]
           \/ c = [q EXCEPT !.found = n, !.stage = "write"]
           \/ c = [q EXCEPT !.count = n, !.stage = "emit"]
    PROVE  c \in Request /\ c.stage \in {"write", "emit"} /\ c.kind = q.kind
BY DEF Request, Stage

LEMMA BroadcastTypes ==
    ASSUME TypeOK, NEW e \in Event, Broadcast(e)
    PROVE  inbox' \in Seq(Event)
BY AppendProperties DEF TypeOK, Broadcast

LEMMA InitTypes == Init => ChatTypes
<1> SUFFICES ASSUME Init PROVE ChatTypes
  OBVIOUS
<1>1. req \in [Handlers -> Request] /\ \A r \in Handlers : ~At(r, "count")
  BY IdleType DEF Init, At
<1>2. rows \in Seq(Row) /\ inbox \in Seq(Event)
  BY EmptySeq DEF Init
<1>3. bursts \in [Profiles -> [count : Nat, expires : BOOLEAN]]
  BY DEF Init
<1>4. IsFiniteSet(reactions)
  BY FS_EmptySet DEF Init
<1>5. reactions \subseteq Reaction /\ carried \in [Flushers -> Nat]
      /\ page \subseteq Item /\ items \subseteq Item
  BY DEF Init
<1>6. /\ pending \in Nat /\ messageCount \in Nat /\ received \in Nat /\ drops \in Nat
      /\ failures \in Nat /\ subscribed \in BOOLEAN /\ history = "none"
  BY DEF Init
<1>7. TypeOK
  BY <1>1, <1>2, <1>3, <1>5, <1>6 DEF TypeOK
<1> QED
  BY <1>1, <1>4, <1>7 DEF ChatTypes

LEMMA StepTypes ==
    ASSUME ChatTypes, Next
    PROVE  ChatTypes'
<1>0. /\ TypeOK /\ rows \in Seq(Row) /\ reactions \subseteq Reaction
      /\ bursts \in [Profiles -> [count : Nat, expires : BOOLEAN]]
      /\ pending \in Nat /\ messageCount \in Nat
      /\ req \in [Handlers -> Request] /\ carried \in [Flushers -> Nat]
      /\ inbox \in Seq(Event) /\ page \subseteq Item /\ items \subseteq Item
      /\ received \in Nat /\ drops \in Nat /\ failures \in Nat
      /\ IsFiniteSet(reactions)
      /\ \A r \in Handlers : At(r, "count") => Is(r, "react")
      /\ \A r \in Handlers : req[r].who \in Profiles /\ req[r].no \in Nat /\ req[r].msg \in Nat
           /\ req[r].pinned \in BOOLEAN /\ req[r].found \in Nat /\ req[r].count \in Nat
  BY DEF ChatTypes, TypeOK, Request
<1>s. {"idle", "guard", "burst", "expire", "find", "write", "count", "emit"} = Stage
  BY DEF Stage
<1>1. ASSUME NEW r \in Handlers, NEW p \in Profiles, Send(r, p) PROVE ChatTypes'
  <2>1. Optimistic(received + 1) \in Item
    BY <1>0 DEF Optimistic, Item
  <2> DEFINE q == [Idle EXCEPT !.kind = "create", !.stage = "guard", !.who = p,
                               !.no = received + 1]
  <2>2. q \in Request /\ q.stage = "guard"
    <3>1. received + 1 \in Nat
      BY <1>0
    <3> HIDE DEF q
    <3> QED
      BY <3>1, IdleType, SendRequest DEF q
  <2>3. req' = [req EXCEPT ![r] = q]
    BY <1>1 DEF Send, Arrive
  <2> HIDE DEF q
  <2>4. req' \in [Handlers -> Request] /\ \A d \in Handlers : At(d, "count")' => Is(d, "react")'
    BY <1>0, <2>2, <2>3, SetTypes
  <2>5. items' \subseteq Item
    BY <1>0, <1>1, <2>1 DEF Send
  <2> QED
    BY <1>0, <1>1, <2>4, <2>5 DEF Send, Arrive, server, worker, TypeOK, ChatTypes
<1>2. ASSUME NEW r \in Handlers, NEW kind \in {"edit", "delete", "react", "pin"},
             NEW p \in Profiles, NEW m \in DOMAIN rows, NEW pinned \in BOOLEAN,
             Ask(r, kind, p, m, pinned)
      PROVE  ChatTypes'
  <2> DEFINE stage == IF kind = "react" THEN "guard" ELSE "find"
  <2> DEFINE q == [Idle EXCEPT !.kind = kind, !.who = p, !.msg = m, !.no = received + 1,
                               !.pinned = pinned, !.stage = stage]
  <2>1. m \in Nat /\ stage \in Stage /\ stage # "count" /\ kind \in Kind
    BY <1>0 DEF Stage, Kind
  <2>2. q \in Request /\ q.stage = stage
    <3>1. received + 1 \in Nat /\ Idle \in Request
      BY <1>0, IdleType
    <3> HIDE DEF stage
    <3> QED
      BY <2>1, <3>1 DEF Request
  <2>3. req' = [req EXCEPT ![r] = q]
    BY <1>2 DEF Ask, Arrive
  <2> HIDE DEF q, stage
  <2>4. req' \in [Handlers -> Request] /\ \A d \in Handlers : At(d, "count")' => Is(d, "react")'
    BY <1>0, <2>1, <2>2, <2>3, SetTypes
  <2> QED
    BY <1>0, <1>2, <2>4 DEF Ask, Arrive, server, worker, TypeOK, ChatTypes
<1>3. ASSUME NEW r \in Handlers, Guard(r) PROVE ChatTypes'
  <2>1. Finish(r) \/ Goto(r, "burst") \/ Goto(r, "find")
    BY <1>3 DEF Guard
  <2>2. req' \in [Handlers -> Request] /\ \A d \in Handlers : At(d, "count")' => Is(d, "react")'
    BY <1>s, <2>1, GotoTypes, FinishTypes
  <2> QED
    BY <1>0, <1>3, <2>2 DEF Guard, server, worker, client, TypeOK, ChatTypes
<1>4. ASSUME NEW r \in Handlers, CountBurst(r) PROVE ChatTypes'
  <2>1. Finish(r) \/ Goto(r, "expire") \/ Goto(r, "write")
    BY <1>4 DEF CountBurst
  <2>2. req' \in [Handlers -> Request] /\ \A d \in Handlers : At(d, "count")' => Is(d, "react")'
    BY <1>s, <2>1, GotoTypes, FinishTypes
  <2>3. bursts' \in [Profiles -> [count : Nat, expires : BOOLEAN]]
    <3>1. \A b \in [count : Nat, expires : BOOLEAN] :
             [b EXCEPT !.count = @ + 1] \in [count : Nat, expires : BOOLEAN]
      OBVIOUS
    <3> QED
      BY <1>0, <1>4, <3>1 DEF CountBurst
  <2> QED
    BY <1>0, <1>4, <2>2, <2>3 DEF CountBurst, worker, client, TypeOK, ChatTypes
<1>5. ASSUME NEW r \in Handlers, ExpireBurst(r) PROVE ChatTypes'
  <2>1. Finish(r) \/ Goto(r, "write")
    BY <1>5 DEF ExpireBurst
  <2>2. req' \in [Handlers -> Request] /\ \A d \in Handlers : At(d, "count")' => Is(d, "react")'
    BY <1>s, <2>1, GotoTypes, FinishTypes
  <2>3. bursts' \in [Profiles -> [count : Nat, expires : BOOLEAN]]
    BY <1>0, <1>5 DEF ExpireBurst
  <2> QED
    BY <1>0, <1>5, <2>2, <2>3 DEF ExpireBurst, worker, client, TypeOK, ChatTypes
<1>6. ASSUME NEW p \in Profiles, BurstEnds(p) PROVE ChatTypes'
  <2>1. bursts' \in [Profiles -> [count : Nat, expires : BOOLEAN]]
    BY <1>0, <1>6 DEF BurstEnds
  <2> QED
    BY <1>0, <1>6, <2>1 DEF BurstEnds, worker, client, TypeOK, ChatTypes, At, Is
<1>7. ASSUME NEW r \in Handlers, WriteMessage(r) PROVE ChatTypes'
  <2>1. CASE Finish(r) /\ UNCHANGED rows
    BY <1>0, <1>7, <2>1, FinishTypes DEF WriteMessage, worker, client, TypeOK, ChatTypes
  <2>2. CASE /\ rows' = Append(rows, [author |-> req[r].who, text |-> req[r].no,
                                      deleted |-> FALSE, pinned |-> FALSE])
             /\ req' = [req EXCEPT ![r].msg = Len(rows) + 1, ![r].stage = "emit"]
    <3>1. rows' \in Seq(Row)
      BY <1>0, <2>2, AppendProperties DEF Row
    <3>2. Len(rows) + 1 \in Nat /\ req[r] \in Request
      BY <1>0
    <3>3. req' = [req EXCEPT ![r] = [req[r] EXCEPT !.msg = Len(rows) + 1, !.stage = "emit"]]
      BY <2>2
    <3>5. req' \in [Handlers -> Request] /\ \A d \in Handlers : At(d, "count")' => Is(d, "react")'
      BY <1>0, <3>2, <3>3, ProgressRequest, SetTypes
    <3> QED
      BY <1>0, <1>7, <3>1, <3>5 DEF WriteMessage, worker, client, TypeOK, ChatTypes
  <2> QED
    BY <1>7, <2>1, <2>2 DEF WriteMessage
<1>8. ASSUME NEW r \in Handlers, AnnounceMessage(r) PROVE ChatTypes'
  <2>1. [type |-> "created", item |-> Created(r)] \in Event
    BY <1>0 DEF Created, Event, Item
  <2>2. inbox' \in Seq(Event)
    BY <1>0, <1>8, <2>1, BroadcastTypes DEF AnnounceMessage
  <2> QED
    BY <1>0, <1>8, <2>2, FinishTypes DEF AnnounceMessage, worker, client, TypeOK, ChatTypes
<1>9. ASSUME NEW r \in Handlers, Find(r) PROVE ChatTypes'
  <2>1. \/ Finish(r) \/ Goto(r, "write")
        \/ \E x \in reactions : req' = [req EXCEPT ![r].found = x.id, ![r].stage = "write"]
    BY <1>9 DEF Find, By, On
  <2>2. ASSUME NEW x \in reactions, req' = [req EXCEPT ![r].found = x.id, ![r].stage = "write"]
        PROVE  req' \in [Handlers -> Request]
               /\ \A d \in Handlers : At(d, "count")' => Is(d, "react")'
    <3>1. req' = [req EXCEPT ![r] = [req[r] EXCEPT !.found = x.id, !.stage = "write"]]
      BY <2>2
    <3>2. x.id \in Nat /\ req[r] \in Request
      BY <1>0 DEF Reaction
    <3> QED
      BY <1>0, <3>1, <3>2, ProgressRequest, SetTypes
  <2>3. req' \in [Handlers -> Request] /\ \A d \in Handlers : At(d, "count")' => Is(d, "react")'
    BY <1>s, <2>1, <2>2, GotoTypes, FinishTypes
  <2> QED
    BY <1>0, <1>9, <2>3 DEF Find, server, worker, client, TypeOK, ChatTypes
<1>10. ASSUME NEW r \in Handlers, UpdateMessage(r) PROVE ChatTypes'
  <2> DEFINE m == req[r].msg
  <2>1. \/ rows' = [rows EXCEPT ![m].text = req[r].no]
        \/ rows' = [rows EXCEPT ![m].deleted = TRUE, ![m].text = 0, ![m].pinned = FALSE]
        \/ rows' = [rows EXCEPT ![m].pinned = req[r].pinned]
    BY <1>10 DEF UpdateMessage
  <2>2. \A x \in Row : /\ [x EXCEPT !.text = req[r].no] \in Row
                       /\ [x EXCEPT !.deleted = TRUE, !.text = 0, !.pinned = FALSE] \in Row
                       /\ [x EXCEPT !.pinned = req[r].pinned] \in Row
    BY <1>0 DEF Row
  <2>3. rows \in [1 .. Len(rows) -> Row] /\ Len(rows) \in Nat
    BY <1>0, LenProperties
  <2> DEFINE R == 1 .. Len(rows)
  <2>4. rows' \in Seq(Row)
    <3>1. rows' \in [R -> Row]
      <4>1. rows \in [R -> Row]
        BY <2>3
      <4> HIDE DEF R, m
      <4>2. CASE rows' = [rows EXCEPT ![m].text = req[r].no]
        BY <2>2, <4>1, <4>2
      <4>3. CASE rows' = [rows EXCEPT ![m].deleted = TRUE, ![m].text = 0, ![m].pinned = FALSE]
        BY <2>2, <4>1, <4>3
      <4>4. CASE rows' = [rows EXCEPT ![m].pinned = req[r].pinned]
        BY <2>2, <4>1, <4>4
      <4> QED
        BY <2>1, <4>2, <4>3, <4>4
    <3> QED
      BY <2>3, <3>1, SeqDef
  <2>5. Goto(r, "emit")
    BY <1>10 DEF UpdateMessage
  <2>6. req' \in [Handlers -> Request] /\ \A d \in Handlers : At(d, "count")' => Is(d, "react")'
    BY <1>s, <2>5, GotoTypes
  <2> QED
    BY <1>0, <1>10, <2>4, <2>6 DEF UpdateMessage, worker, client, TypeOK, ChatTypes
<1>11. ASSUME NEW r \in Handlers, WriteReaction(r) PROVE ChatTypes'
  <2>1. Finish(r) \/ (Is(r, "react") /\ Goto(r, "count"))
    BY <1>11 DEF WriteReaction
  <2>2. req' \in [Handlers -> Request] /\ \A d \in Handlers : At(d, "count")' => Is(d, "react")'
    BY <1>s, <2>1, GotoTypes, FinishTypes
  <2>3. [msg |-> req[r].msg, by |-> req[r].who, id |-> req[r].no] \in Reaction
    BY <1>0 DEF Reaction
  <2>4. \/ reactions' = reactions \cup {[msg |-> req[r].msg, by |-> req[r].who, id |-> req[r].no]}
        \/ reactions' \subseteq reactions
    BY <1>11 DEF WriteReaction
  <2>5. reactions' \subseteq Reaction /\ IsFiniteSet(reactions')
    <3>1. CASE reactions' \subseteq reactions
      <4>1. reactions' \in SUBSET reactions
        BY <3>1
      <4> QED
        BY <1>0, <4>1, FS_Subset
    <3>2. CASE reactions' = reactions \cup
                  {[msg |-> req[r].msg, by |-> req[r].who, id |-> req[r].no]}
      <4> DEFINE x == [msg |-> req[r].msg, by |-> req[r].who, id |-> req[r].no]
      <4>1. reactions' = reactions \cup {x} /\ x \in Reaction
        BY <2>3, <3>2
      <4> HIDE DEF x
      <4> QED
        BY <1>0, <4>1, FS_AddElement
    <3> QED
      BY <2>4, <3>1, <3>2
  <2> QED
    BY <1>0, <1>11, <2>2, <2>5 DEF WriteReaction, worker, client, TypeOK, ChatTypes
<1>12. ASSUME NEW r \in Handlers, CountReactions(r) PROVE ChatTypes'
  <2> DEFINE n == Cardinality(On(req[r].msg))
  <2>1. n \in Nat /\ req[r] \in Request
    BY <1>0, CountType
  <2>2. req' = [req EXCEPT ![r] = [req[r] EXCEPT !.count = n, !.stage = "emit"]]
    BY <1>12 DEF CountReactions
  <2> HIDE DEF n
  <2>4. req' \in [Handlers -> Request] /\ \A d \in Handlers : At(d, "count")' => Is(d, "react")'
    BY <1>0, <2>1, <2>2, ProgressRequest, SetTypes
  <2> QED
    BY <1>0, <1>12, <2>4 DEF CountReactions, server, worker, client, TypeOK, ChatTypes
<1>13. ASSUME NEW r \in Handlers, AnnounceChange(r) PROVE ChatTypes'
  <2> DEFINE q == req[r]
  <2>1. \/ Broadcast([type |-> "edited", msg |-> q.msg, text |-> q.no])
        \/ Broadcast([type |-> "deleted", msg |-> q.msg])
        \/ Broadcast([type |-> "pinned", msg |-> q.msg, pinned |-> q.pinned])
        \/ Broadcast([type |-> "reaction", msg |-> q.msg, count |-> q.count,
                      by |-> q.who, added |-> q.found = 0])
    BY <1>13 DEF AnnounceChange
  <2>2. /\ [type |-> "edited", msg |-> q.msg, text |-> q.no] \in Event
        /\ [type |-> "deleted", msg |-> q.msg] \in Event
        /\ [type |-> "pinned", msg |-> q.msg, pinned |-> q.pinned] \in Event
        /\ [type |-> "reaction", msg |-> q.msg, count |-> q.count,
            by |-> q.who, added |-> q.found = 0] \in Event
    BY <1>0 DEF Event
  <2>3. inbox' \in Seq(Event)
    BY <1>0, <2>1, <2>2, BroadcastTypes
  <2> QED
    BY <1>0, <1>13, <2>3, FinishTypes DEF AnnounceChange, server, worker, client, TypeOK, ChatTypes
<1>14. ASSUME NEW w \in Flushers, TakeCount(w) \/ StoreCount(w) PROVE ChatTypes'
  <2>1. CASE TakeCount(w)
    BY <1>0, <2>1 DEF TakeCount, client, TypeOK, ChatTypes, At, Is
  <2>2. CASE StoreCount(w)
    <3>1. messageCount' \in Nat /\ carried' \in [Flushers -> Nat]
      BY <1>0, <2>2 DEF StoreCount
    <3> QED
      BY <1>0, <2>2, <3>1 DEF StoreCount, server, client, TypeOK, ChatTypes, At, Is
  <2> QED
    BY <1>14, <2>1, <2>2
<1>15. CASE Fail
  <2>1. CASE \E r \in Handlers : Finish(r) /\ UNCHANGED carried
    <3>1. PICK r \in Handlers : Finish(r) /\ UNCHANGED carried
      BY <2>1
    <3>2. req' \in [Handlers -> Request] /\ \A d \in Handlers : At(d, "count")' => Is(d, "react")'
      BY <3>1, FinishTypes
    <3> QED
      BY <1>0, <1>15, <3>1, <3>2 DEF Fail, server, client, TypeOK, ChatTypes
  <2>2. CASE /\ \E w \in Flushers : carried' = [carried EXCEPT ![w] = 0]
             /\ UNCHANGED req
    <3>1. carried' \in [Flushers -> Nat]
      BY <1>0, <2>2
    <3> QED
      BY <1>0, <1>15, <2>2, <3>1 DEF Fail, server, client, TypeOK, ChatTypes, At, Is
  <2> QED
    BY <1>15, <2>1, <2>2 DEF Fail
<1>16. CASE Subscribe \/ Drop \/ Reload
  <2>1. CASE Subscribe
    BY <1>0, <2>1 DEF Subscribe, server, worker, TypeOK, ChatTypes, At, Is
  <2>2. CASE Drop
    <3>1. inbox' \in Seq(Event) /\ drops' \in Nat
      BY <1>0, <2>2, EmptySeq DEF Drop
    <3> QED
      BY <1>0, <2>2, <3>1 DEF Drop, server, worker, TypeOK, ChatTypes, At, Is
  <2>3. CASE Reload
    <3>1. inbox' \in Seq(Event) /\ drops' \in Nat
      BY <1>0, <2>3, EmptySeq DEF Reload
    <3> QED
      BY <1>0, <2>3, <3>1 DEF Reload, server, worker, TypeOK, ChatTypes, At, Is
  <2> QED
    BY <1>16, <2>1, <2>2, <2>3
<1>17. CASE LoadHistory
  <2>1. page' \subseteq Item
    BY <1>0, <1>17, ToViewType DEF LoadHistory
  <2> QED
    BY <1>0, <1>17, <2>1 DEF LoadHistory, server, worker, client, TypeOK, ChatTypes, At, Is
<1>18. CASE ReceiveHistory
  BY <1>0, <1>18 DEF ReceiveHistory, server, worker, client, TypeOK, ChatTypes, At, Is
<1>19. CASE Deliver
  <2> DEFINE e == Head(inbox)
  <2>1. e \in Event /\ inbox' \in Seq(Event)
    BY <1>0, <1>19, HeadTailProperties DEF Deliver
  <2>2. e.type = "created" => PrependMessage(e.item) \subseteq Item
    BY <1>0, <2>1 DEF PrependMessage, Event
  <2>3. \/ UNCHANGED items
        \/ e.type = "created" /\ items' = PrependMessage(e.item)
        \/ e.type = "edited" /\ items' = OnEdited(e)
        \/ e.type = "deleted" /\ items' = OnDeleted(e)
        \/ e.type = "pinned" /\ items' = OnPinned(e)
        \/ e.type = "reaction" /\ items' = OnReaction(e)
    BY <1>19 DEF Deliver
  <2>4. items' \subseteq Item
    BY <1>0, <2>1, <2>2, <2>3, PatchTypes
  <2> QED
    BY <1>0, <1>19, <2>1, <2>4 DEF Deliver, server, worker, client, TypeOK, ChatTypes, At, Is
<1> QED
  BY <1>1, <1>2, <1>3, <1>4, <1>5, <1>6, <1>7, <1>8, <1>9, <1>10, <1>11, <1>12, <1>13,
     <1>14, <1>15, <1>16, <1>17, <1>18, <1>19 DEF Next, Step, Page


(* Every message, event and handler the room holds is what its type says,  *)
(* for any members, handlers, flushes and bounds.                          *)
THEOREM ChatTypeCorrect == Spec => []TypeOK
<1>1. Init => ChatTypes
  BY InitTypes
<1>2. ChatTypes /\ [Next]_vars => ChatTypes'
  <2>1. ChatTypes /\ UNCHANGED vars => ChatTypes'
    BY DEF ChatTypes, TypeOK, vars, server, worker, client, At, Is
  <2> QED
    BY <2>1, StepTypes
<1>3. ChatTypes => TypeOK
  BY DEF ChatTypes
<1> QED
  BY <1>1, <1>2, <1>3, PTL DEF Spec

-----------------------------------------------------------------------------
(* One message, one row.                                                   *)

(* A request's number names what it writes, so it must be fresh: no        *)
(* handler, item or broadcast carries a nonce above the last one given     *)
(* out, an optimistic id is the negative of one, and the answer to the     *)
(* message query holds stored messages only, each once.                    *)
Numbered ==
    /\ \A r \in Handlers : req[r].no <= received
    /\ \A x \in items : x.nonce <= received /\ -received <= x.id
    /\ \A i \in 1 .. Len(inbox) :
          inbox[i].type = "created" => inbox[i].item.nonce <= received /\ 0 <= inbox[i].item.id
    /\ \A x \in page : x.nonce = 0 /\ 1 <= x.id
    /\ \A x, y \in page : x.id = y.id => x = y

NamesInv == Numbered /\ ShownOnce

(* A step of a handler ends it or keeps whose request it is and which.     *)
LEMMA StepKeepsNumber ==
    ASSUME ChatTypes, NEW r \in Handlers, Step(r)
    PROVE  \E q \in Request :
              /\ req' = [req EXCEPT ![r] = q]
              /\ q = Idle \/ (q.no = req[r].no /\ q.kind = req[r].kind /\ q.who = req[r].who)
<1>0. req \in [Handlers -> Request] /\ req[r] \in Request /\ Idle \in Request
  BY IdleType DEF ChatTypes, TypeOK
<1> DEFINE Kept(q) == q \in Request /\ q.no = req[r].no /\ q.kind = req[r].kind
                      /\ q.who = req[r].who
<1>1. ASSUME NEW s \in Stage, Goto(r, s)
      PROVE  \E q \in Request : req' = [req EXCEPT ![r] = q] /\ Kept(q)
  <2>1. Kept([req[r] EXCEPT !.stage = s])
    BY <1>0 DEF Request
  <2>2. req' = [req EXCEPT ![r] = [req[r] EXCEPT !.stage = s]]
    BY <1>1 DEF Goto
  <2> QED
    BY <2>1, <2>2
<1>2. ASSUME NEW n \in Nat, req' = [req EXCEPT ![r].msg = n, ![r].stage = "emit"]
      PROVE  \E q \in Request : req' = [req EXCEPT ![r] = q] /\ Kept(q)
  <2>1. Kept([req[r] EXCEPT !.msg = n, !.stage = "emit"])
    BY <1>0 DEF Request, Stage
  <2> QED
    BY <1>2, <2>1
<1>3. ASSUME NEW n \in Nat, req' = [req EXCEPT ![r].found = n, ![r].stage = "write"]
      PROVE  \E q \in Request : req' = [req EXCEPT ![r] = q] /\ Kept(q)
  <2>1. Kept([req[r] EXCEPT !.found = n, !.stage = "write"])
    BY <1>0 DEF Request, Stage
  <2> QED
    BY <1>3, <2>1
<1>4. ASSUME NEW n \in Nat, req' = [req EXCEPT ![r].count = n, ![r].stage = "emit"]
      PROVE  \E q \in Request : req' = [req EXCEPT ![r] = q] /\ Kept(q)
  <2>1. Kept([req[r] EXCEPT !.count = n, !.stage = "emit"])
    BY <1>0 DEF Request, Stage
  <2> QED
    BY <1>4, <2>1
<1>5. Guard(r) \/ CountBurst(r) \/ ExpireBurst(r) \/ UpdateMessage(r) \/ WriteReaction(r)
        => Finish(r) \/ \E s \in Stage : Goto(r, s)
  BY DEF Guard, CountBurst, ExpireBurst, UpdateMessage, WriteReaction, Stage
<1>6. AnnounceMessage(r) \/ AnnounceChange(r) => Finish(r)
  BY DEF AnnounceMessage, AnnounceChange
<1>7. WriteMessage(r)
        => Finish(r) \/ \E n \in Nat : req' = [req EXCEPT ![r].msg = n, ![r].stage = "emit"]
  <2>1. Len(rows) + 1 \in Nat
    BY DEF ChatTypes, TypeOK
  <2> QED
    BY <2>1 DEF WriteMessage
<1>8. Find(r) => \/ Finish(r) \/ \E s \in Stage : Goto(r, s)
                 \/ \E n \in Nat : req' = [req EXCEPT ![r].found = n, ![r].stage = "write"]
  <2>1. \A x \in reactions : x.id \in Nat
    BY DEF ChatTypes, TypeOK, Reaction
  <2> QED
    BY <2>1 DEF Find, By, On, Stage
<1>9. CountReactions(r) => \E n \in Nat : req' = [req EXCEPT ![r].count = n, ![r].stage = "emit"]
  BY CountType DEF ChatTypes, CountReactions
<1>10. CASE Finish(r)
  BY <1>0, <1>10 DEF Finish
<1> QED
  BY <1>1, <1>2, <1>3, <1>4, <1>5, <1>6, <1>7, <1>8, <1>9, <1>10 DEF Step

(* A patch keeps the id and the nonce of every item.                       *)
LEMMA PatchKeepsNames ==
    ASSUME NamesInv, NEW f, NEW S, \A y \in S : \E x \in items : y = f[x],
           \A x \in items : f[x].id = x.id /\ f[x].nonce = x.nonce
    PROVE  /\ \A x \in S : x.nonce <= received /\ -received <= x.id
           /\ \A x, y \in S : x.id = y.id \/ (x.nonce = y.nonce /\ x.nonce # 0) => x = y
BY DEF NamesInv, Numbered, ShownOnce

LEMMA PatchedNames ==
    ASSUME TypeOK, NamesInv, NEW e \in Event, NEW S,
           \/ e.type = "edited" /\ S = OnEdited(e)
           \/ e.type = "deleted" /\ S = OnDeleted(e)
           \/ e.type = "pinned" /\ S = OnPinned(e)
           \/ e.type = "reaction" /\ S = OnReaction(e)
    PROVE  /\ \A x \in S : x.nonce <= received /\ -received <= x.id
           /\ \A x, y \in S : x.id = y.id \/ (x.nonce = y.nonce /\ x.nonce # 0) => x = y
<1>0. items \subseteq Item
  BY DEF TypeOK
<1>1. CASE e.type = "edited" /\ S = OnEdited(e)
  <2> DEFINE f == [x \in items |-> IF x.id = e.msg THEN [x EXCEPT !.text = e.text] ELSE x]
  <2>1. \A x \in items : f[x].id = x.id /\ f[x].nonce = x.nonce
    BY <1>0 DEF Item
  <2>2. \A y \in S : \E x \in items : y = f[x]
    BY <1>1 DEF OnEdited, PatchMessages
  <2> HIDE DEF f
  <2> QED
    BY <2>1, <2>2, PatchKeepsNames, Zenon
<1>2. CASE e.type = "deleted" /\ S = OnDeleted(e)
  <2> DEFINE f == [x \in items |-> IF x.id = e.msg
                                   THEN [x EXCEPT !.deleted = TRUE, !.text = 0] ELSE x]
  <2>1. \A x \in items : f[x].id = x.id /\ f[x].nonce = x.nonce
    BY <1>0 DEF Item
  <2>2. \A y \in S : \E x \in items : y = f[x]
    BY <1>2 DEF OnDeleted, PatchMessages
  <2> HIDE DEF f
  <2> QED
    BY <2>1, <2>2, PatchKeepsNames, Zenon
<1>3. CASE e.type = "pinned" /\ S = OnPinned(e)
  <2> DEFINE f == [x \in items |-> IF x.id = e.msg THEN [x EXCEPT !.pinned = e.pinned] ELSE x]
  <2>1. \A x \in items : f[x].id = x.id /\ f[x].nonce = x.nonce
    BY <1>0 DEF Item
  <2>2. \A y \in S : \E x \in items : y = f[x]
    BY <1>3 DEF OnPinned, PatchMessages
  <2> HIDE DEF f
  <2> QED
    BY <2>1, <2>2, PatchKeepsNames, Zenon
<1>4. CASE e.type = "reaction" /\ S = OnReaction(e)
  <2> DEFINE g(x) == [x EXCEPT !.count = e.count,
                               !.mine = e.count > 0 /\ (IF e.by = Viewer THEN e.added ELSE @)]
             f == [x \in items |-> IF x.id = e.msg THEN g(x) ELSE x]
  <2>1. \A x \in items : f[x].id = x.id /\ f[x].nonce = x.nonce
    BY <1>0 DEF Item
  <2>2. \A y \in S : \E x \in items : y = f[x]
    BY <1>4 DEF OnReaction, PatchMessages
  <2> HIDE DEF f
  <2> QED
    BY <2>1, <2>2, PatchKeepsNames, Zenon
<1> QED
  BY <1>1, <1>2, <1>3, <1>4

LEMMA NamesStep ==
    ASSUME ChatTypes, NamesInv, Next
    PROVE  NamesInv'
<1>0. /\ TypeOK /\ Numbered /\ ShownOnce /\ received \in Nat
      /\ req \in [Handlers -> Request] /\ \A r \in Handlers : req[r].no \in Nat
      /\ items \subseteq Item /\ page \subseteq Item /\ inbox \in Seq(Event)
      /\ Idle \in Request /\ Idle.no = 0
  BY IdleType DEF ChatTypes, NamesInv, TypeOK, Request, Idle
<1>a. \A x \in Item : x.id \in Int /\ x.nonce \in Nat
  BY DEF Item
<1>1. ASSUME NEW r \in Handlers, NEW p \in Profiles, Send(r, p) PROVE NamesInv'
  <2> DEFINE q == [Idle EXCEPT !.kind = "create", !.stage = "guard", !.who = p,
                               !.no = received + 1]
  <2>1. q.no = received + 1
    BY <1>0 DEF Request
  <2>2. req' = [req EXCEPT ![r] = q] /\ received' = received + 1 /\ UNCHANGED <<inbox, page>>
    BY <1>1 DEF Send, Arrive
  <2> HIDE DEF q
  <2>3. \A d \in Handlers : req'[d].no <= received'
    BY <1>0, <2>1, <2>2 DEF Numbered
  <2>4. items' = items \/ items' = items \cup {Optimistic(received + 1)}
    BY <1>1 DEF Send
  <2>5. Optimistic(received + 1).id = -(received + 1)
        /\ Optimistic(received + 1).nonce = received + 1
    BY DEF Optimistic
  <2>6. /\ \A x \in items' : x.nonce <= received' /\ -received' <= x.id
        /\ \A x, y \in items' : x.id = y.id \/ (x.nonce = y.nonce /\ x.nonce # 0) => x = y
    BY <1>0, <1>a, <2>2, <2>4, <2>5 DEF Numbered, ShownOnce
  <2>7. \A i \in 1 .. Len(inbox) :
           inbox[i].type = "created" => inbox[i].item.nonce <= received + 1 /\ 0 <= inbox[i].item.id
    <3>1. \A i \in 1 .. Len(inbox) : inbox[i].type = "created" => inbox[i].item \in Item
      BY <1>0 DEF Event
    <3> QED
      BY <1>0, <1>a, <3>1 DEF Numbered
  <2> QED
    BY <1>0, <2>2, <2>3, <2>6, <2>7 DEF NamesInv, Numbered, ShownOnce
<1>2. ASSUME NEW r \in Handlers, NEW kind \in {"edit", "delete", "react", "pin"},
             NEW p \in Profiles, NEW m \in DOMAIN rows, NEW pinned \in BOOLEAN,
             Ask(r, kind, p, m, pinned)
      PROVE  NamesInv'
  <2> DEFINE stage == IF kind = "react" THEN "guard" ELSE "find"
             q == [Idle EXCEPT !.kind = kind, !.who = p, !.msg = m, !.no = received + 1,
                               !.pinned = pinned, !.stage = stage]
  <2>1. q.no = received + 1
    BY <1>0 DEF Request
  <2>2. req' = [req EXCEPT ![r] = q] /\ received' = received + 1 /\ UNCHANGED <<inbox, page, items>>
    BY <1>2 DEF Ask, Arrive
  <2> HIDE DEF q
  <2>3. \A d \in Handlers : req'[d].no <= received'
    BY <1>0, <2>1, <2>2 DEF Numbered
  <2>4. \A i \in 1 .. Len(inbox) :
           inbox[i].type = "created" => inbox[i].item.nonce <= received + 1 /\ 0 <= inbox[i].item.id
    <3>1. \A i \in 1 .. Len(inbox) : inbox[i].type = "created" => inbox[i].item \in Item
      BY <1>0 DEF Event
    <3> QED
      BY <1>0, <1>a, <3>1 DEF Numbered
  <2>5. \A x \in items : x.nonce <= received + 1 /\ -(received + 1) <= x.id
    BY <1>0, <1>a DEF Numbered
  <2> QED
    BY <1>0, <2>2, <2>3, <2>4, <2>5 DEF NamesInv, Numbered, ShownOnce
<1>3. ASSUME NEW r \in Handlers, Step(r) PROVE NamesInv'
  <2>1. \A d \in Handlers : req'[d].no <= received
    <3>1. PICK q \in Request : req' = [req EXCEPT ![r] = q] /\ (q = Idle \/ q.no = req[r].no)
      BY <1>3, StepKeepsNumber
    <3> QED
      BY <1>0, <3>1 DEF Numbered
  <2>2. UNCHANGED <<items, page, received>>
    BY <1>3 DEF Step, Guard, CountBurst, ExpireBurst, WriteMessage, AnnounceMessage, Find,
                UpdateMessage, WriteReaction, CountReactions, AnnounceChange, client
  <2>3. \/ UNCHANGED inbox
        \/ AnnounceMessage(r) /\ Broadcast([type |-> "created", item |-> Created(r)])
        \/ \E e \in Event : e.type # "created" /\ Broadcast(e)
    <3>1. CASE AnnounceChange(r)
      <4>1. req[r].msg \in Nat /\ req[r].no \in Nat /\ req[r].pinned \in BOOLEAN
            /\ req[r].count \in Nat /\ req[r].who \in Profiles
        BY <1>0 DEF Request
      <4> QED
        BY <3>1, <4>1 DEF AnnounceChange, Event
    <3> QED
      BY <1>3, <3>1 DEF Step, Guard, CountBurst, ExpireBurst, WriteMessage, AnnounceMessage,
                        Find, UpdateMessage, WriteReaction, CountReactions
  <2>4. \A i \in 1 .. Len(inbox') :
           inbox'[i].type = "created" => inbox'[i].item.nonce <= received /\ 0 <= inbox'[i].item.id
    <3>1. CASE UNCHANGED inbox
      BY <1>0, <3>1 DEF Numbered
    <3>2. ASSUME NEW e \in Event, Broadcast(e),
                 e.type = "created" => e.item.nonce <= received /\ 0 <= e.item.id
          PROVE  \A i \in 1 .. Len(inbox') :
                    inbox'[i].type = "created" =>
                        inbox'[i].item.nonce <= received /\ 0 <= inbox'[i].item.id
      <4>1. CASE inbox' = inbox
        BY <1>0, <4>1 DEF Numbered
      <4>2. CASE inbox' = Append(inbox, e)
        <5>1. Len(inbox') = Len(inbox) + 1 /\ inbox'[Len(inbox) + 1] = e
              /\ \A i \in 1 .. Len(inbox) : inbox'[i] = inbox[i]
          BY <1>0, <4>2, AppendProperties
        <5>2. Len(inbox) \in Nat
          BY <1>0
        <5> QED
          BY <1>0, <3>2, <5>1, <5>2 DEF Numbered
      <4> QED
        BY <3>2, <4>1, <4>2 DEF Broadcast
    <3>3. CASE AnnounceMessage(r) /\ Broadcast([type |-> "created", item |-> Created(r)])
      <4> DEFINE e == [type |-> "created", item |-> Created(r)]
      <4>1. e \in Event /\ e.item.nonce <= received /\ 0 <= e.item.id
        BY <1>0 DEF Created, Event, Item, Request, Numbered
      <4> HIDE DEF e
      <4> QED
        BY <3>2, <3>3, <4>1 DEF e
    <3> QED
      BY <2>3, <3>1, <3>2, <3>3
  <2> QED
    BY <1>0, <2>1, <2>2, <2>4 DEF NamesInv, Numbered, ShownOnce
<1>4. ASSUME UNCHANGED <<req, received, inbox, items, page>> PROVE NamesInv'
  BY <1>0, <1>4 DEF NamesInv, Numbered, ShownOnce
<1>5. CASE Fail
  <2>1. \A d \in Handlers : req'[d].no <= received
    BY <1>0, <1>5 DEF Fail, Finish, Numbered
  <2> QED
    BY <1>0, <1>5, <2>1 DEF Fail, client, NamesInv, Numbered, ShownOnce
<1>6. CASE LoadHistory
  <2>1. \A m \in DOMAIN rows : ToView(m, 0).id = m /\ ToView(m, 0).nonce = 0
    BY DEF ToView
  <2>2. DOMAIN rows = 1 .. Len(rows) /\ Len(rows) \in Nat
    BY <1>0 DEF TypeOK
  <2>3. /\ \A x \in page' : x.nonce = 0 /\ 1 <= x.id
        /\ \A x, y \in page' : x.id = y.id => x = y
    BY <1>6, <2>1, <2>2 DEF LoadHistory
  <2> QED
    BY <1>0, <1>6, <2>3 DEF LoadHistory, NamesInv, Numbered, ShownOnce
<1>7. CASE ReceiveHistory
  BY <1>0, <1>a, <1>7 DEF ReceiveHistory, NamesInv, Numbered, ShownOnce
<1>8. CASE Drop \/ Reload
  <2>1. Len(inbox') = 0
    BY <1>8, EmptySeq DEF Drop, Reload
  <2> QED
    BY <1>0, <1>8, <2>1 DEF Drop, Reload, NamesInv, Numbered, ShownOnce
<1>9. CASE Deliver
  <2> DEFINE e == Head(inbox)
  <2>1. /\ e \in Event /\ e = inbox[1] /\ Len(inbox) \in Nat /\ Len(inbox) > 0
        /\ Len(inbox') = Len(inbox) - 1
        /\ \A i \in 1 .. Len(inbox') : inbox'[i] = inbox[i + 1]
    BY <1>0, <1>9, HeadTailProperties, EmptySeq DEF Deliver
  <2>2. \A i \in 1 .. Len(inbox') :
           inbox'[i].type = "created" => inbox'[i].item.nonce <= received /\ 0 <= inbox'[i].item.id
    BY <1>0, <2>1 DEF Numbered
  <2>3. UNCHANGED <<req, received, page>>
    BY <1>9 DEF Deliver
  <2>4. /\ \A x \in items' : x.nonce <= received /\ -received <= x.id
        /\ \A x, y \in items' : x.id = y.id \/ (x.nonce = y.nonce /\ x.nonce # 0) => x = y
    <3>1. CASE items' = items
      BY <1>0, <3>1 DEF Numbered, ShownOnce
    <3>2. CASE e.type = "created" /\ items' = PrependMessage(e.item)
      <4>1. e.item \in Item /\ e.item.nonce <= received /\ 0 <= e.item.id
        BY <1>0, <2>1, <3>2 DEF Event, Numbered
      <4> HIDE DEF e
      <4> QED
        BY <1>0, <1>a, <3>2, <4>1 DEF PrependMessage, Numbered, ShownOnce
    <3>3. CASE \/ e.type = "edited" /\ items' = OnEdited(e)
               \/ e.type = "deleted" /\ items' = OnDeleted(e)
               \/ e.type = "pinned" /\ items' = OnPinned(e)
               \/ e.type = "reaction" /\ items' = OnReaction(e)
      <4> HIDE DEF e
      <4> QED
        BY <1>0, <2>1, <3>3, PatchedNames DEF NamesInv
    <3> QED
      BY <1>9, <3>1, <3>2, <3>3 DEF Deliver
  <2> QED
    BY <1>0, <2>2, <2>3, <2>4 DEF NamesInv, Numbered, ShownOnce
<1>10. (\E p \in Profiles : BurstEnds(p)) \/ (\E w \in Flushers : TakeCount(w) \/ StoreCount(w))
         \/ Subscribe => UNCHANGED <<req, received, inbox, items, page>>
  BY DEF BurstEnds, TakeCount, StoreCount, Subscribe, client
<1> QED
  BY <1>1, <1>2, <1>3, <1>4, <1>5, <1>6, <1>7, <1>8, <1>9, <1>10 DEF Next, Page

(* The reader never sees one message twice, whatever order history, echo   *)
(* and reload come in, and however many messages are on their way.         *)
THEOREM MessageShownOnce == Spec => []ShownOnce
<1>1. Init => ChatTypes /\ NamesInv
  <2>1. Init => Len(inbox) = 0
    BY EmptySeq DEF Init
  <2> QED
    BY <2>1, InitTypes DEF Init, NamesInv, Numbered, ShownOnce, Idle
<1>2. ChatTypes /\ NamesInv /\ [Next]_vars => (ChatTypes /\ NamesInv)'
  <2>1. ChatTypes /\ NamesInv /\ UNCHANGED vars => (ChatTypes /\ NamesInv)'
    BY DEF ChatTypes, TypeOK, NamesInv, Numbered, ShownOnce, vars, server, worker, client, At, Is
  <2> QED
    BY <2>1, StepTypes, NamesStep
<1>3. NamesInv => ShownOnce
  BY DEF NamesInv
<1> QED
  BY <1>1, <1>2, <1>3, PTL DEF Spec

-----------------------------------------------------------------------------
(* The counter.                                                            *)

(* What flushes carry when flush w carries f[w].                           *)
CarriedBy(f) == UNION {{w} \X (1 .. f[w]) : w \in Flushers}

LEMMA CarriedFinite ==
    ASSUME NEW f \in [Flushers -> Nat]
    PROVE  IsFiniteSet(CarriedBy(f)) /\ Cardinality(CarriedBy(f)) \in Nat
<1> DEFINE Parts == {{w} \X (1 .. f[w]) : w \in Flushers}
           part == [w \in Flushers |-> {w} \X (1 .. f[w])]
<1>1. part \in Surjection(Flushers, Parts)
  BY DEF Surjection
<1>2. \A T \in Parts : IsFiniteSet(T)
  <2>1. ASSUME NEW w \in Flushers PROVE IsFiniteSet({w} \X (1 .. f[w]))
    <3>1. f[w] \in Int /\ 1 \in Int
      OBVIOUS
    <3>2. IsFiniteSet(1 .. f[w]) /\ IsFiniteSet({w})
      BY <3>1, FS_Interval, FS_Singleton
    <3> QED
      BY <3>2, FS_Product
  <2> QED
    BY <2>1
<1> HIDE DEF Parts, part
<1>3. IsFiniteSet(Parts)
  BY <1>1, HandlersAssumption, FS_Surjection
<1>4. IsFiniteSet(UNION Parts)
  BY <1>2, <1>3, FS_UNION
<1> QED
  BY <1>4, FS_CardinalityType DEF CarriedBy, Parts

(* A flush that carries nothing and takes n carries n more.                *)
LEMMA CarriesMore ==
    ASSUME NEW f \in [Flushers -> Nat], NEW w \in Flushers, NEW n \in Nat, f[w] = 0
    PROVE  Cardinality(CarriedBy([f EXCEPT ![w] = n])) = Cardinality(CarriedBy(f)) + n
<1> DEFINE A == CarriedBy(f)
           B == {w} \X (1 .. n)
           g == [f EXCEPT ![w] = n]
<1>1. CarriedBy(g) = A \cup B
  <2>1. ASSUME NEW x \in CarriedBy(g) PROVE x \in A \cup B
    <3>1. PICK v \in Flushers : x \in {v} \X (1 .. g[v])
      BY <2>1 DEF CarriedBy
    <3>2. CASE v = w
      BY <3>1, <3>2
    <3>3. CASE v # w
      BY <3>1, <3>3 DEF CarriedBy
    <3> QED
      BY <3>2, <3>3
  <2>2. ASSUME NEW x \in A PROVE x \in CarriedBy(g)
    <3>1. PICK v \in Flushers : x \in {v} \X (1 .. f[v])
      BY <2>2 DEF CarriedBy
    <3>2. v # w
      BY <3>1
    <3>3. g[v] = f[v]
      BY <3>2
    <3> QED
      BY <3>1, <3>3 DEF CarriedBy
  <2>3. ASSUME NEW x \in B PROVE x \in CarriedBy(g)
    <3>1. g[w] = n
      OBVIOUS
    <3> QED
      BY <2>3, <3>1 DEF CarriedBy
  <2> QED
    BY <2>1, <2>2, <2>3
<1>2. A \cap B = {}
  <2> SUFFICES ASSUME NEW x \in A, x \in B PROVE FALSE
    OBVIOUS
  <2>1. PICK v \in Flushers : x \in {v} \X (1 .. f[v])
    BY DEF CarriedBy
  <2>2. v = w
    BY <2>1
  <2> QED
    BY <2>1, <2>2
<1>3. IsFiniteSet(A) /\ Cardinality(A) \in Nat
  BY CarriedFinite
<1>4. IsFiniteSet(B) /\ Cardinality(B) = n
  <2>1. n \in Int /\ 1 \in Int
    OBVIOUS
  <2>2. IsFiniteSet(1 .. n) /\ Cardinality(1 .. n) = n /\ IsFiniteSet({w}) /\ Cardinality({w}) = 1
    <3>1. IsFiniteSet(1 .. n) /\ Cardinality(1 .. n) = IF 1 > n THEN 0 ELSE n - 1 + 1
      BY <2>1, FS_Interval
    <3>2. Cardinality(1 .. n) = n
      BY <3>1
    <3> QED
      BY <3>1, <3>2, FS_Singleton
  <2>3. IsFiniteSet(B) /\ Cardinality(B) = Cardinality({w}) * Cardinality(1 .. n)
    BY <2>2, FS_Product
  <2> QED
    BY <2>2, <2>3
<1> HIDE DEF A, B, g
<1>5. Cardinality(CarriedBy(g)) = Cardinality(A) + n
  <2>1. Cardinality(A \cup B) = Cardinality(A) + Cardinality(B) - Cardinality(A \cap B)
    BY <1>3, <1>4, FS_Union
  <2>2. Cardinality(A \cap B) = 0
    BY <1>2, FS_EmptySet
  <2> QED
    BY <1>1, <1>3, <1>4, <2>1, <2>2
<1> QED
  BY <1>5 DEF A, g

(* Created rows whose handler has not yet counted them.                    *)
Emitting == {r \in Handlers : At(r, "emit") /\ Is(r, "create")}

(* Every row is counted in one place, or was lost with a handler or a      *)
(* flush that died: on the prompt, in the counter, with a flush, or with   *)
(* the handler that is about to count it.                                  *)
CountedInv ==
    /\ messageCount + Uncounted + Cardinality(Emitting) <= Len(rows)
    /\ failures = 0 => messageCount + Uncounted + Cardinality(Emitting) = Len(rows)

LEMMA EmittingFinite ==
    /\ IsFiniteSet(Emitting) /\ Cardinality(Emitting) \in Nat
    /\ IsFiniteSet(Emitting') /\ Cardinality(Emitting') \in Nat
<1>1. Emitting \in SUBSET Handlers /\ Emitting' \in SUBSET Handlers
  BY DEF Emitting
<1> QED
  BY <1>1, HandlersAssumption, FS_Subset, FS_CardinalityType

(* Patching a row leaves as many as there were.                            *)
LEMMA UpdateKeepsLength ==
    ASSUME ChatTypes, ChatTypes', NEW r \in Handlers, UpdateMessage(r)
    PROVE  Len(rows') = Len(rows)
<1>1. rows \in Seq(Row) /\ rows' \in Seq(Row)
  BY DEF ChatTypes, TypeOK
<1>2. DOMAIN rows = 1 .. Len(rows) /\ DOMAIN rows' = 1 .. Len(rows')
      /\ Len(rows) \in Nat /\ Len(rows') \in Nat
  BY <1>1, LenProperties
<1>3. DOMAIN rows' = DOMAIN rows
  BY <1>1 DEF UpdateMessage
<1>4. \A a, b \in Nat : 1 .. a = 1 .. b => a = b
  <2> SUFFICES ASSUME NEW a \in Nat, NEW b \in Nat, 1 .. a = 1 .. b
               PROVE  a <= b /\ b <= a
    OBVIOUS
  <2>1. a = 0 \/ a \in 1 .. b
    OBVIOUS
  <2>2. b = 0 \/ b \in 1 .. a
    OBVIOUS
  <2> QED
    BY <2>1, <2>2
<1> QED
  BY <1>2, <1>3, <1>4

(* Only writing and counting a message change who is about to count one.   *)
LEMMA StepEmitting ==
    ASSUME ChatTypes, ChatTypes', NEW r \in Handlers, Step(r)
    PROVE  \/ /\ Len(rows') = Len(rows) + 1 /\ UNCHANGED pending
              /\ r \notin Emitting /\ Emitting' = Emitting \cup {r}
           \/ /\ Len(rows') = Len(rows) /\ pending' = pending + 1
              /\ r \in Emitting /\ Emitting' = Emitting \ {r}
           \/ /\ Len(rows') = Len(rows) /\ UNCHANGED pending /\ Emitting' = Emitting
<1>0. rows \in Seq(Row) /\ req \in [Handlers -> Request] /\ req[r] \in Request
  BY DEF ChatTypes, TypeOK
<1>1. ASSUME ~At(r, "emit"), NEW q, req' = [req EXCEPT ![r] = q],
             q.stage # "emit" \/ q.kind # "create"
      PROVE  Emitting' = Emitting
  BY <1>0, <1>1 DEF Emitting, At, Is
<1>2. ASSUME ~At(r, "emit"), Goto(r, "burst") \/ Goto(r, "expire") \/ Goto(r, "find")
                             \/ Goto(r, "write") \/ Goto(r, "count") \/ Finish(r)
      PROVE  Emitting' = Emitting
  <2>1. ASSUME NEW s \in {"burst", "expire", "find", "write", "count"}, Goto(r, s)
        PROVE  Emitting' = Emitting
    <3>1. [req[r] EXCEPT !.stage = s].stage = s
      BY <1>0 DEF Request
    <3> QED
      BY <1>1, <1>2, <2>1, <3>1 DEF Goto
  <2>2. CASE Finish(r)
    BY <1>1, <1>2, <2>2 DEF Finish, Idle
  <2> QED
    BY <1>2, <2>1, <2>2
<1>3. CASE Guard(r) \/ CountBurst(r) \/ ExpireBurst(r) \/ WriteReaction(r)
  <2>1. UNCHANGED <<rows, pending>> /\ ~At(r, "emit")
    BY <1>3 DEF Guard, CountBurst, ExpireBurst, WriteReaction, At, server
  <2>2. Goto(r, "burst") \/ Goto(r, "expire") \/ Goto(r, "find")
        \/ Goto(r, "write") \/ Goto(r, "count") \/ Finish(r)
    BY <1>3 DEF Guard, CountBurst, ExpireBurst, WriteReaction
  <2> QED
    BY <1>2, <2>1, <2>2
<1>4. CASE Find(r)
  <2>1. UNCHANGED <<rows, pending>> /\ ~At(r, "emit")
    BY <1>4 DEF Find, At, server
  <2>2. \/ Goto(r, "write") \/ Finish(r)
        \/ \E x \in reactions : req' = [req EXCEPT ![r].found = x.id, ![r].stage = "write"]
    BY <1>4 DEF Find, By, On
  <2>3. ASSUME NEW x \in reactions, req' = [req EXCEPT ![r].found = x.id, ![r].stage = "write"]
        PROVE  Emitting' = Emitting
    <3>1. [req[r] EXCEPT !.found = x.id, !.stage = "write"].stage = "write"
      BY <1>0 DEF Request
    <3> QED
      BY <1>1, <2>1, <2>3, <3>1
  <2> QED
    BY <1>2, <2>1, <2>2, <2>3
<1>5. CASE WriteMessage(r)
  <2>1. UNCHANGED pending /\ ~At(r, "emit") /\ Is(r, "create")
    BY <1>5 DEF WriteMessage, At
  <2>2. CASE Finish(r) /\ UNCHANGED rows
    BY <1>2, <2>1, <2>2
  <2>3. CASE /\ rows' = Append(rows, [author |-> req[r].who, text |-> req[r].no,
                                      deleted |-> FALSE, pinned |-> FALSE])
             /\ req' = [req EXCEPT ![r].msg = Len(rows) + 1, ![r].stage = "emit"]
    <3> DEFINE row == [author |-> req[r].who, text |-> req[r].no,
                       deleted |-> FALSE, pinned |-> FALSE]
               q == [req[r] EXCEPT !.msg = Len(rows) + 1, !.stage = "emit"]
    <3>1. row \in Row
      BY <1>0 DEF Row, Request
    <3>2. Len(rows') = Len(rows) + 1
      BY <1>0, <2>3, <3>1, AppendProperties
    <3>3. q.stage = "emit" /\ q.kind = "create"
      BY <1>0, <2>1 DEF Request, Is
    <3>4. req' = [req EXCEPT ![r] = q]
      BY <2>3
    <3> HIDE DEF q
    <3>5. r \notin Emitting /\ Emitting' = Emitting \cup {r}
      BY <1>0, <2>1, <3>3, <3>4 DEF Emitting, At, Is
    <3> QED
      BY <2>1, <3>2, <3>5
  <2> QED
    BY <1>5, <2>2, <2>3 DEF WriteMessage
<1>6. CASE AnnounceMessage(r)
  <2>1. r \in Emitting /\ Emitting' = Emitting \ {r}
    BY <1>0, <1>6 DEF AnnounceMessage, Finish, Emitting, At, Is, Idle
  <2> QED
    BY <1>6, <2>1 DEF AnnounceMessage
<1>7. CASE UpdateMessage(r)
  <2>1. Len(rows') = Len(rows)
    BY <1>7, UpdateKeepsLength
  <2>2. req[r].kind # "create" /\ ~At(r, "emit")
    BY <1>7 DEF UpdateMessage, Is, At
  <2>3. req' = [req EXCEPT ![r] = [req[r] EXCEPT !.stage = "emit"]]
        /\ [req[r] EXCEPT !.stage = "emit"].kind = req[r].kind
    BY <1>0, <1>7 DEF UpdateMessage, Goto, Request
  <2>4. Emitting' = Emitting
    BY <1>1, <2>2, <2>3
  <2> QED
    BY <1>7, <2>1, <2>4 DEF UpdateMessage
<1>8. CASE CountReactions(r)
  <2> DEFINE q == [req[r] EXCEPT !.count = Cardinality(On(req[r].msg)), !.stage = "emit"]
  <2>1. req[r].kind = "react" /\ ~At(r, "emit")
    BY <1>8 DEF CountReactions, ChatTypes, Is, At
  <2>2. q.kind = req[r].kind
    BY <1>0 DEF Request
  <2>3. req' = [req EXCEPT ![r] = q]
    BY <1>8 DEF CountReactions
  <2> HIDE DEF q
  <2>4. Emitting' = Emitting
    BY <1>1, <2>1, <2>2, <2>3
  <2> QED
    BY <1>8, <2>4 DEF CountReactions, server
<1>9. CASE AnnounceChange(r)
  <2>1. ~Is(r, "create") /\ Finish(r) /\ UNCHANGED <<rows, pending>>
    BY <1>9 DEF AnnounceChange, Is, server
  <2>2. Emitting' = Emitting
    BY <1>0, <2>1 DEF Finish, Emitting, At, Is, Idle
  <2> QED
    BY <2>1, <2>2
<1> QED
  BY <1>3, <1>4, <1>5, <1>6, <1>7, <1>8, <1>9 DEF Step

LEMMA CountedStep ==
    ASSUME ChatTypes, ChatTypes', CountedInv, Next
    PROVE  CountedInv'
<1>0. /\ req \in [Handlers -> Request] /\ carried \in [Flushers -> Nat]
      /\ pending \in Nat /\ messageCount \in Nat /\ failures \in Nat /\ Len(rows) \in Nat
  BY DEF ChatTypes, TypeOK
<1>1. /\ Cardinality(Emitting) \in Nat /\ IsFiniteSet(Emitting)
      /\ Cardinality(Carried) \in Nat /\ Carried = CarriedBy(carried)
  BY <1>0, EmittingFinite, CarriedFinite DEF Carried, CarriedBy
<1>2. ASSUME UNCHANGED <<rows, pending, messageCount, carried, failures>>, Emitting' = Emitting
      PROVE  CountedInv'
  BY <1>0, <1>1, <1>2 DEF CountedInv, Uncounted, Carried
<1>3. ASSUME NEW r \in Handlers, At(r, "idle"),
             NEW q, req' = [req EXCEPT ![r] = q], q.stage \in {"guard", "find"}
      PROVE  Emitting' = Emitting
  BY <1>0, <1>3 DEF Emitting, At, Is
<1>4. ASSUME NEW r \in Handlers, NEW p \in Profiles, Send(r, p) PROVE CountedInv'
  <2> DEFINE q == [Idle EXCEPT !.kind = "create", !.stage = "guard", !.who = p,
                               !.no = received + 1]
  <2>1. q.stage = "guard"
    BY IdleType DEF Request
  <2>2. At(r, "idle") /\ req' = [req EXCEPT ![r] = q]
    BY <1>4 DEF Send, Arrive
  <2> HIDE DEF q
  <2>3. Emitting' = Emitting
    BY <1>3, <2>1, <2>2
  <2> QED
    BY <1>2, <1>4, <2>3 DEF Send, Arrive, server, worker
<1>5. ASSUME NEW r \in Handlers, NEW kind \in {"edit", "delete", "react", "pin"},
             NEW p \in Profiles, NEW m \in DOMAIN rows, NEW pinned \in BOOLEAN,
             Ask(r, kind, p, m, pinned)
      PROVE  CountedInv'
  <2> DEFINE stage == IF kind = "react" THEN "guard" ELSE "find"
             q == [Idle EXCEPT !.kind = kind, !.who = p, !.msg = m, !.no = received + 1,
                               !.pinned = pinned, !.stage = stage]
  <2>1. q.stage \in {"guard", "find"}
    BY IdleType DEF Request
  <2>2. At(r, "idle") /\ req' = [req EXCEPT ![r] = q]
    BY <1>5 DEF Ask, Arrive
  <2> HIDE DEF q
  <2>3. Emitting' = Emitting
    BY <1>3, <2>1, <2>2
  <2> QED
    BY <1>2, <1>5, <2>3 DEF Ask, Arrive, server, worker
<1>6. ASSUME NEW r \in Handlers, Step(r) PROVE CountedInv'
  <2>1. UNCHANGED <<messageCount, carried, failures>>
    BY <1>6 DEF Step, Guard, CountBurst, ExpireBurst, WriteMessage, AnnounceMessage, Find,
                UpdateMessage, WriteReaction, CountReactions, AnnounceChange, worker
  <2>2. CASE /\ Len(rows') = Len(rows) + 1 /\ UNCHANGED pending
             /\ r \notin Emitting /\ Emitting' = Emitting \cup {r}
    <3>1. Cardinality(Emitting') = Cardinality(Emitting) + 1
      BY <1>1, <2>2, FS_AddElement
    <3>2. Cardinality(Carried') = Cardinality(Carried)
      BY <2>1 DEF Carried
    <3> QED
      BY <1>0, <1>1, <2>1, <2>2, <3>1, <3>2 DEF CountedInv, Uncounted
  <2>3. CASE /\ Len(rows') = Len(rows) /\ pending' = pending + 1
             /\ r \in Emitting /\ Emitting' = Emitting \ {r}
    <3>1. Cardinality(Emitting') = Cardinality(Emitting) - 1
      BY <1>1, <2>3, FS_RemoveElement
    <3>2. Cardinality(Carried') = Cardinality(Carried)
      BY <2>1 DEF Carried
    <3> QED
      BY <1>0, <1>1, <2>1, <2>3, <3>1, <3>2 DEF CountedInv, Uncounted
  <2>4. CASE Len(rows') = Len(rows) /\ UNCHANGED pending /\ Emitting' = Emitting
    BY <1>0, <1>1, <2>1, <2>4 DEF CountedInv, Uncounted, Carried
  <2> QED
    BY <1>6, <2>2, <2>3, <2>4, StepEmitting
<1>7. ASSUME NEW w \in Flushers, TakeCount(w) PROVE CountedInv'
  <2>1. Cardinality(Carried') = Cardinality(Carried) + pending
    <3>1. Carried' = CarriedBy([carried EXCEPT ![w] = pending])
      BY <1>7 DEF TakeCount, Carried, CarriedBy
    <3> QED
      BY <1>0, <1>1, <1>7, <3>1, CarriesMore DEF TakeCount
  <2>2. Emitting' = Emitting
    BY <1>7 DEF TakeCount, Emitting, At, Is
  <2>3. UNCHANGED <<rows, messageCount, failures>> /\ pending' = 0
    BY <1>7 DEF TakeCount
  <2> QED
    BY <1>0, <1>1, <2>1, <2>2, <2>3 DEF CountedInv, Uncounted
<1>8. ASSUME NEW w \in Flushers, carried' = [carried EXCEPT ![w] = 0]
      PROVE  Cardinality(Carried') + carried[w] = Cardinality(Carried)
             /\ Cardinality(Carried') \in Nat
  <2>1. carried' \in [Flushers -> Nat] /\ carried'[w] = 0 /\ carried[w] \in Nat
    BY <1>0, <1>8
  <2>2. carried = [carried' EXCEPT ![w] = carried[w]]
    BY <1>0, <1>8
  <2>3. Carried' = CarriedBy(carried')
    BY DEF Carried, CarriedBy
  <2>4. Cardinality(CarriedBy(carried)) = Cardinality(CarriedBy(carried')) + carried[w]
    <3>1. \A f \in [Flushers -> Nat] : f[w] = 0 =>
             Cardinality(CarriedBy([f EXCEPT ![w] = carried[w]]))
                = Cardinality(CarriedBy(f)) + carried[w]
      BY <2>1, CarriesMore
    <3>2. Cardinality(CarriedBy([carried' EXCEPT ![w] = carried[w]]))
             = Cardinality(CarriedBy(carried')) + carried[w]
      BY <2>1, <3>1
    <3> QED
      BY <2>2, <3>2
  <2>5. Cardinality(CarriedBy(carried')) \in Nat
    BY <2>1, CarriedFinite
  <2> QED
    BY <1>1, <2>3, <2>4, <2>5
<1>9. ASSUME NEW w \in Flushers, StoreCount(w) PROVE CountedInv'
  <2>1. Cardinality(Carried') + carried[w] = Cardinality(Carried)
        /\ Cardinality(Carried') \in Nat /\ carried[w] \in Nat
    BY <1>0, <1>8, <1>9 DEF StoreCount
  <2>2. Emitting' = Emitting
    BY <1>9 DEF StoreCount, Emitting, At, Is
  <2>3. UNCHANGED <<rows, pending, failures>> /\ messageCount' = messageCount + carried[w]
    BY <1>9 DEF StoreCount, server
  <2> QED
    BY <1>0, <1>1, <2>1, <2>2, <2>3 DEF CountedInv, Uncounted
<1>10. CASE Fail
  <2>1. UNCHANGED <<rows, pending, messageCount>> /\ failures' = failures + 1
    BY <1>10 DEF Fail, server
  <2>2. Cardinality(Emitting') <= Cardinality(Emitting) /\ Cardinality(Emitting') \in Nat
    <3>1. Emitting' \in SUBSET Emitting
      BY <1>0, <1>10 DEF Fail, Finish, Emitting, At, Is, Idle
    <3> QED
      BY <1>1, <3>1, FS_Subset, EmittingFinite
  <2>3. Cardinality(Carried') <= Cardinality(Carried) /\ Cardinality(Carried') \in Nat
    <3>1. CASE UNCHANGED carried
      BY <1>1, <3>1 DEF Carried
    <3>2. ASSUME NEW w \in Flushers, carried' = [carried EXCEPT ![w] = 0]
          PROVE  Cardinality(Carried') <= Cardinality(Carried) /\ Cardinality(Carried') \in Nat
      <4>1. carried[w] \in Nat
        BY <1>0
      <4>2. Cardinality(Carried') + carried[w] = Cardinality(Carried)
            /\ Cardinality(Carried') \in Nat
        BY <1>8, <3>2
      <4> QED
        BY <1>1, <4>1, <4>2
    <3> QED
      BY <1>10, <3>1, <3>2 DEF Fail
  <2> QED
    BY <1>0, <1>1, <2>1, <2>2, <2>3 DEF CountedInv, Uncounted
<1>11. CASE (\E p \in Profiles : BurstEnds(p)) \/ Page \/ Drop \/ Reload
  <2>1. UNCHANGED <<rows, pending, messageCount, carried, failures, req>>
    BY <1>11 DEF BurstEnds, Page, Subscribe, LoadHistory, ReceiveHistory, Deliver, Drop, Reload,
                 server, worker
  <2>2. Emitting' = Emitting
    BY <2>1 DEF Emitting, At, Is
  <2> QED
    BY <1>2, <2>1, <2>2
<1> QED
  BY <1>4, <1>5, <1>6, <1>7, <1>9, <1>10, <1>11 DEF Next

(* No message is counted twice, and without failures none is lost, for any *)
(* handlers and flushes at once.                                           *)
THEOREM MessagesAreCounted == Spec => []MessagesCounted
<1>1. Init => ChatTypes /\ CountedInv
  <2> SUFFICES ASSUME Init PROVE CountedInv
    BY InitTypes
  <2>1. Emitting = {}
    BY DEF Init, Emitting, At, Idle
  <2>2. Carried = {}
    <3>1. \A w \in Flushers : 1 .. carried[w] = {}
      BY DEF Init
    <3> QED
      BY <3>1 DEF Carried
  <2>3. Len(rows) = 0 /\ pending = 0 /\ messageCount = 0
    BY EmptySeq DEF Init
  <2> QED
    BY <2>1, <2>2, <2>3, FS_EmptySet DEF CountedInv, Uncounted
<1>2. ChatTypes /\ CountedInv /\ [Next]_vars => (ChatTypes /\ CountedInv)'
  <2>1. ChatTypes /\ CountedInv /\ UNCHANGED vars => (ChatTypes /\ CountedInv)'
    BY DEF ChatTypes, TypeOK, CountedInv, Uncounted, Carried, Emitting, vars, server, worker,
           client, At, Is
  <2> QED
    BY <2>1, StepTypes, CountedStep
<1>3. ChatTypes /\ CountedInv => MessagesCounted
  <2> SUFFICES ASSUME ChatTypes, CountedInv PROVE MessagesCounted
    OBVIOUS
  <2>1. /\ messageCount \in Nat /\ pending \in Nat /\ Len(rows) \in Nat
        /\ Cardinality(Carried) \in Nat /\ Cardinality(Emitting) \in Nat
    <3>1. Carried = CarriedBy(carried) /\ carried \in [Flushers -> Nat]
      BY DEF ChatTypes, TypeOK, Carried, CarriedBy
    <3>2. Cardinality(Carried) \in Nat
      BY <3>1, CarriedFinite
    <3> QED
      BY <3>2, EmittingFinite DEF ChatTypes, TypeOK
  <2>2. AtRest => Cardinality(Emitting) = 0
    BY FS_EmptySet DEF AtRest, Emitting, At
  <2>3. Uncounted \in Nat
    BY <2>1 DEF Uncounted
  <2> QED
    BY <2>1, <2>2, <2>3 DEF CountedInv, MessagesCounted
<1> QED
  BY <1>1, <1>2, <1>3, PTL DEF Spec

-----------------------------------------------------------------------------
(* The burst limit.                                                        *)

(* A burst counter without an expiry has a handler about to set it.        *)
BurstInv ==
    failures = 0 =>
        \A p \in Profiles : bursts[p].count > 0 /\ ~bursts[p].expires =>
            \E r \in Handlers : At(r, "expire") /\ req[r].who = p

LEMMA BurstStep ==
    ASSUME ChatTypes, ChatTypes', BurstInv, Next
    PROVE  BurstInv'
<1>0. /\ req \in [Handlers -> Request] /\ failures \in Nat
      /\ bursts \in [Profiles -> [count : Nat, expires : BOOLEAN]]
  BY DEF ChatTypes, TypeOK
<1>1. ASSUME UNCHANGED <<bursts, failures>>, NEW r \in Handlers, ~At(r, "expire"),
             \A d \in Handlers : d # r => req'[d] = req[d]
      PROVE  BurstInv'
  BY <1>0, <1>1 DEF BurstInv, At
<1>2. ASSUME NEW r \in Handlers, NEW p \in Profiles, Send(r, p) PROVE BurstInv'
  <2>1. UNCHANGED <<bursts, failures>> /\ ~At(r, "expire")
        /\ \A d \in Handlers : d # r => req'[d] = req[d]
    BY <1>0, <1>2 DEF Send, Arrive, server, At
  <2> QED
    BY <1>1, <2>1
<1>3. ASSUME NEW r \in Handlers, NEW kind \in {"edit", "delete", "react", "pin"},
             NEW p \in Profiles, NEW m \in DOMAIN rows, NEW pinned \in BOOLEAN,
             Ask(r, kind, p, m, pinned)
      PROVE  BurstInv'
  <2>1. UNCHANGED <<bursts, failures>> /\ ~At(r, "expire")
        /\ \A d \in Handlers : d # r => req'[d] = req[d]
    BY <1>0, <1>3 DEF Ask, Arrive, server, At
  <2> QED
    BY <1>1, <2>1
<1>4. ASSUME NEW r \in Handlers, Step(r), ~CountBurst(r), ~ExpireBurst(r) PROVE BurstInv'
  <2>1. \A d \in Handlers : d # r => req'[d] = req[d]
    <3>1. PICK q \in Request : req' = [req EXCEPT ![r] = q]
      BY <1>4, StepKeepsNumber
    <3> QED
      BY <1>0, <3>1
  <2>2. UNCHANGED <<bursts, failures>> /\ ~At(r, "expire")
    BY <1>4 DEF Step, Guard, WriteMessage, AnnounceMessage, Find, UpdateMessage, WriteReaction,
                CountReactions, AnnounceChange, server, At
  <2> QED
    BY <1>1, <2>1, <2>2
<1>5. ASSUME NEW r \in Handlers, CountBurst(r) PROVE BurstInv'
  <2> DEFINE p == req[r].who
  <2>1. p \in Profiles /\ bursts[p] \in [count : Nat, expires : BOOLEAN]
    BY <1>0 DEF Request
  <2>2. /\ \A d \in Handlers : d # r => req'[d] = req[d]
        /\ ~At(r, "expire") /\ UNCHANGED failures
    BY <1>0, <1>5 DEF CountBurst, Goto, Finish, At
  <2>3. /\ bursts'[p].expires = bursts[p].expires
        /\ \A o \in Profiles : o # p => bursts'[o] = bursts[o]
    BY <1>0, <1>5, <2>1 DEF CountBurst
  <2>4. bursts[p].count = 0 => At(r, "expire")' /\ req'[r].who = p
    BY <1>0, <1>5 DEF CountBurst, Goto, At, Request
  <2>5. ASSUME failures = 0, NEW o \in Profiles, bursts'[o].count > 0, ~bursts'[o].expires
        PROVE  \E d \in Handlers : At(d, "expire")' /\ req'[d].who = o
    <3>1. CASE o = p /\ bursts[p].count = 0
      BY <2>4, <3>1
    <3>2. CASE ~(o = p /\ bursts[p].count = 0)
      <4>1. bursts[o].count > 0 /\ ~bursts[o].expires
        BY <2>1, <2>3, <2>5, <3>2
      <4> QED
        BY <2>2, <2>5, <4>1 DEF BurstInv, At
    <3> QED
      BY <3>1, <3>2
  <2> QED
    BY <2>2, <2>5 DEF BurstInv
<1>6. ASSUME NEW r \in Handlers, ExpireBurst(r) PROVE BurstInv'
  <2> DEFINE p == req[r].who
  <2>1. p \in Profiles /\ bursts[p] \in [count : Nat, expires : BOOLEAN]
    BY <1>0 DEF Request
  <2>2. (\A d \in Handlers : d # r => req'[d] = req[d]) /\ UNCHANGED failures
    BY <1>0, <1>6 DEF ExpireBurst, Goto, Finish
  <2>3. bursts'[p].expires /\ \A o \in Profiles : o # p => bursts'[o] = bursts[o]
    BY <1>0, <1>6, <2>1 DEF ExpireBurst
  <2> QED
    BY <2>1, <2>2, <2>3 DEF BurstInv, At
<1>7. ASSUME NEW p \in Profiles, BurstEnds(p) PROVE BurstInv'
  <2>1. /\ bursts'[p].count = 0 /\ \A o \in Profiles : o # p => bursts'[o] = bursts[o]
        /\ UNCHANGED <<req, failures>>
    BY <1>0, <1>7 DEF BurstEnds
  <2> QED
    BY <2>1 DEF BurstInv, At
<1>8. CASE Fail
  BY <1>0, <1>8 DEF Fail, BurstInv
<1>9. CASE (\E w \in Flushers : TakeCount(w) \/ StoreCount(w)) \/ Page \/ Drop \/ Reload
  <2>1. UNCHANGED <<bursts, failures, req>>
    BY <1>9 DEF TakeCount, StoreCount, Page, Subscribe, LoadHistory, ReceiveHistory, Deliver,
                Drop, Reload, server
  <2> QED
    BY <2>1 DEF BurstInv, At
<1> QED
  BY <1>2, <1>3, <1>4, <1>5, <1>6, <1>7, <1>8, <1>9 DEF Next

(* Whoever sends too fast may send again: without failures no burst        *)
(* counter is left without an expiry, for any handlers and any limit.      *)
THEOREM BurstsExpire == Spec => []BurstExpires
<1>1. Init => ChatTypes /\ BurstInv
  BY InitTypes DEF Init, BurstInv
<1>2. ChatTypes /\ BurstInv /\ [Next]_vars => (ChatTypes /\ BurstInv)'
  <2>1. ChatTypes /\ BurstInv /\ UNCHANGED vars => (ChatTypes /\ BurstInv)'
    BY DEF ChatTypes, TypeOK, BurstInv, vars, server, worker, client, At, Is
  <2> QED
    BY <2>1, StepTypes, BurstStep
<1>3. BurstInv => BurstExpires
  BY DEF BurstInv, BurstExpires, AtRest, At
<1> QED
  BY <1>1, <1>2, <1>3, PTL DEF Spec

-----------------------------------------------------------------------------
(***************************************************************************)
(* Under SteadySpec: what keeps the page current.                          *)
(*                                                                         *)
(* Each field of a message the page shows is settled by the last broadcast *)
(* on its way that sets it, or by the cache when none is; that value is    *)
(* the row's, unless a handler has changed the row and not announced it    *)
(* yet (SaysOK).  A broadcast changes the page only where it finds the     *)
(* message (ShownOK, NonceOK), and what a handler announces is what it     *)
(* wrote (EmitOK), because nobody else changes that field of that message  *)
(* meanwhile (ApartOK, ReactOK).                                           *)
(***************************************************************************)

(* The fields of a message the page shows, the request that changes each   *)
(* and the broadcast that carries it.                                      *)
Fields == {"text", "deleted", "pinned", "count", "mine"}
Changes == [text |-> "edit", deleted |-> "delete", pinned |-> "pin",
            count |-> "react", mine |-> "react"]
Carries == [text |-> "edited", deleted |-> "deleted", pinned |-> "pinned",
            count |-> "reaction", mine |-> "reaction"]

(* Broadcast e settles field f of message m ...                            *)
Sets(e, f, m) ==
    \/ e.type = "created" /\ e.item.id = m
    \/ /\ e.type = Carries[f] /\ e.msg = m
       /\ f = "mine" => e.by = Viewer \/ e.count = 0

(* ... as this value.                                                      *)
Value(e, f) ==
    IF e.type = "created" THEN e.item[f]
    ELSE CASE f = "text" -> e.text
           [] f = "deleted" -> TRUE
           [] f = "pinned" -> e.pinned
           [] f = "count" -> e.count
           [] f = "mine" -> e.count > 0 /\ e.added

(* What the cache shows of it, and what the server has.                    *)
Seen(f, m) == {x[f] : x \in {y \in items : y.id = m}}
Stored(f, m) == ToView(m, 0)[f]

(* The last word on field f of message m is v.                             *)
LastWord(s, f, m, seen, v) ==
    /\ \A k \in 1 .. Len(s) :
          Sets(s[k], f, m) /\ (\A j \in k + 1 .. Len(s) : ~Sets(s[j], f, m)) => Value(s[k], f) = v
    /\ (\A k \in 1 .. Len(s) : ~Sets(s[k], f, m)) => seen \subseteq {v}

(* Handler r has changed field f of message m, and announces it next.      *)
Written(r) == At(r, "count") \/ At(r, "emit")
Owes(r, f, m) ==
    /\ Is(r, Changes[f]) /\ req[r].msg = m /\ Written(r)
    /\ f = "mine" => req[r].who = Viewer

(* The page shows nothing of a deleted message but that it is.             *)
Hidden(f, m) == f \in {"text", "pinned"} /\ rows[m].deleted

Says(f, m) ==
    \/ Hidden(f, m)
    \/ \E r \in Handlers : Owes(r, f, m)
    \/ LastWord(inbox, f, m, Seen(f, m), Stored(f, m))

SaysOK == history = "loaded" => \A f \in Fields, m \in DOMAIN rows : Says(f, m)

(* Handler r has written message m and announces it next.                  *)
Creates(r, m) == At(r, "emit") /\ Is(r, "create") /\ req[r].msg = m

(* A broadcast of the creation of message m.                               *)
Brings(e, m) == e.type = "created" /\ e.item.id = m

Shown(m) ==
    \/ \E x \in items : x.id = m
    \/ \E i \in 1 .. Len(inbox) : Brings(inbox[i], m)
    \/ \E r \in Handlers : Creates(r, m)

ShownOK == history = "loaded" => \A m \in DOMAIN rows : Shown(m)

(* Message m goes by nonce n.                                              *)
Named(m, n) ==
    \/ \E x \in items : x.id = m /\ x.nonce = n
    \/ \E i \in 1 .. Len(inbox) : Brings(inbox[i], m) /\ inbox[i].item.nonce = n
    \/ \E r \in Handlers : Creates(r, m) /\ req[r].no = n

NonceOK ==
    /\ \A r, s \in Handlers : req[r].no # 0 /\ req[r].no = req[s].no => r = s
    /\ \A r \in Handlers : \A m \in DOMAIN rows : \A n \in 1 .. received :
          Named(m, n) /\ req[r].no = n => Creates(r, m)
    /\ \A m, k \in DOMAIN rows : \A n \in 1 .. received : Named(m, n) /\ Named(k, n) => m = k

(* The stages of a request of each kind; what it is about, and that it is  *)
(* the only one of its kind to be.                                         *)
ChatStages ==
    [none |-> {"idle"},
     create |-> {"guard", "burst", "expire", "write", "emit"},
     edit |-> {"find", "write", "emit"},
     delete |-> {"find", "write", "emit"},
     pin |-> {"find", "write", "emit"},
     react |-> {"guard", "find", "write", "count", "emit"}]

About(r) ==
    /\ req[r].stage \in ChatStages[req[r].kind]
    /\ req[r].msg <= Len(rows)
    /\ req[r].msg = 0 <=> Is(r, "none") \/ (Is(r, "create") /\ ~At(r, "emit"))
    /\ req[r].no = 0 <=> Is(r, "none")

ApartOK ==
    /\ \A r \in Handlers : About(r)
    /\ \A r, s \in Handlers : r # s /\ req[r].msg = req[s].msg /\ req[r].msg # 0 =>
          req[r].kind # req[s].kind /\ ~Is(r, "create")

(* What a broadcast is about.                                              *)
Target(e) == IF e.type = "created" THEN e.item.id ELSE e.msg

IdsOK ==
    /\ \A x \in items : x.id <= Len(rows)
    /\ \A i \in 1 .. Len(inbox) :
          /\ Target(inbox[i]) \in DOMAIN rows
          /\ inbox[i].type = "deleted" => rows[inbox[i].msg].deleted
    /\ \A x \in reactions : x.msg \in DOMAIN rows /\ x.id \in 1 .. received

(* What r is about to announce is so.                                      *)
Announces(r) ==
    LET m == req[r].msg IN
    /\ Is(r, "create") => /\ rows[m].text = req[r].no /\ ~rows[m].deleted /\ ~rows[m].pinned
                          /\ On(m) = {}
    /\ Is(r, "edit") => rows[m].deleted \/ rows[m].text = req[r].no
    /\ Is(r, "delete") => rows[m].deleted
    /\ Is(r, "pin") => rows[m].deleted \/ rows[m].pinned = req[r].pinned
    /\ Is(r, "react") => req[r].count = Cardinality(On(m))

EmitOK == \A r \in Handlers : At(r, "emit") => Announces(r)

(* A reaction is somebody's only one of a message, and a toggle knows the  *)
(* one it has found.                                                       *)
Toggles(r) ==
    /\ ~Written(r) => \A x \in reactions : x.id # req[r].no
    /\ At(r, "guard") \/ At(r, "find") => req[r].found = 0
    /\ At(r, "write") /\ req[r].found # 0 =>
          \E x \in By(req[r].msg, req[r].who) : x.id = req[r].found
    /\ Written(r) => (req[r].found = 0 <=> By(req[r].msg, req[r].who) # {})

ReactOK ==
    /\ \A x, y \in reactions : x.id = y.id \/ (x.msg = y.msg /\ x.by = y.by) => x = y
    /\ \A r \in Handlers : Is(r, "react") => Toggles(r)

(* The room is quiet until the page has loaded and subscribed.             *)
PhaseOK ==
    /\ ~subscribed => inbox = <<>>
    /\ Open \/ Closed \/ Quiet
    /\ history = "asked" => page = {ToView(m, 0) : m \in DOMAIN rows}

ViewInv == SaysOK /\ ShownOK /\ NonceOK /\ ApartOK /\ IdsOK /\ EmitOK /\ ReactOK /\ PhaseOK

-----------------------------------------------------------------------------
(* The last word, as broadcasts are added and delivered.                   *)

LEMMA LastWordAdded ==
    ASSUME NEW s \in Seq(Event), NEW e \in Event, NEW f, NEW m, NEW seen, NEW v,
           Sets(e, f, m) => Value(e, f) = v,
           Sets(e, f, m) \/ LastWord(s, f, m, seen, v)
    PROVE  LastWord(Append(s, e), f, m, seen, v)
<1> DEFINE t == Append(s, e)
<1>1. /\ Len(s) \in Nat /\ Len(t) = Len(s) + 1 /\ t[Len(t)] = e
      /\ \A k \in 1 .. Len(s) : t[k] = s[k]
  BY AppendProperties
<1> HIDE DEF t
<1>2. ASSUME NEW k \in 1 .. Len(t), Sets(t[k], f, m),
             \A j \in k + 1 .. Len(t) : ~Sets(t[j], f, m)
      PROVE  Value(t[k], f) = v
  <2>1. CASE k = Len(t)
    BY <1>1, <1>2, <2>1
  <2>2. CASE k # Len(t)
    <3>1. k \in 1 .. Len(s) /\ ~Sets(e, f, m) /\ t[k] = s[k]
      BY <1>1, <1>2, <2>2
    <3>2. \A j \in k + 1 .. Len(s) : ~Sets(s[j], f, m)
      BY <1>1, <1>2
    <3> QED
      BY <1>2, <3>1, <3>2 DEF LastWord
  <2> QED
    BY <2>1, <2>2
<1>3. ASSUME \A k \in 1 .. Len(t) : ~Sets(t[k], f, m) PROVE seen \subseteq {v}
  <2>1. ~Sets(e, f, m) /\ \A k \in 1 .. Len(s) : ~Sets(s[k], f, m)
    BY <1>1, <1>3
  <2> QED
    BY <2>1 DEF LastWord
<1>4. LastWord(t, f, m, seen, v)
  BY <1>2, <1>3 DEF LastWord
<1> QED
  BY <1>4 DEF t

LEMMA LastWordDelivered ==
    ASSUME NEW s \in Seq(Event), s # <<>>, NEW f, NEW m, NEW seen, NEW now, NEW v,
           LastWord(s, f, m, seen, v),
           IF Sets(Head(s), f, m) THEN now \subseteq {Value(Head(s), f)} ELSE now \subseteq seen
    PROVE  LastWord(Tail(s), f, m, now, v)
<1> DEFINE t == Tail(s)
           e == Head(s)
<1>1. /\ Len(s) \in Nat /\ Len(s) > 0 /\ Len(t) = Len(s) - 1 /\ s[1] = e
      /\ \A k \in 1 .. Len(t) : t[k] = s[k + 1]
  BY HeadTailProperties, EmptySeq
<1> HIDE DEF t, e
<1>2. ASSUME NEW k \in 1 .. Len(t), Sets(t[k], f, m),
             \A j \in k + 1 .. Len(t) : ~Sets(t[j], f, m)
      PROVE  Value(t[k], f) = v
  <2>1. k + 1 \in 1 .. Len(s) /\ t[k] = s[k + 1]
    BY <1>1
  <2>2. ASSUME NEW j \in (k + 1) + 1 .. Len(s) PROVE ~Sets(s[j], f, m)
    <3>1. j - 1 \in k + 1 .. Len(t) /\ t[j - 1] = s[(j - 1) + 1] /\ (j - 1) + 1 = j
      BY <1>1
    <3> QED
      BY <1>2, <3>1
  <2> QED
    BY <1>2, <2>1, <2>2 DEF LastWord
<1>3. ASSUME \A k \in 1 .. Len(t) : ~Sets(t[k], f, m) PROVE now \subseteq {v}
  <2>1. ASSUME NEW j \in 2 .. Len(s) PROVE ~Sets(s[j], f, m)
    <3>1. j - 1 \in 1 .. Len(t) /\ t[j - 1] = s[(j - 1) + 1] /\ (j - 1) + 1 = j
      BY <1>1
    <3> QED
      BY <1>3, <3>1
  <2>2. CASE Sets(e, f, m)
    <3>1. 1 \in 1 .. Len(s) /\ Value(s[1], f) = v
      BY <1>1, <2>1, <2>2 DEF LastWord
    <3> QED
      BY <1>1, <2>2, <3>1 DEF e
  <2>3. CASE ~Sets(e, f, m)
    <3>1. \A k \in 1 .. Len(s) : ~Sets(s[k], f, m)
      BY <1>1, <2>1, <2>3
    <3> QED
      BY <2>3, <3>1 DEF LastWord, e
  <2> QED
    BY <2>2, <2>3
<1>4. LastWord(t, f, m, now, v)
  BY <1>2, <1>3 DEF LastWord
<1> QED
  BY <1>4 DEF t

LEMMA ChatFacts ==
    ASSUME ChatTypes
    PROVE  /\ rows \in Seq(Row) /\ Len(rows) \in Nat /\ DOMAIN rows = 1 .. Len(rows)
           /\ \A m \in DOMAIN rows : rows[m] \in Row
           /\ inbox \in Seq(Event) /\ Len(inbox) \in Nat
           /\ \A i \in 1 .. Len(inbox) : inbox[i] \in Event
           /\ req \in [Handlers -> Request] /\ Idle \in Request /\ received \in Nat
           /\ \A r \in Handlers : /\ req[r] \in Request /\ req[r].msg \in Nat /\ req[r].no \in Nat
                                  /\ req[r].found \in Nat
           /\ items \subseteq Item
           /\ \A x \in Item : x.id \in Int /\ x.nonce \in Nat
<1>1. /\ rows \in Seq(Row) /\ inbox \in Seq(Event) /\ req \in [Handlers -> Request]
      /\ received \in Nat /\ items \subseteq Item
  BY DEF ChatTypes, TypeOK
<1>2. \A q \in Request : q.msg \in Nat /\ q.no \in Nat /\ q.found \in Nat
  BY DEF Request
<1>3. \A x \in Item : x.id \in Int /\ x.nonce \in Nat
  BY DEF Item
<1>4. /\ Len(rows) \in Nat /\ DOMAIN rows = 1 .. Len(rows) /\ \A m \in DOMAIN rows : rows[m] \in Row
      /\ Len(inbox) \in Nat /\ \A i \in 1 .. Len(inbox) : inbox[i] \in Event
  BY <1>1, LenProperties
<1> QED
  BY <1>1, <1>2, <1>3, <1>4, IdleType

(* What settles nothing new: the rows, the page and the broadcasts.        *)
Unseen == UNCHANGED <<rows, reactions, inbox, client, received>>

LEMMA UnseenKeeps ==
    ASSUME Unseen
    PROVE  /\ \A m : On(m)' = On(m)
           /\ \A m, p : By(m, p)' = By(m, p)
           /\ \A f, m : Seen(f, m)' = Seen(f, m) /\ Stored(f, m)' = Stored(f, m)
           /\ \A f, m : Hidden(f, m)' <=> Hidden(f, m)
<1>1. /\ \A m : On(m)' = On(m)
      /\ \A m, p : By(m, p)' = By(m, p)
  BY DEF Unseen, On, By
<1>2. rows' = rows /\ items' = items
  BY DEF Unseen, client
<1> QED
  BY <1>1, <1>2 DEF Seen, Stored, ToView, Hidden

-----------------------------------------------------------------------------
(* A step of a handler that neither writes nor announces anything: it      *)
(* ends, having written nothing, or goes on as what it is.                 *)

Ends(r, q) == q = Idle /\ ~Written(r)

GoesOn(r, q) ==
    /\ q.kind = req[r].kind /\ q.who = req[r].who /\ q.msg = req[r].msg
    /\ q.no = req[r].no /\ q.pinned = req[r].pinned
    /\ q.stage # "idle" /\ q.stage \in ChatStages[q.kind]
    /\ q.stage # "count" /\ (Written(r) <=> q.stage = "emit")
    /\ q.stage = "emit" => /\ q.kind = "react" /\ q.found = req[r].found
                           /\ q.count = Cardinality(On(q.msg))
    /\ q.kind = "react" =>
          /\ q.stage \in {"guard", "find"} => q.found = 0
          /\ q.stage = "write" /\ q.found # 0 => \E x \in By(q.msg, q.who) : x.id = q.found

LEMMA MovesView ==
    ASSUME ChatTypes, ViewInv, Unseen, NEW r \in Handlers, NEW q \in Request,
           ~At(r, "idle"), ~At(r, "count") \/ Is(r, "react"),
           req' = [req EXCEPT ![r] = q], Ends(r, q) \/ GoesOn(r, q)
    PROVE  ViewInv'
<1>0. /\ req \in [Handlers -> Request] /\ req'[r] = q
      /\ \A s \in Handlers : s # r => req'[s] = req[s]
  BY ChatFacts
<1>u. /\ rows' = rows /\ reactions' = reactions /\ inbox' = inbox /\ received' = received
      /\ subscribed' = subscribed /\ history' = history /\ page' = page /\ items' = items
  BY DEF Unseen, client
<1>a. /\ Idle.stage = "idle" /\ Idle.kind = "none" /\ Idle.msg = 0 /\ Idle.no = 0
  BY DEF Idle
<1>1. \A s \in Handlers : \A f \in Fields : \A m : Owes(s, f, m)' <=> Owes(s, f, m)
  <2>1. \A s \in Handlers : s # r => \A f \in Fields : \A m : Owes(s, f, m)' <=> Owes(s, f, m)
    BY <1>0 DEF Owes, Written, At, Is
  <2>2. CASE Ends(r, q)
    BY <1>0, <1>a, <2>1, <2>2 DEF Ends, Owes, Written, At
  <2>3. CASE GoesOn(r, q)
    BY <1>0, <2>1, <2>3 DEF GoesOn, Owes, Written, At, Is
  <2> QED
    BY <2>2, <2>3
<1>2. \A s \in Handlers : \A m : /\ Creates(s, m)' <=> Creates(s, m)
                                 /\ Creates(s, m) => s # r
  <2>1. \A s \in Handlers : s # r => \A m : Creates(s, m)' <=> Creates(s, m)
    BY <1>0 DEF Creates, At, Is
  <2>2. \A m : ~Creates(r, m) /\ ~Creates(r, m)'
    <3>1. CASE Ends(r, q)
      BY <1>0, <1>a, <3>1 DEF Ends, Creates, Written, At
    <3>2. CASE GoesOn(r, q)
      BY <1>0, <3>2 DEF GoesOn, Creates, Written, At, Is
    <3> QED
      BY <3>1, <3>2
  <2> QED
    BY <2>1, <2>2
<1>3. SaysOK'
  <2>1. \A f \in Fields, m \in DOMAIN rows : Says(f, m) => Says(f, m)'
    BY <1>1, <1>u, UnseenKeeps DEF Says
  <2> QED
    BY <1>u, <2>1 DEF SaysOK, ViewInv
<1>4. ShownOK'
  <2>1. \A m : Shown(m) => Shown(m)'
    BY <1>u, <1>2 DEF Shown
  <2> QED
    BY <1>u, <2>1 DEF ShownOK, ViewInv
<1>5. NonceOK'
  <2>1. \A m, n : Named(m, n)' <=> Named(m, n)
    BY <1>0, <1>2, <1>u DEF Named
  <2>2. q.no = 0 \/ q.no = req[r].no
    BY <1>a DEF Ends, GoesOn
  <2>3. \A s \in Handlers : req'[s].no # 0 => req'[s].no = req[s].no
    BY <1>0, <2>2
  <2>4. \A s, t \in Handlers : req'[s].no # 0 /\ req'[s].no = req'[t].no => s = t
    BY <2>3 DEF ViewInv, NonceOK
  <2>5. \A s \in Handlers : \A m \in DOMAIN rows : \A n \in 1 .. received :
           Named(m, n)' /\ req'[s].no = n => Creates(s, m)'
    <3>1. \A n \in 1 .. received : n # 0
      BY ChatFacts
    <3> QED
      BY <1>2, <2>1, <2>3, <3>1 DEF ViewInv, NonceOK
  <2>6. \A m, k \in DOMAIN rows : \A n \in 1 .. received : Named(m, n)' /\ Named(k, n)' => m = k
    BY <2>1 DEF ViewInv, NonceOK
  <2> QED
    BY <1>u, <2>4, <2>5, <2>6 DEF NonceOK
<1>6. ApartOK'
  <2>1. \A s \in Handlers : s # r => About(s)'
    BY <1>0, <1>u DEF ViewInv, ApartOK, About, At, Is
  <2>2. About(r)'
    <3>1. CASE Ends(r, q)
      <4>1. "idle" \in ChatStages["none"] /\ 0 <= Len(rows)
        BY ChatFacts DEF ChatStages
      <4> QED
        BY <1>0, <1>a, <1>u, <3>1, <4>1 DEF Ends, About, At, Is
    <3>2. CASE GoesOn(r, q)
      <4>1. About(r)
        BY DEF ViewInv, ApartOK
      <4>2. Is(r, "create") => ~At(r, "emit") /\ q.stage # "emit"
        BY <3>2 DEF GoesOn, Written, At, Is
      <4> QED
        BY <1>0, <1>u, <3>2, <4>1, <4>2 DEF GoesOn, About, At, Is
    <3> QED
      BY <3>1, <3>2
  <2>3. q.msg = 0 \/ (q.msg = req[r].msg /\ q.kind = req[r].kind)
    BY <1>a DEF Ends, GoesOn
  <2> QED
    BY <1>0, <2>1, <2>2, <2>3 DEF ViewInv, ApartOK, Is
<1>7. IdsOK'
  BY <1>u DEF ViewInv, IdsOK
<1>8. EmitOK'
  <2>1. \A s \in Handlers : s # r => (At(s, "emit")' => Announces(s)')
    BY <1>0, <1>u, UnseenKeeps DEF ViewInv, EmitOK, Announces, At, Is
  <2>2. At(r, "emit")' => Announces(r)'
    BY <1>0, <1>a, <1>u, UnseenKeeps DEF Ends, GoesOn, Announces, At, Is
  <2> QED
    BY <2>1, <2>2 DEF EmitOK
<1>9. ReactOK'
  <2>1. \A s \in Handlers : s # r => (Is(s, "react")' => Toggles(s)')
    BY <1>0, <1>u, UnseenKeeps DEF ViewInv, ReactOK, Toggles, Written, At, Is
  <2>2. Is(r, "react")' => Toggles(r)'
    <3>1. CASE Ends(r, q)
      BY <1>0, <1>a, <3>1 DEF Ends, Is
    <3>2. CASE GoesOn(r, q)
      <4>1. SUFFICES ASSUME Is(r, "react") PROVE Toggles(r)'
        BY <1>0, <3>2 DEF GoesOn, Is
      <4>2. Toggles(r)
        BY <4>1 DEF ViewInv, ReactOK
      <4>3. Written(r)' <=> Written(r)
        BY <1>0, <3>2 DEF GoesOn, Written, At
      <4>4. Written(r) => q.found = req[r].found
        BY <3>2 DEF GoesOn
      <4> QED
        BY <1>0, <1>u, <3>2, <4>1, <4>2, <4>3, <4>4, UnseenKeeps
           DEF GoesOn, Toggles, At, Is
    <3> QED
      BY <3>1, <3>2
  <2> QED
    BY <1>u, <2>1, <2>2 DEF ViewInv, ReactOK
<1>10. PhaseOK'
  <2>1. ~Quiet
    BY DEF Quiet, AtRest
  <2>2. \A m : ToView(m, 0)' = ToView(m, 0)
    BY <1>u, UnseenKeeps DEF ToView
  <2>3. history # "asked"
    BY <2>1 DEF ViewInv, PhaseOK, Open, Closed
  <2> QED
    BY <1>u, <2>1, <2>3 DEF ViewInv, PhaseOK, Open, Closed
<1> QED
  BY <1>3, <1>4, <1>5, <1>6, <1>7, <1>8, <1>9, <1>10 DEF ViewInv

-----------------------------------------------------------------------------
(* A handler announces what it has written.                                *)

(* Broadcast e says what r has done.                                       *)
Tells(e, r) ==
    /\ Target(e) = req[r].msg
    /\ e.type = "created" <=> Is(r, "create")
    /\ e.type = "created" => e.item.nonce = req[r].no
    /\ e.type = "deleted" => rows[e.msg].deleted
    /\ \A f \in Fields, m \in DOMAIN rows :
          /\ Owes(r, f, m) => Sets(e, f, m)
          /\ Sets(e, f, m) /\ ~Hidden(f, m) => Value(e, f) = Stored(f, m)

LEMMA AnnounceView ==
    ASSUME ChatTypes, ViewInv, NEW r \in Handlers, NEW e \in Event,
           At(r, "emit"), Tells(e, r), Broadcast(e), Finish(r),
           UNCHANGED <<rows, reactions, client, received>>
    PROVE  ViewInv'
<1>0. /\ req \in [Handlers -> Request] /\ req'[r] = Idle
      /\ \A s \in Handlers : s # r => req'[s] = req[s]
  BY ChatFacts DEF Finish
<1>u. /\ rows' = rows /\ reactions' = reactions /\ received' = received
      /\ subscribed' = subscribed /\ history' = history /\ page' = page /\ items' = items
  BY DEF client
<1>a. /\ Idle.stage = "idle" /\ Idle.kind = "none" /\ Idle.msg = 0 /\ Idle.no = 0
  BY DEF Idle
<1>b. /\ \A m : On(m)' = On(m)
      /\ \A m, p : By(m, p)' = By(m, p)
      /\ \A f, m : Seen(f, m)' = Seen(f, m) /\ Stored(f, m)' = Stored(f, m)
      /\ \A f, m : Hidden(f, m)' <=> Hidden(f, m)
      /\ \A m : ToView(m, 0)' = ToView(m, 0)
  <2>1. /\ \A m : On(m)' = On(m)
        /\ \A m, p : By(m, p)' = By(m, p)
    BY <1>u DEF On, By
  <2> QED
    BY <1>u, <2>1 DEF Seen, Stored, ToView, Hidden
<1>c. ~Quiet /\ (Open \/ Closed)
  BY DEF ViewInv, PhaseOK, Quiet, AtRest, At
<1>d. inbox' = IF Open THEN Append(inbox, e) ELSE inbox
  BY <1>c DEF Broadcast, Open, Closed
<1>e. /\ Len(inbox) \in Nat /\ inbox \in Seq(Event)
      /\ Open => /\ Len(inbox') = Len(inbox) + 1 /\ inbox'[Len(inbox')] = e
                 /\ \A i \in 1 .. Len(inbox) : inbox'[i] = inbox[i]
      /\ ~Open => inbox' = inbox
  BY <1>d, ChatFacts, AppendProperties
<1>f. About(r) /\ Is(r, "none") = FALSE /\ req[r].msg \in DOMAIN rows
  <2>1. About(r)
    BY DEF ViewInv, ApartOK
  <2>2. ~Is(r, "none")
    BY <2>1 DEF About, At, Is, ChatStages
  <2> QED
    BY <2>1, <2>2, ChatFacts DEF About
<1>1. \A s \in Handlers : s # r => \A f \in Fields : \A m : Owes(s, f, m)' <=> Owes(s, f, m)
  BY <1>0 DEF Owes, Written, At, Is
<1>2. /\ \A s \in Handlers : s # r => \A m : Creates(s, m)' <=> Creates(s, m)
      /\ \A m : ~Creates(r, m)'
      /\ \A m : Creates(r, m) => Brings(e, m)
  BY <1>0, <1>a DEF Creates, At, Is, Tells, Target, Brings
<1>3. SaysOK'
  <2> SUFFICES ASSUME history = "loaded", NEW f \in Fields, NEW m \in DOMAIN rows
               PROVE  Says(f, m)'
    BY <1>u DEF SaysOK
  <2>1. Says(f, m) /\ inbox' = Append(inbox, e)
    BY <1>c, <1>d DEF ViewInv, SaysOK, Open, Closed
  <2>2. CASE Hidden(f, m)
    BY <1>b, <2>2 DEF Says
  <2>3. CASE \E s \in Handlers : s # r /\ Owes(s, f, m)
    BY <1>1, <2>3 DEF Says
  <2>4. CASE ~Hidden(f, m) /\ (Owes(r, f, m) \/ LastWord(inbox, f, m, Seen(f, m), Stored(f, m)))
    <3>1. /\ Sets(e, f, m) => Value(e, f) = Stored(f, m)
          /\ Sets(e, f, m) \/ LastWord(inbox, f, m, Seen(f, m), Stored(f, m))
      BY <2>4 DEF Tells
    <3>2. LastWord(Append(inbox, e), f, m, Seen(f, m), Stored(f, m))
      BY <1>e, <3>1, LastWordAdded
    <3> QED
      BY <1>b, <2>1, <3>2 DEF Says
  <2> QED
    BY <2>1, <2>2, <2>3, <2>4 DEF Says
<1>4. ShownOK'
  <2> SUFFICES ASSUME history = "loaded", NEW m \in DOMAIN rows
               PROVE  Shown(m)'
    BY <1>u DEF ShownOK
  <2>1. Shown(m) /\ Open
    BY <1>c DEF ViewInv, ShownOK, Open, Closed
  <2> QED
    BY <1>2, <1>e, <1>u, <2>1 DEF Shown
<1>5. NonceOK'
  <2>1. \A m, n : Named(m, n)' => Named(m, n)
    <3> SUFFICES ASSUME NEW m, NEW n, Named(m, n)' PROVE Named(m, n)
      OBVIOUS
    <3>1. CASE \E x \in items' : x.id = m /\ x.nonce = n
      BY <1>u, <3>1 DEF Named
    <3>2. CASE \E s \in Handlers : Creates(s, m)' /\ req'[s].no = n
      BY <1>0, <1>2, <3>2 DEF Named
    <3>3. ASSUME NEW i \in 1 .. Len(inbox'), Brings(inbox'[i], m), inbox'[i].item.nonce = n
          PROVE  Named(m, n)
      <4>1. CASE i \in 1 .. Len(inbox)
        BY <1>e, <3>3, <4>1 DEF Named
      <4>2. CASE i \notin 1 .. Len(inbox)
        <5>1. inbox'[i] = e
          BY <1>e, <4>2
        <5> QED
          BY <3>3, <5>1 DEF Tells, Target, Brings, Named, Creates
      <4> QED
        BY <4>1, <4>2
    <3> QED
      BY <3>1, <3>2, <3>3 DEF Named
  <2>2. \A s \in Handlers : req'[s].no # 0 => req'[s].no = req[s].no /\ s # r
    BY <1>0, <1>a
  <2>3. \A s, t \in Handlers : req'[s].no # 0 /\ req'[s].no = req'[t].no => s = t
    BY <2>2 DEF ViewInv, NonceOK
  <2>4. \A s \in Handlers : \A m \in DOMAIN rows : \A n \in 1 .. received :
           Named(m, n)' /\ req'[s].no = n => Creates(s, m)'
    <3>1. \A n \in 1 .. received : n # 0
      BY ChatFacts
    <3> QED
      BY <1>2, <2>1, <2>2, <3>1 DEF ViewInv, NonceOK
  <2>5. \A m, k \in DOMAIN rows : \A n \in 1 .. received : Named(m, n)' /\ Named(k, n)' => m = k
    BY <2>1 DEF ViewInv, NonceOK
  <2> QED
    BY <1>u, <2>3, <2>4, <2>5 DEF NonceOK
<1>6. ApartOK'
  <2>1. \A s \in Handlers : s # r => About(s)'
    BY <1>0, <1>u DEF ViewInv, ApartOK, About, At, Is
  <2>2. About(r)'
    <3>1. "idle" \in ChatStages["none"] /\ 0 <= Len(rows)
      BY ChatFacts DEF ChatStages
    <3> QED
      BY <1>0, <1>a, <1>u, <3>1 DEF About, At, Is
  <2> QED
    BY <1>0, <1>a, <2>1, <2>2 DEF ViewInv, ApartOK, Is
<1>7. IdsOK'
  <2>1. Target(e) \in DOMAIN rows /\ (e.type = "deleted" => rows[e.msg].deleted)
    BY <1>f DEF Tells
  <2>2. \A i \in 1 .. Len(inbox') :
           inbox'[i] = e \/ (i \in 1 .. Len(inbox) /\ inbox'[i] = inbox[i])
    BY <1>e
  <2>3. \A i \in 1 .. Len(inbox') :
          /\ Target(inbox'[i]) \in DOMAIN rows
          /\ inbox'[i].type = "deleted" => rows[inbox'[i].msg].deleted
    BY <2>1, <2>2 DEF ViewInv, IdsOK
  <2> QED
    BY <1>u, <2>3 DEF ViewInv, IdsOK, Target
<1>8. EmitOK'
  <2>1. \A s \in Handlers : s # r => (At(s, "emit")' => Announces(s)')
    BY <1>0, <1>u, <1>b DEF ViewInv, EmitOK, Announces, At, Is
  <2> QED
    BY <1>0, <1>a, <2>1 DEF EmitOK, At
<1>9. ReactOK'
  <2>1. \A s \in Handlers : s # r => (Is(s, "react")' => Toggles(s)')
    BY <1>0, <1>u, <1>b DEF ViewInv, ReactOK, Toggles, Written, At, Is
  <2> QED
    BY <1>0, <1>a, <1>u, <2>1 DEF ViewInv, ReactOK, Is
<1>10. PhaseOK'
  BY <1>b, <1>c, <1>d, <1>u DEF ViewInv, PhaseOK, Open, Closed
<1> QED
  BY <1>3, <1>4, <1>5, <1>6, <1>7, <1>8, <1>9, <1>10 DEF ViewInv

-----------------------------------------------------------------------------
(* A new message.                                                          *)

LEMMA AppendView ==
    ASSUME ChatTypes, NamesInv, ViewInv, NEW r \in Handlers, At(r, "write"), Is(r, "create"),
           rows' = Append(rows, [author |-> req[r].who, text |-> req[r].no,
                                 deleted |-> FALSE, pinned |-> FALSE]),
           req' = [req EXCEPT ![r].msg = Len(rows) + 1, ![r].stage = "emit"],
           UNCHANGED <<reactions, inbox, client, received>>
    PROVE  ViewInv'
<1>n. PICK new : new = Len(rows) + 1
  OBVIOUS
<1> DEFINE row == [author |-> req[r].who, text |-> req[r].no, deleted |-> FALSE, pinned |-> FALSE]
<1>0. /\ req \in [Handlers -> Request]
      /\ \A s \in Handlers : s # r => req'[s] = req[s]
      /\ req'[r] = [req[r] EXCEPT !.msg = new, !.stage = "emit"]
  <2>1. req \in [Handlers -> Request]
    BY ChatFacts
  <2> QED
    BY <1>n, <2>1
<1>q. /\ req'[r].kind = "create" /\ req'[r].msg = new /\ req'[r].stage = "emit"
      /\ req'[r].no = req[r].no
  <2>1. req[r] \in Request
    BY <1>0
  <2> QED
    BY <1>0, <2>1 DEF Request, Is
<1>u. /\ reactions' = reactions /\ inbox' = inbox /\ received' = received
      /\ subscribed' = subscribed /\ history' = history /\ page' = page /\ items' = items
  BY DEF client
<1>r. /\ Len(rows) \in Nat /\ new \in Nat /\ DOMAIN rows = 1 .. Len(rows)
      /\ DOMAIN rows' = 1 .. new /\ Len(rows') = new /\ rows'[new] = row
      /\ \A m \in DOMAIN rows : rows'[m] = rows[m]
      /\ DOMAIN rows' = DOMAIN rows \cup {new} /\ new \notin DOMAIN rows
  <2>1. rows \in Seq(Row) /\ Len(rows) \in Nat /\ DOMAIN rows = 1 .. Len(rows)
    BY ChatFacts
  <2>2. row \in Row
    <3>1. req[r] \in Request
      BY <1>0
    <3> QED
      BY <3>1 DEF Row, Request
  <2>3. /\ rows' \in Seq(Row) /\ Len(rows') = new /\ rows'[new] = row
        /\ \A m \in 1 .. Len(rows) : rows'[m] = rows[m]
    BY <1>n, <2>1, <2>2, AppendProperties
  <2>4. DOMAIN rows' = 1 .. new
    BY <2>1, <2>3, LenProperties
  <2> QED
    BY <1>n, <2>1, <2>3, <2>4
<1>w. row.text = req[r].no /\ row.deleted = FALSE /\ row.pinned = FALSE
  OBVIOUS
<1> HIDE DEF row
<1>b. /\ \A m : On(m)' = On(m)
      /\ \A m, p : By(m, p)' = By(m, p)
      /\ \A f, m : Seen(f, m)' = Seen(f, m)
  BY <1>u DEF On, By, Seen
<1>c. \A m \in DOMAIN rows : /\ ToView(m, 0)' = ToView(m, 0)
                             /\ \A f : Stored(f, m)' = Stored(f, m)
                             /\ \A f : Hidden(f, m)' <=> Hidden(f, m)
  <2>1. \A m \in DOMAIN rows : ToView(m, 0)' = ToView(m, 0)
    BY <1>b, <1>r DEF ToView
  <2> QED
    BY <1>r, <2>1 DEF Stored, Hidden
<1>d. \A s \in Handlers : About(s) /\ req[s].msg \in Nat /\ req[s].no \in Nat
  BY ChatFacts DEF ViewInv, ApartOK
<1>1. \A s \in Handlers : \A f \in Fields : \A m : Owes(s, f, m) => Owes(s, f, m)'
  <2>1. ~Written(r)
    BY DEF Written, At
  <2> QED
    BY <1>0, <2>1 DEF Owes, Written, At, Is
<1>2. /\ \A s \in Handlers : \A m : Creates(s, m) => Creates(s, m)' /\ s # r
      /\ \A s \in Handlers : \A m \in DOMAIN rows : Creates(s, m)' => Creates(s, m)
      /\ \A s \in Handlers : Creates(s, new)' <=> s = r
  <2>1. \A m : ~Creates(r, m) /\ (Creates(r, m)' <=> m = new)
    BY <1>q DEF Creates, At, Is
  <2>2. \A s \in Handlers : s # r => \A m : Creates(s, m)' <=> Creates(s, m)
    BY <1>0 DEF Creates, At, Is
  <2>3. \A s \in Handlers : ~Creates(s, new)
    BY <1>d, <1>n, <1>r DEF Creates, About
  <2> QED
    BY <1>r, <2>1, <2>2, <2>3
<1>3. /\ \A x \in items : x.id # new
      /\ \A i \in 1 .. Len(inbox) : Target(inbox[i]) # new
      /\ On(new) = {}
  <2>1. \A x \in items : x.id \in Int
    BY ChatFacts
  <2> QED
    BY <1>n, <1>r, <2>1 DEF ViewInv, IdsOK, On
<1>4. SaysOK'
  <2>1. ASSUME NEW f \in Fields, NEW m \in DOMAIN rows, Says(f, m) PROVE Says(f, m)'
    BY <1>1, <1>b, <1>c, <1>u, <2>1 DEF Says
  <2>2. ASSUME NEW f \in Fields PROVE Says(f, new)'
    <3>1. Seen(f, new)' = {}
      <4>1. {y \in items : y.id = new} = {}
        BY <1>3
      <4>2. Seen(f, new) = {}
        BY <4>1 DEF Seen
      <4> QED
        BY <1>b, <4>2
    <3>2. \A i \in 1 .. Len(inbox) : ~Sets(inbox[i], f, new)
      <4>1. \A c \in DOMAIN Carries : Carries[c] # "created"
        BY DEF Carries
      <4>2. f \in DOMAIN Carries
        BY DEF Fields, Carries
      <4> QED
        BY <1>3, <4>1, <4>2 DEF Sets, Target
    <3>3. LastWord(inbox, f, new, {}, Stored(f, new)')
      BY <3>2 DEF LastWord
    <3> QED
      BY <1>u, <3>1, <3>3 DEF Says
  <2> QED
    BY <1>r, <1>u, <2>1, <2>2 DEF SaysOK, ViewInv
<1>5. ShownOK'
  <2>1. ASSUME NEW m \in DOMAIN rows, Shown(m) PROVE Shown(m)'
    BY <1>2, <1>u, <2>1 DEF Shown
  <2>2. Shown(new)'
    BY <1>2 DEF Shown
  <2> QED
    BY <1>r, <1>u, <2>1, <2>2 DEF ShownOK, ViewInv
<1>6. NonceOK'
  <2>1. ASSUME NEW m \in DOMAIN rows, NEW n, Named(m, n)' PROVE Named(m, n)
    <3>1. \A s \in Handlers : Creates(s, m)' => req'[s].no = req[s].no
      BY <1>0, <1>q
    <3> QED
      BY <1>2, <1>u, <2>1, <3>1 DEF Named
  <2>2. ASSUME NEW n, Named(new, n)' PROVE n = req[r].no
    BY <1>2, <1>3, <1>q, <1>u, <2>2 DEF Named, Brings, Target
  <2>3. \A s \in Handlers : req'[s].no = req[s].no
    BY <1>0, <1>q
  <2>4. \A s, t \in Handlers : req'[s].no # 0 /\ req'[s].no = req'[t].no => s = t
    BY <2>3 DEF ViewInv, NonceOK
  <2>5. \A m \in DOMAIN rows : \A n \in 1 .. received : Named(m, n) => n # req[r].no
    BY <1>2 DEF ViewInv, NonceOK
  <2>6. ASSUME NEW s \in Handlers, NEW m \in DOMAIN rows', NEW n \in 1 .. received,
               Named(m, n)', req'[s].no = n
        PROVE  Creates(s, m)'
    <3>1. CASE m = new
      <4>1. n # 0
        BY ChatFacts
      <4>2. s = r
        BY <2>2, <2>3, <2>4, <2>6, <3>1, <4>1
      <4> QED
        BY <1>2, <3>1, <4>2
    <3>2. CASE m \in DOMAIN rows
      BY <1>2, <2>1, <2>3, <2>6, <3>2 DEF ViewInv, NonceOK
    <3> QED
      BY <1>r, <3>1, <3>2
  <2>7. ASSUME NEW m \in DOMAIN rows', NEW k \in DOMAIN rows', NEW n \in 1 .. received,
               Named(m, n)', Named(k, n)'
        PROVE  m = k
    <3>1. CASE m \in DOMAIN rows /\ k \in DOMAIN rows
      BY <2>1, <2>7, <3>1 DEF ViewInv, NonceOK
    <3>2. CASE m = new /\ k = new
      BY <3>2
    <3>3. CASE m = new /\ k \in DOMAIN rows
      BY <2>1, <2>2, <2>5, <2>7, <3>3
    <3>4. CASE m \in DOMAIN rows /\ k = new
      BY <2>1, <2>2, <2>5, <2>7, <3>4
    <3> QED
      BY <1>r, <3>1, <3>2, <3>3, <3>4
  <2> QED
    BY <1>u, <2>4, <2>6, <2>7 DEF NonceOK
<1>7. ApartOK'
  <2>1. \A s \in Handlers : s # r => About(s)'
    <3>1. \A s \in Handlers : req[s].msg <= Len(rows) => req[s].msg <= Len(rows')
      BY <1>d, <1>n, <1>r
    <3> QED
      BY <1>0, <1>d, <3>1 DEF About, At, Is
  <2>2. About(r)'
    <3>1. "emit" \in ChatStages["create"] /\ new # 0 /\ new <= Len(rows')
      BY <1>n, <1>r DEF ChatStages
    <3>2. req[r].no # 0
      BY <1>d DEF About, Is
    <3> QED
      BY <1>q, <3>1, <3>2 DEF About, At, Is
  <2>3. \A s \in Handlers : req[s].msg # new
    BY <1>d, <1>n, <1>r DEF About
  <2> QED
    BY <1>0, <1>q, <2>1, <2>2, <2>3 DEF ViewInv, ApartOK, Is
<1>8. IdsOK'
  <2>1. \A x \in items : x.id <= Len(rows')
    <3>1. \A x \in items : x.id \in Int
      BY ChatFacts
    <3> QED
      BY <1>n, <1>r, <3>1 DEF ViewInv, IdsOK
  <2>2. \A i \in 1 .. Len(inbox) :
          /\ Target(inbox[i]) \in DOMAIN rows'
          /\ inbox[i].type = "deleted" => rows'[inbox[i].msg].deleted
    BY <1>r DEF ViewInv, IdsOK, Target
  <2> QED
    BY <1>r, <1>u, <2>1, <2>2 DEF ViewInv, IdsOK
<1>9. EmitOK'
  <2>1. ASSUME NEW s \in Handlers, s # r, At(s, "emit")' PROVE Announces(s)'
    <3>1. At(s, "emit") /\ Announces(s) /\ req'[s] = req[s]
      BY <1>0, <2>1 DEF ViewInv, EmitOK, At
    <3>2. req[s].msg \in DOMAIN rows
      <4>1. ~Is(s, "none")
        BY <1>d, <3>1 DEF About, At, Is, ChatStages
      <4> QED
        BY <1>d, <1>r, <3>1, <4>1 DEF About
    <3> QED
      BY <1>b, <1>r, <3>1, <3>2 DEF Announces, Is
  <2>2. Announces(r)'
    BY <1>3, <1>b, <1>q, <1>r, <1>w DEF Announces, Is
  <2> QED
    BY <2>1, <2>2 DEF EmitOK
<1>10. ReactOK'
  <2>1. \A s \in Handlers : s # r => (Is(s, "react")' => Toggles(s)')
    BY <1>0, <1>u, <1>b DEF ViewInv, ReactOK, Toggles, Written, At, Is
  <2> QED
    BY <1>q, <1>u, <2>1 DEF ViewInv, ReactOK, Is
<1>11. PhaseOK'
  <2>1. ~Quiet
    BY DEF Quiet, AtRest, At
  <2>2. history # "asked"
    BY <2>1 DEF ViewInv, PhaseOK, Open, Closed
  <2> QED
    BY <1>u, <2>1, <2>2 DEF ViewInv, PhaseOK, Open, Closed
<1> QED
  BY <1>4, <1>5, <1>6, <1>7, <1>8, <1>9, <1>10, <1>11 DEF ViewInv

-----------------------------------------------------------------------------
(* A change of a message.                                                  *)

LEMMA UpdateView ==
    ASSUME ChatTypes, ViewInv, NEW r \in Handlers, UpdateMessage(r)
    PROVE  ViewInv'
<1>n. PICK m0 : m0 = req[r].msg
  OBVIOUS
<1>0. /\ req \in [Handlers -> Request]
      /\ \A s \in Handlers : s # r => req'[s] = req[s]
      /\ req'[r] = [req[r] EXCEPT !.stage = "emit"]
      /\ At(r, "write") /\ (Is(r, "edit") \/ Is(r, "delete") \/ Is(r, "pin"))
  <2>1. req \in [Handlers -> Request]
    BY ChatFacts
  <2> QED
    BY <2>1 DEF UpdateMessage, Goto
<1>q. /\ req'[r].kind = req[r].kind /\ req'[r].msg = m0 /\ req'[r].stage = "emit"
      /\ req'[r].no = req[r].no /\ req'[r].pinned = req[r].pinned /\ req'[r].who = req[r].who
  <2>1. req[r] \in Request
    BY <1>0
  <2> QED
    BY <1>0, <1>n, <2>1 DEF Request
<1>u. /\ reactions' = reactions /\ inbox' = inbox /\ received' = received
      /\ subscribed' = subscribed /\ history' = history /\ page' = page /\ items' = items
  BY DEF UpdateMessage, client
<1>d. \A s \in Handlers : /\ About(s) /\ req[s].msg \in Nat /\ req[s].no \in Nat
                          /\ ~Is(s, "none") /\ (Is(s, "create") => At(s, "emit"))
                                => req[s].msg \in DOMAIN rows
  <2>1. \A s \in Handlers : About(s) /\ req[s].msg \in Nat /\ req[s].no \in Nat
    BY ChatFacts DEF ViewInv, ApartOK
  <2> QED
    BY <2>1, ChatFacts DEF About
<1>m. m0 \in DOMAIN rows /\ rows \in Seq(Row) /\ rows[m0] \in Row
  <2>1. m0 \in DOMAIN rows
    BY <1>0, <1>d, <1>n DEF Is
  <2> QED
    BY <2>1, ChatFacts
<1>r. /\ DOMAIN rows' = DOMAIN rows /\ Len(rows') = Len(rows)
      /\ \A m \in DOMAIN rows : m # m0 => rows'[m] = rows[m]
      /\ rows[m0].deleted => rows'[m0].deleted
      /\ Is(r, "edit") => /\ rows'[m0].text = req[r].no
                          /\ rows'[m0].deleted = rows[m0].deleted
                          /\ rows'[m0].pinned = rows[m0].pinned
      /\ Is(r, "delete") => rows'[m0].deleted = TRUE
      /\ Is(r, "pin") => /\ rows'[m0].text = rows[m0].text
                         /\ rows'[m0].deleted = rows[m0].deleted
                         /\ rows'[m0].pinned = req[r].pinned
  <2>1. PICK row : /\ rows' = [rows EXCEPT ![m0] = row]
                   /\ \/ Is(r, "edit") /\ row = [rows[m0] EXCEPT !.text = req[r].no]
                      \/ /\ Is(r, "delete")
                         /\ row = [rows[m0] EXCEPT !.deleted = TRUE, !.text = 0, !.pinned = FALSE]
                      \/ Is(r, "pin") /\ row = [rows[m0] EXCEPT !.pinned = req[r].pinned]
    <3>1. CASE Is(r, "edit")
      <4>1. rows' = [rows EXCEPT ![m0] = [rows[m0] EXCEPT !.text = req[r].no]]
        BY <1>n, <3>1 DEF UpdateMessage, Is
      <4> QED
        BY <3>1, <4>1
    <3>2. CASE Is(r, "delete")
      <4>1. rows' = [rows EXCEPT ![m0] =
                        [rows[m0] EXCEPT !.deleted = TRUE, !.text = 0, !.pinned = FALSE]]
        <5>1. rows' = [rows EXCEPT ![m0].deleted = TRUE, ![m0].text = 0, ![m0].pinned = FALSE]
          BY <1>n, <3>2 DEF UpdateMessage, Is
        <5> QED
          BY <1>m, <5>1
      <4> QED
        BY <3>2, <4>1
    <3>3. CASE Is(r, "pin")
      <4>1. rows' = [rows EXCEPT ![m0] = [rows[m0] EXCEPT !.pinned = req[r].pinned]]
        BY <1>n, <3>3 DEF UpdateMessage, Is
      <4> QED
        BY <3>3, <4>1
    <3> QED
      BY <1>0, <3>1, <3>2, <3>3
  <2>2. DOMAIN rows' = DOMAIN rows /\ rows'[m0] = row
        /\ \A m \in DOMAIN rows : m # m0 => rows'[m] = rows[m]
    BY <1>m, <2>1
  <2>3. Len(rows') = Len(rows)
    BY <1>m, <2>1, ExceptSeq
  <2>4. /\ rows[m0].deleted => row.deleted
        /\ Is(r, "edit") => /\ row.text = req[r].no
                            /\ row.deleted = rows[m0].deleted
                            /\ row.pinned = rows[m0].pinned
        /\ Is(r, "delete") => row.deleted = TRUE
        /\ Is(r, "pin") => /\ row.text = rows[m0].text
                           /\ row.deleted = rows[m0].deleted
                           /\ row.pinned = req[r].pinned
    BY <1>m, <2>1 DEF Row, Is
  <2> QED
    BY <2>2, <2>3, <2>4
<1>b. /\ \A m : On(m)' = On(m)
      /\ \A m, p : By(m, p)' = By(m, p)
      /\ \A f, m : Seen(f, m)' = Seen(f, m)
  BY <1>u DEF On, By, Seen
<1>c. \A f \in Fields : \A m \in DOMAIN rows :
          /\ Hidden(f, m) => Hidden(f, m)'
          /\ \/ Hidden(f, m)'
             \/ m = m0 /\ Is(r, Changes[f]) /\ f # "mine"
             \/ Stored(f, m)' = Stored(f, m)
  <2> SUFFICES ASSUME NEW f \in Fields, NEW m \in DOMAIN rows
               PROVE  /\ Hidden(f, m) => Hidden(f, m)'
                      /\ \/ Hidden(f, m)'
                         \/ m = m0 /\ Is(r, Changes[f]) /\ f # "mine"
                         \/ Stored(f, m)' = Stored(f, m)
    OBVIOUS
  <2>1. CASE m # m0
    <3>1. rows'[m] = rows[m]
      BY <1>r, <2>1
    <3>2. ToView(m, 0)' = ToView(m, 0)
      BY <1>b, <3>1 DEF ToView
    <3> QED
      BY <3>1, <3>2 DEF Stored, Hidden
  <2>2. CASE m = m0
    <3>1. Hidden(f, m) => Hidden(f, m)'
      BY <1>r, <2>2 DEF Hidden
    <3>2. CASE f = "text"
      BY <1>0, <1>b, <1>r, <2>2, <3>2 DEF Stored, ToView, Hidden, Changes, Is
    <3>3. CASE f = "deleted"
      BY <1>0, <1>b, <1>r, <2>2, <3>3 DEF Stored, ToView, Hidden, Changes, Is
    <3>4. CASE f = "pinned"
      BY <1>0, <1>b, <1>r, <2>2, <3>4 DEF Stored, ToView, Hidden, Changes, Is
    <3>5. CASE f = "count" \/ f = "mine"
      BY <1>b, <3>5, <3>1 DEF Stored, ToView
    <3> QED
      BY <3>1, <3>2, <3>3, <3>4, <3>5 DEF Fields
  <2> QED
    BY <2>1, <2>2
<1>1. \A s \in Handlers : \A f \in Fields : \A m : Owes(s, f, m) => Owes(s, f, m)'
  <2>1. ~Written(r)
    BY <1>0 DEF Written, At
  <2> QED
    BY <1>0, <2>1 DEF Owes, Written, At, Is
<1>2. \A s \in Handlers : \A m : Creates(s, m)' <=> Creates(s, m)
  <2>1. \A s \in Handlers : s # r => \A m : Creates(s, m)' <=> Creates(s, m)
    BY <1>0 DEF Creates, At, Is
  <2>2. \A m : ~Creates(r, m) /\ ~Creates(r, m)'
    BY <1>0, <1>q DEF Creates, Is
  <2> QED
    BY <2>1, <2>2
<1>3. SaysOK'
  <2>1. ASSUME NEW f \in Fields, NEW m \in DOMAIN rows, Says(f, m) PROVE Says(f, m)'
    <3>1. CASE m = m0 /\ Is(r, Changes[f]) /\ f # "mine"
      <4>1. Owes(r, f, m)'
        BY <1>q, <3>1 DEF Owes, Written, At, Is
      <4> QED
        BY <4>1 DEF Says
    <3>2. CASE Hidden(f, m)'
      BY <3>2 DEF Says
    <3>3. CASE Stored(f, m)' = Stored(f, m)
      BY <1>1, <1>b, <1>c, <1>u, <2>1, <3>3 DEF Says
    <3> QED
      BY <1>c, <3>1, <3>2, <3>3
  <2> QED
    BY <1>r, <1>u, <2>1 DEF SaysOK, ViewInv
<1>4. ShownOK'
  <2>1. \A m : Shown(m) => Shown(m)'
    BY <1>2, <1>u DEF Shown
  <2> QED
    BY <1>r, <1>u, <2>1 DEF ShownOK, ViewInv
<1>5. NonceOK'
  <2>1. \A m, n : Named(m, n)' <=> Named(m, n)
    <3>1. \A s \in Handlers : req'[s].no = req[s].no
      BY <1>0, <1>q
    <3> QED
      BY <1>2, <1>u, <3>1 DEF Named
  <2>2. \A s \in Handlers : req'[s].no = req[s].no
    BY <1>0, <1>q
  <2> QED
    BY <1>2, <1>r, <1>u, <2>1, <2>2 DEF NonceOK, ViewInv
<1>6. ApartOK'
  <2>1. \A s \in Handlers : s # r => About(s)'
    BY <1>0, <1>d, <1>r DEF About, At, Is
  <2>2. About(r)'
    <3>1. "emit" \in ChatStages[req[r].kind]
      BY <1>0 DEF ChatStages, Is
    <3> QED
      BY <1>0, <1>d, <1>n, <1>q, <1>r, <3>1 DEF About, At, Is
  <2>3. \A s \in Handlers : req'[s].msg = req[s].msg /\ req'[s].kind = req[s].kind
    BY <1>0, <1>n, <1>q
  <2> QED
    BY <2>1, <2>2, <2>3 DEF ViewInv, ApartOK, Is
<1>7. IdsOK'
  <2>1. \A i \in 1 .. Len(inbox) : inbox[i].type = "deleted" => rows'[inbox[i].msg].deleted
    BY <1>r DEF ViewInv, IdsOK, Target
  <2> QED
    BY <1>r, <1>u, <2>1 DEF ViewInv, IdsOK
<1>8. EmitOK'
  <2>1. ASSUME NEW s \in Handlers, s # r, At(s, "emit")' PROVE Announces(s)'
    <3>1. At(s, "emit") /\ Announces(s) /\ req'[s] = req[s]
      BY <1>0, <2>1 DEF ViewInv, EmitOK, At
    <3>2. req[s].msg \in DOMAIN rows
      <4>1. ~Is(s, "none")
        BY <1>d, <3>1 DEF About, At, Is, ChatStages
      <4> QED
        BY <1>d, <3>1, <4>1
    <3>3. CASE req[s].msg # m0
      BY <1>b, <1>r, <3>1, <3>2, <3>3 DEF Announces, Is
    <3>4. CASE req[s].msg = m0
      <4>1. req[s].kind # req[r].kind /\ ~Is(s, "create")
        <5>1. 0 \notin DOMAIN rows
          BY ChatFacts
        <5> QED
          BY <1>m, <1>n, <2>1, <3>4, <5>1 DEF ViewInv, ApartOK
      <4>2. /\ Is(s, "edit") => rows'[m0].deleted \/ rows'[m0].text = req[s].no
            /\ Is(s, "delete") => rows'[m0].deleted
            /\ Is(s, "pin") => rows'[m0].deleted \/ rows'[m0].pinned = req[s].pinned
        BY <1>0, <1>r, <3>1, <3>4, <4>1 DEF Announces, Is
      <4> QED
        BY <1>b, <3>1, <3>4, <4>1, <4>2 DEF Announces, Is
    <3> QED
      BY <3>3, <3>4
  <2>2. Announces(r)'
    BY <1>0, <1>q, <1>r DEF Announces, Is
  <2> QED
    BY <2>1, <2>2 DEF EmitOK
<1>9. ReactOK'
  <2>1. \A s \in Handlers : s # r => (Is(s, "react")' => Toggles(s)')
    BY <1>0, <1>u, <1>b DEF ViewInv, ReactOK, Toggles, Written, At, Is
  <2> QED
    BY <1>0, <1>q, <1>u, <2>1 DEF ViewInv, ReactOK, Is
<1>10. PhaseOK'
  <2>1. ~Quiet
    BY <1>0 DEF Quiet, AtRest, At
  <2>2. history # "asked"
    BY <2>1 DEF ViewInv, PhaseOK, Open, Closed
  <2> QED
    BY <1>u, <2>1, <2>2 DEF ViewInv, PhaseOK, Open, Closed
<1> QED
  BY <1>3, <1>4, <1>5, <1>6, <1>7, <1>8, <1>9, <1>10 DEF ViewInv

-----------------------------------------------------------------------------
(* A reaction is added or taken back.                                      *)

LEMMA ToggleView ==
    ASSUME ChatTypes, NamesInv, ViewInv, NEW r \in Handlers, At(r, "write"), Is(r, "react"),
           Goto(r, "count"), UNCHANGED <<rows, inbox, client, received>>,
           \/ /\ req[r].found = 0 /\ By(req[r].msg, req[r].who) = {}
              /\ reactions' = reactions
                    \cup {[msg |-> req[r].msg, by |-> req[r].who, id |-> req[r].no]}
           \/ /\ req[r].found # 0
              /\ reactions' = reactions \ {x \in reactions : x.id = req[r].found}
    PROVE  ViewInv'
<1>n. PICK m0, p0 : m0 = req[r].msg /\ p0 = req[r].who
  OBVIOUS
<1>0. /\ req \in [Handlers -> Request] /\ req[r] \in Request
      /\ \A s \in Handlers : s # r => req'[s] = req[s]
      /\ req'[r] = [req[r] EXCEPT !.stage = "count"]
  <2>1. req \in [Handlers -> Request]
    BY ChatFacts
  <2> QED
    BY <2>1 DEF Goto
<1>q. /\ req'[r].kind = "react" /\ req'[r].msg = m0 /\ req'[r].stage = "count"
      /\ req'[r].no = req[r].no /\ req'[r].who = p0 /\ req'[r].found = req[r].found
  BY <1>0, <1>n DEF Request, Is
<1>u. /\ rows' = rows /\ inbox' = inbox /\ received' = received
      /\ subscribed' = subscribed /\ history' = history /\ page' = page /\ items' = items
  BY DEF client
<1>d. About(r) /\ Toggles(r) /\ m0 \in DOMAIN rows /\ req[r].no # 0 /\ req[r].no \in 1 .. received
  <2>1. About(r) /\ Toggles(r)
    BY DEF ViewInv, ApartOK, ReactOK
  <2>2. m0 # 0 /\ m0 <= Len(rows) /\ req[r].no # 0
    BY <1>n, <2>1 DEF About, Is
  <2>3. req[r].no <= received
    BY DEF NamesInv, Numbered
  <2> QED
    BY <1>n, <2>1, <2>2, <2>3, ChatFacts
<1>w. ~Written(r)
  BY DEF Written, At
<1>r. /\ \A m : m # m0 => On(m)' = On(m) /\ \A p : By(m, p)' = By(m, p)
      /\ \A p : p # p0 => By(m0, p)' = By(m0, p)
      /\ req[r].found = 0 <=> By(m0, p0)' # {}
      /\ \A x, y \in reactions' : x.id = y.id \/ (x.msg = y.msg /\ x.by = y.by) => x = y
      /\ \A x \in reactions' : x \in reactions \/ (x.id = req[r].no /\ x.msg = m0)
  <2> DEFINE z == [msg |-> m0, by |-> p0, id |-> req[r].no]
  <2>1. CASE req[r].found = 0 /\ By(m0, p0) = {} /\ reactions' = reactions \cup {z}
    <3>1. z.msg = m0 /\ z.by = p0 /\ z.id = req[r].no
      OBVIOUS
    <3> HIDE DEF z
    <3>2. \A x \in reactions : x.id # z.id /\ ~(x.msg = m0 /\ x.by = p0)
      BY <1>d, <1>w, <2>1, <3>1 DEF Toggles, By, On
    <3>3. \A x, y \in reactions' : x.id = y.id \/ (x.msg = y.msg /\ x.by = y.by) => x = y
      BY <2>1, <3>1, <3>2 DEF ViewInv, ReactOK
    <3>4. \A m : m # m0 => On(m)' = On(m) /\ \A p : By(m, p)' = By(m, p)
      BY <2>1, <3>1 DEF On, By
    <3>5. \A p : p # p0 => By(m0, p)' = By(m0, p)
      BY <2>1, <3>1 DEF On, By
    <3>6. By(m0, p0)' # {}
      BY <2>1, <3>1 DEF On, By
    <3> QED
      BY <2>1, <3>1, <3>3, <3>4, <3>5, <3>6
  <2>2. CASE /\ req[r].found # 0
             /\ reactions' = reactions \ {x \in reactions : x.id = req[r].found}
    <3>1. PICK old \in By(m0, p0) : old.id = req[r].found
      BY <1>d, <1>n, <2>2 DEF Toggles
    <3>2. old \in reactions /\ old.msg = m0 /\ old.by = p0
      BY <3>1 DEF By, On
    <3>3. reactions' = reactions \ {old}
      BY <2>2, <3>1, <3>2 DEF ViewInv, ReactOK
    <3>4. \A x \in reactions : x.msg = m0 /\ x.by = p0 => x = old
      BY <3>2 DEF ViewInv, ReactOK
    <3>5. By(m0, p0)' = {}
      BY <3>3, <3>4 DEF By, On
    <3>6. \A m : m # m0 => On(m)' = On(m) /\ \A p : By(m, p)' = By(m, p)
      BY <3>2, <3>3 DEF On, By
    <3>7. \A p : p # p0 => By(m0, p)' = By(m0, p)
      BY <3>2, <3>3 DEF On, By
    <3> QED
      BY <2>2, <3>3, <3>5, <3>6, <3>7 DEF ViewInv, ReactOK
  <2> QED
    BY <1>n, <2>1, <2>2
<1>b. /\ \A m : m # m0 => ToView(m, 0)' = ToView(m, 0)
      /\ \A f, m : Seen(f, m)' = Seen(f, m)
      /\ \A f, m : Hidden(f, m)' <=> Hidden(f, m)
  BY <1>r, <1>u DEF ToView, Seen, Hidden
<1>c. \A f \in Fields : \A m :
          \/ m = m0 /\ Is(r, Changes[f]) /\ (f = "mine" => p0 = Viewer)
          \/ Stored(f, m)' = Stored(f, m)
  <2> SUFFICES ASSUME NEW f \in Fields, NEW m
               PROVE  \/ m = m0 /\ Is(r, Changes[f]) /\ (f = "mine" => p0 = Viewer)
                      \/ Stored(f, m)' = Stored(f, m)
    OBVIOUS
  <2>1. CASE m # m0
    BY <1>b, <2>1 DEF Stored
  <2>2. CASE m = m0 /\ f \in {"text", "deleted", "pinned"}
    BY <1>u, <2>2 DEF Stored, ToView
  <2>3. CASE m = m0 /\ f = "count"
    BY <2>3 DEF Changes, Is
  <2>4. CASE m = m0 /\ f = "mine"
    <3>1. CASE p0 = Viewer
      BY <2>4, <3>1 DEF Changes, Is
    <3>2. CASE p0 # Viewer
      <4>1. By(m0, Viewer)' = By(m0, Viewer)
        BY <1>r, <3>2
      <4>2. ToView(m0, 0).mine' = ToView(m0, 0).mine
        BY <4>1 DEF ToView
      <4> QED
        BY <2>4, <4>2 DEF Stored
    <3> QED
      BY <3>1, <3>2
  <2> QED
    BY <2>1, <2>2, <2>3, <2>4 DEF Fields
<1>1. \A s \in Handlers : \A f \in Fields : \A m : Owes(s, f, m) => Owes(s, f, m)'
  BY <1>0, <1>w DEF Owes, Written, At, Is
<1>2. \A s \in Handlers : \A m : Creates(s, m)' <=> Creates(s, m)
  <2>1. \A s \in Handlers : s # r => \A m : Creates(s, m)' <=> Creates(s, m)
    BY <1>0 DEF Creates, At, Is
  <2>2. \A m : ~Creates(r, m) /\ ~Creates(r, m)'
    BY <1>q DEF Creates, At
  <2> QED
    BY <2>1, <2>2
<1>3. SaysOK'
  <2>1. ASSUME NEW f \in Fields, NEW m \in DOMAIN rows, Says(f, m) PROVE Says(f, m)'
    <3>1. CASE m = m0 /\ Is(r, Changes[f]) /\ (f = "mine" => p0 = Viewer)
      <4>1. Owes(r, f, m)'
        BY <1>q, <3>1 DEF Owes, Written, At, Is
      <4> QED
        BY <4>1 DEF Says
    <3>2. CASE Stored(f, m)' = Stored(f, m)
      BY <1>1, <1>b, <1>u, <2>1, <3>2 DEF Says
    <3> QED
      BY <1>c, <3>1, <3>2
  <2> QED
    BY <1>u, <2>1 DEF SaysOK, ViewInv
<1>4. ShownOK'
  <2>1. \A m : Shown(m) => Shown(m)'
    BY <1>2, <1>u DEF Shown
  <2> QED
    BY <1>u, <2>1 DEF ShownOK, ViewInv
<1>5. NonceOK'
  <2>1. \A m, n : Named(m, n)' <=> Named(m, n)
    <3>1. \A s \in Handlers : req'[s].no = req[s].no
      BY <1>0, <1>q
    <3> QED
      BY <1>2, <1>u, <3>1 DEF Named
  <2>2. \A s \in Handlers : req'[s].no = req[s].no
    BY <1>0, <1>q
  <2> QED
    BY <1>2, <1>u, <2>1, <2>2 DEF NonceOK, ViewInv
<1>6. ApartOK'
  <2>1. \A s \in Handlers : s # r => About(s)'
    BY <1>0, <1>u DEF ViewInv, ApartOK, About, At, Is
  <2>2. About(r)'
    <3>1. "count" \in ChatStages["react"]
      BY DEF ChatStages
    <3> QED
      BY <1>d, <1>n, <1>q, <1>u, <3>1 DEF About, At, Is
  <2>3. \A s \in Handlers : req'[s].msg = req[s].msg /\ req'[s].kind = req[s].kind
    BY <1>0, <1>n, <1>q DEF Is
  <2> QED
    BY <2>1, <2>2, <2>3 DEF ViewInv, ApartOK, Is
<1>7. IdsOK'
  <2>1. \A x \in reactions' : x.msg \in DOMAIN rows /\ x.id \in 1 .. received
    BY <1>d, <1>r DEF ViewInv, IdsOK
  <2> QED
    BY <1>u, <2>1 DEF ViewInv, IdsOK
<1>a. ASSUME NEW s \in Handlers, s # r
      PROVE  req[s].msg # m0 \/ (req[s].kind # "react" /\ req[s].kind # "create")
  <2>1. 0 \notin DOMAIN rows
    BY ChatFacts
  <2> QED
    BY <1>a, <1>d, <1>n, <2>1 DEF ViewInv, ApartOK, Is
<1>8. EmitOK'
  <2>1. ASSUME NEW s \in Handlers, s # r, At(s, "emit")' PROVE Announces(s)'
    <3>1. At(s, "emit") /\ Announces(s) /\ req'[s] = req[s]
      BY <1>0, <2>1 DEF ViewInv, EmitOK, At
    <3>2. CASE req[s].msg # m0
      <4>1. On(req[s].msg)' = On(req[s].msg)
        <5>1. PICK k : k = req[s].msg
          OBVIOUS
        <5> QED
          BY <1>r, <3>1, <3>2, <5>1 DEF On
      <4> QED
        BY <1>u, <3>1, <4>1 DEF Announces, Is
    <3>3. CASE req[s].kind # "react" /\ req[s].kind # "create"
      BY <1>u, <3>1, <3>3 DEF Announces, Is
    <3> QED
      BY <1>a, <2>1, <3>2, <3>3
  <2>2. ~At(r, "emit")'
    BY <1>q DEF At
  <2> QED
    BY <2>1, <2>2 DEF EmitOK
<1>9. ReactOK'
  <2>1. ASSUME NEW s \in Handlers, s # r, Is(s, "react")' PROVE Toggles(s)'
    <3>1. Is(s, "react") /\ Toggles(s) /\ req'[s] = req[s] /\ req[s].msg # m0
      BY <1>0, <1>a, <2>1 DEF ViewInv, ReactOK, Is
    <3>2. PICK k, p : k = req[s].msg /\ p = req[s].who
      OBVIOUS
    <3>3. By(k, p)' = By(k, p)
      BY <1>r, <3>1, <3>2
    <3>4. req[s].no # req[r].no
      BY <1>d, <2>1 DEF ViewInv, NonceOK
    <3>5. ~Written(s) => \A x \in reactions' : x.id # req[s].no
      BY <1>r, <3>1, <3>4 DEF Toggles
    <3>6. Written(s)' <=> Written(s)
      BY <3>1 DEF Written, At
    <3>7. By(req[s].msg, req[s].who)' = By(req[s].msg, req[s].who)
      BY <3>1, <3>2, <3>3
    <3> QED
      BY <3>1, <3>5, <3>6, <3>7 DEF Toggles, At
  <2>2. Toggles(r)'
    <3>1. By(req[r].msg, req[r].who)' = By(m0, p0)'
      BY <1>q
    <3> QED
      BY <1>q, <1>r, <3>1 DEF Toggles, Written, At
  <2> QED
    BY <1>r, <2>1, <2>2 DEF ReactOK
<1>10. PhaseOK'
  <2>1. ~Quiet
    BY DEF Quiet, AtRest, At
  <2>2. history # "asked"
    BY <2>1 DEF ViewInv, PhaseOK, Open, Closed
  <2> QED
    BY <1>u, <2>1, <2>2 DEF ViewInv, PhaseOK, Open, Closed
<1> QED
  BY <1>3, <1>4, <1>5, <1>6, <1>7, <1>8, <1>9, <1>10 DEF ViewInv

-----------------------------------------------------------------------------
(* A request arrives.                                                      *)

LEMMA ArriveView ==
    ASSUME ChatTypes, NamesInv, ViewInv, NEW r \in Handlers, NEW q \in Request,
           Arrive(r, q), Open \/ Closed,
           items' = items \/ items' = items \cup {Optimistic(received + 1)},
           q.no = received + 1, q.found = 0,
           \/ q.kind = "create" /\ q.stage = "guard" /\ q.msg = 0
           \/ /\ q.kind \in {"edit", "delete", "pin", "react"} /\ q.msg \in DOMAIN rows
              /\ q.stage = IF q.kind = "react" THEN "guard" ELSE "find"
              /\ Apart(q.kind, q.msg)
    PROVE  ViewInv'
<1>0. /\ req \in [Handlers -> Request] /\ req'[r] = q /\ At(r, "idle")
      /\ \A s \in Handlers : s # r => req'[s] = req[s]
  BY ChatFacts DEF Arrive
<1>u. /\ rows' = rows /\ reactions' = reactions /\ inbox' = inbox /\ received' = received + 1
      /\ subscribed' = subscribed /\ history' = history /\ page' = page
  BY DEF Arrive, server
<1>d. /\ received \in Nat /\ Len(rows) \in Nat /\ DOMAIN rows = 1 .. Len(rows)
      /\ \A s \in Handlers : /\ req[s].no \in Nat /\ req[s].no <= received
                             /\ req[s].msg \in Nat /\ About(s)
      /\ \A x \in items : x.id \in Int /\ x.nonce \in Nat /\ x.nonce <= received
      /\ \A i \in 1 .. Len(inbox) : inbox[i].type = "created" =>
            inbox[i].item.nonce \in Nat /\ inbox[i].item.nonce <= received
  <2>1. \A i \in 1 .. Len(inbox) : inbox[i].type = "created" => inbox[i].item \in Item
    BY ChatFacts DEF Event
  <2> QED
    BY <2>1, ChatFacts DEF NamesInv, Numbered, ViewInv, ApartOK
<1>o. \A x \in items' : x \in items \/ (x.id \in Int /\ x.id < 0)
  <2>1. Optimistic(received + 1).id = -(received + 1)
    BY DEF Optimistic
  <2> QED
    BY <1>d, <2>1
<1>b. /\ \A m : On(m)' = On(m)
      /\ \A m, p : By(m, p)' = By(m, p)
      /\ \A m \in DOMAIN rows : \A f : Seen(f, m)' = Seen(f, m)
      /\ \A m : ToView(m, 0)' = ToView(m, 0)
      /\ \A f, m : Stored(f, m)' = Stored(f, m)
      /\ \A f, m : Hidden(f, m)' <=> Hidden(f, m)
  <2>1. /\ \A m : On(m)' = On(m)
        /\ \A m, p : By(m, p)' = By(m, p)
    BY <1>u DEF On, By
  <2>2. \A m : ToView(m, 0)' = ToView(m, 0)
    BY <1>u, <2>1 DEF ToView
  <2>3. ASSUME NEW m \in DOMAIN rows, NEW f PROVE Seen(f, m)' = Seen(f, m)
    <3>1. {y \in items' : y.id = m} = {y \in items : y.id = m}
      BY <1>d, <1>o
    <3> QED
      BY <3>1 DEF Seen
  <2> QED
    BY <1>u, <2>1, <2>2, <2>3 DEF Stored, Hidden
<1>1. \A s \in Handlers : \A f \in Fields : \A m : Owes(s, f, m) => Owes(s, f, m)'
  <2>1. ~Written(r)
    BY <1>0 DEF Written, At
  <2> QED
    BY <1>0, <2>1 DEF Owes, Written, At, Is
<1>2. \A s \in Handlers : \A m : /\ Creates(s, m)' <=> Creates(s, m)
                                 /\ Creates(s, m) => s # r
  <2>1. \A s \in Handlers : s # r => \A m : Creates(s, m)' <=> Creates(s, m)
    BY <1>0 DEF Creates, At, Is
  <2>2. \A m : ~Creates(r, m) /\ ~Creates(r, m)'
    BY <1>0 DEF Creates, At
  <2> QED
    BY <2>1, <2>2
<1>3. SaysOK'
  <2>1. \A f \in Fields, m \in DOMAIN rows : Says(f, m) => Says(f, m)'
    BY <1>1, <1>b, <1>u DEF Says
  <2> QED
    BY <1>u, <2>1 DEF SaysOK, ViewInv
<1>4. ShownOK'
  <2>1. \A m : Shown(m) => Shown(m)'
    BY <1>2, <1>u DEF Shown
  <2> QED
    BY <1>u, <2>1 DEF ShownOK, ViewInv
<1>5. NonceOK'
  <2>1. \A m \in DOMAIN rows : \A n : Named(m, n)' => Named(m, n) /\ n <= received
    <3> SUFFICES ASSUME NEW m \in DOMAIN rows, NEW n, Named(m, n)'
                 PROVE  Named(m, n) /\ n <= received
      OBVIOUS
    <3>1. CASE \E x \in items' : x.id = m /\ x.nonce = n
      BY <1>d, <1>o, <3>1 DEF Named
    <3>2. CASE \E s \in Handlers : Creates(s, m)' /\ req'[s].no = n
      BY <1>0, <1>2, <1>d, <3>2 DEF Named
    <3>3. CASE \E i \in 1 .. Len(inbox) : Brings(inbox[i], m) /\ inbox[i].item.nonce = n
      BY <1>d, <3>3 DEF Named, Brings
    <3> QED
      BY <1>u, <3>1, <3>2, <3>3 DEF Named
  <2>2. /\ \A s \in Handlers : s # r => req'[s].no = req[s].no
        /\ req'[r].no = received + 1
    BY <1>0
  <2>3. \A s, t \in Handlers : req'[s].no # 0 /\ req'[s].no = req'[t].no => s = t
    BY <1>d, <2>2 DEF ViewInv, NonceOK
  <2>4. ASSUME NEW s \in Handlers, NEW m \in DOMAIN rows, NEW n \in 1 .. received + 1,
               Named(m, n)', req'[s].no = n
        PROVE  Creates(s, m)'
    <3>1. Named(m, n) /\ n \in 1 .. received /\ s # r /\ req[s].no = n
      BY <1>d, <2>1, <2>2, <2>4
    <3> QED
      BY <1>2, <3>1 DEF ViewInv, NonceOK
  <2>5. ASSUME NEW m \in DOMAIN rows, NEW k \in DOMAIN rows, NEW n \in 1 .. received + 1,
               Named(m, n)', Named(k, n)'
        PROVE  m = k
    <3>1. Named(m, n) /\ Named(k, n) /\ n \in 1 .. received
      BY <1>d, <2>1, <2>5
    <3> QED
      BY <3>1 DEF ViewInv, NonceOK
  <2> QED
    BY <1>u, <2>3, <2>4, <2>5 DEF NonceOK
<1>6. ApartOK'
  <2>1. \A s \in Handlers : s # r => About(s)'
    BY <1>0, <1>d, <1>u DEF About, At, Is
  <2>2. About(r)'
    <3>1. /\ q.stage \in ChatStages[q.kind] /\ q.kind # "none" /\ q.stage # "emit"
          /\ q.msg <= Len(rows) /\ q.no # 0 /\ (q.msg = 0 <=> q.kind = "create")
      <4>1. q.no # 0
        BY <1>d
      <4>2. q.msg <= Len(rows) /\ (q.msg = 0 <=> q.kind = "create")
        BY <1>d
      <4> QED
        BY <4>1, <4>2 DEF ChatStages
    <3> QED
      BY <1>0, <1>u, <3>1 DEF About, At, Is
  <2>3. q.msg = 0 \/ \A s \in Handlers : req[s].msg = q.msg => ~Is(s, q.kind) /\ ~Is(s, "create")
    BY DEF Apart
  <2>4. q.msg # 0 => q.kind # "create"
    OBVIOUS
  <2> QED
    BY <1>0, <2>1, <2>2, <2>3, <2>4 DEF ViewInv, ApartOK, Is
<1>7. IdsOK'
  <2>1. \A x \in items' : x.id <= Len(rows)
    BY <1>d, <1>o DEF ViewInv, IdsOK
  <2>2. \A x \in reactions : x.id \in 1 .. received + 1
    BY <1>d DEF ViewInv, IdsOK
  <2> QED
    BY <1>u, <2>1, <2>2 DEF ViewInv, IdsOK
<1>8. EmitOK'
  <2>1. \A s \in Handlers : s # r => (At(s, "emit")' => Announces(s)')
    BY <1>0, <1>u, <1>b DEF ViewInv, EmitOK, Announces, At, Is
  <2> QED
    BY <1>0, <2>1 DEF EmitOK, At
<1>9. ReactOK'
  <2>1. \A s \in Handlers : s # r => (Is(s, "react")' => Toggles(s)')
    BY <1>0, <1>u, <1>b DEF ViewInv, ReactOK, Toggles, Written, At, Is
  <2>2. Is(r, "react")' => Toggles(r)'
    <3>1. \A x \in reactions : x.id # received + 1
      BY <1>d DEF ViewInv, IdsOK
    <3> QED
      BY <1>0, <1>u, <3>1 DEF Toggles, Written, At, Is
  <2> QED
    BY <1>u, <2>1, <2>2 DEF ViewInv, ReactOK
<1>10. PhaseOK'
  BY <1>u DEF ViewInv, PhaseOK, Open, Closed
<1> QED
  BY <1>3, <1>4, <1>5, <1>6, <1>7, <1>8, <1>9, <1>10 DEF ViewInv

-----------------------------------------------------------------------------
(* A broadcast arrives.                                                    *)

LEMMA PatchSeen ==
    ASSUME NEW k, NEW c, \A x \in items : x.id = k => c[x].id = k,
           items' = {IF x.id = k THEN c[x] ELSE x : x \in items}, NEW f, NEW m
    PROVE  \A v \in Seen(f, m)' : IF m = k THEN \E x \in items : x.id = k /\ v = c[x][f]
                                           ELSE v \in Seen(f, m)
<1> SUFFICES ASSUME NEW v \in Seen(f, m)'
             PROVE  IF m = k THEN \E x \in items : x.id = k /\ v = c[x][f] ELSE v \in Seen(f, m)
  OBVIOUS
<1>1. PICK y \in items' : y.id = m /\ v = y[f]
  BY DEF Seen
<1>2. PICK x \in items : y = IF x.id = k THEN c[x] ELSE x
  BY <1>1
<1>3. CASE x.id = k
  BY <1>1, <1>2, <1>3
<1>4. CASE x.id # k
  BY <1>1, <1>2, <1>4 DEF Seen
<1> QED
  BY <1>3, <1>4

LEMMA SeenDelivered ==
    ASSUME ChatTypes, ViewInv, inbox # <<>>, history = "loaded", Deliver,
           NEW f \in Fields, NEW m \in DOMAIN rows, ~Hidden(f, m)
    PROVE  IF Sets(Head(inbox), f, m) THEN Seen(f, m)' \subseteq {Value(Head(inbox), f)}
                                      ELSE Seen(f, m)' \subseteq Seen(f, m)
<1>e. PICK e : e = Head(inbox)
  OBVIOUS
<1>0. /\ e \in Event /\ items \subseteq Item /\ Target(e) \in DOMAIN rows
      /\ e.type = "deleted" => rows[e.msg].deleted
  <2>1. inbox \in Seq(Event) /\ Len(inbox) \in Nat /\ Len(inbox) > 0 /\ e = inbox[1]
    BY <1>e, ChatFacts, HeadTailProperties, EmptySeq
  <2>2. 1 \in 1 .. Len(inbox)
    BY <2>1
  <2> QED
    BY <2>1, <2>2, ChatFacts DEF ViewInv, IdsOK
<1>i. \A x \in Item : /\ x.text \in Nat /\ x.deleted \in BOOLEAN /\ x.pinned \in BOOLEAN
                      /\ x.count \in Nat /\ x.mine \in BOOLEAN
  BY DEF Item
<1>c. \/ f = "text" /\ Carries[f] = "edited"
      \/ f = "deleted" /\ Carries[f] = "deleted"
      \/ f = "pinned" /\ Carries[f] = "pinned"
      \/ f = "count" /\ Carries[f] = "reaction"
      \/ f = "mine" /\ Carries[f] = "reaction"
  BY DEF Fields, Carries
<1>s. \A x \in items : x.id = m => x[f] \in Seen(f, m)
  BY DEF Seen
<1> SUFFICES IF Sets(e, f, m) THEN Seen(f, m)' \subseteq {Value(e, f)}
                              ELSE Seen(f, m)' \subseteq Seen(f, m)
  BY <1>e
<1>1. CASE e.type = "created"
  <2>1. items' = PrependMessage(e.item) /\ e.item \in Item
    BY <1>0, <1>1, <1>e DEF Deliver, Event
  <2>2. CASE e.item.id = m
    <3>1. \A x \in items' : x.id = m => x = e.item
      BY <2>1, <2>2 DEF PrependMessage
    <3> QED
      BY <1>1, <2>2, <3>1 DEF Sets, Seen, Value
  <2>3. CASE e.item.id # m
    <3>1. \A x \in items' : x.id = m => x \in items
      BY <2>1, <2>3 DEF PrependMessage
    <3>2. ~Sets(e, f, m)
      BY <1>1, <1>c, <2>3 DEF Sets
    <3> QED
      BY <3>1, <3>2 DEF Seen
  <2> QED
    BY <2>2, <2>3
<1>2. CASE e.type = "edited"
  <2>c. PICK k, c : k = e.msg /\ c = [x \in items |-> [x EXCEPT !.text = e.text]]
    OBVIOUS
  <2>1. items' = {IF x.id = k THEN c[x] ELSE x : x \in items}
    BY <1>2, <1>e, <2>c DEF Deliver, OnEdited, PatchMessages
  <2>2. \A x \in items : c[x].id = x.id /\ c[x].text = e.text /\ (f # "text" => c[x][f] = x[f])
    BY <1>0, <2>c DEF Item, Fields
  <2>3. \A v \in Seen(f, m)' : IF m = k THEN \E x \in items : x.id = k /\ v = c[x][f]
                                        ELSE v \in Seen(f, m)
    <3>1. \A x \in items : x.id = k => c[x].id = k
      BY <2>2
    <3> QED
      BY <2>1, <3>1, PatchSeen
  <2>4. Sets(e, f, m) <=> f = "text" /\ k = m
    BY <1>2, <1>c, <2>c DEF Sets
  <2>5. f = "text" => Value(e, f) = e.text
    BY <1>2 DEF Value
  <2> QED
    BY <1>s, <2>2, <2>3, <2>4, <2>5
<1>3. CASE e.type = "deleted"
  <2>c. PICK k, c : k = e.msg /\ c = [x \in items |-> [x EXCEPT !.deleted = TRUE, !.text = 0]]
    OBVIOUS
  <2>1. items' = {IF x.id = k THEN c[x] ELSE x : x \in items}
    BY <1>3, <1>e, <2>c DEF Deliver, OnDeleted, PatchMessages
  <2>2. \A x \in items : /\ c[x].id = x.id /\ (f = "deleted" => c[x][f] = TRUE)
                         /\ f \notin {"text", "deleted"} => c[x][f] = x[f]
    BY <1>0, <2>c DEF Item, Fields
  <2>3. \A v \in Seen(f, m)' : IF m = k THEN \E x \in items : x.id = k /\ v = c[x][f]
                                        ELSE v \in Seen(f, m)
    <3>1. \A x \in items : x.id = k => c[x].id = k
      BY <2>2
    <3> QED
      BY <2>1, <3>1, PatchSeen
  <2>4. Sets(e, f, m) <=> f = "deleted" /\ k = m
    BY <1>3, <1>c, <2>c DEF Sets
  <2>5. f = "deleted" => Value(e, f) = TRUE
    BY <1>3 DEF Value
  <2>6. m = k => f # "text"
    BY <1>0, <1>3, <2>c DEF Hidden
  <2>7. CASE f = "deleted"
    BY <1>s, <2>2, <2>3, <2>4, <2>5, <2>7
  <2>8. CASE f # "deleted"
    BY <1>s, <2>2, <2>3, <2>4, <2>6, <2>8
  <2> QED
    BY <2>7, <2>8
<1>4. CASE e.type = "pinned"
  <2>c. PICK k, c : k = e.msg /\ c = [x \in items |-> [x EXCEPT !.pinned = e.pinned]]
    OBVIOUS
  <2>1. items' = {IF x.id = k THEN c[x] ELSE x : x \in items}
    BY <1>4, <1>e, <2>c DEF Deliver, OnPinned, PatchMessages
  <2>2. \A x \in items : /\ c[x].id = x.id /\ c[x].pinned = e.pinned
                         /\ f # "pinned" => c[x][f] = x[f]
    BY <1>0, <2>c DEF Item, Fields
  <2>3. \A v \in Seen(f, m)' : IF m = k THEN \E x \in items : x.id = k /\ v = c[x][f]
                                        ELSE v \in Seen(f, m)
    <3>1. \A x \in items : x.id = k => c[x].id = k
      BY <2>2
    <3> QED
      BY <2>1, <3>1, PatchSeen
  <2>4. Sets(e, f, m) <=> f = "pinned" /\ k = m
    BY <1>4, <1>c, <2>c DEF Sets
  <2>5. f = "pinned" => Value(e, f) = e.pinned
    BY <1>4 DEF Value
  <2> QED
    BY <1>s, <2>2, <2>3, <2>4, <2>5
<1>5. CASE e.type = "reaction"
  <2>0. e.count \in Nat /\ e.added \in BOOLEAN
    BY <1>0, <1>5 DEF Event
  <2> DEFINE mine(x) == e.count > 0 /\ (IF e.by = Viewer THEN e.added ELSE x.mine)
  <2>c. PICK k, c :
           /\ k = e.msg
           /\ c = [x \in items |-> [x EXCEPT !.count = e.count, !.mine = mine(x)]]
    OBVIOUS
  <2>1. items' = {IF x.id = k THEN c[x] ELSE x : x \in items}
    BY <1>5, <1>e, <2>c DEF Deliver, OnReaction, PatchMessages
  <2>2. \A x \in items : /\ c[x].id = x.id /\ c[x].count = e.count /\ c[x].mine = mine(x)
                         /\ f \notin {"count", "mine"} => c[x][f] = x[f]
    BY <1>0, <2>c DEF Item, Fields
  <2>3. \A v \in Seen(f, m)' : IF m = k THEN \E x \in items : x.id = k /\ v = c[x][f]
                                        ELSE v \in Seen(f, m)
    <3>1. \A x \in items : x.id = k => c[x].id = k
      BY <2>2
    <3> QED
      BY <2>1, <3>1, PatchSeen
  <2>4. Sets(e, f, m) <=> /\ k = m
                          /\ f = "count" \/ (f = "mine" /\ (e.by = Viewer \/ e.count = 0))
    BY <1>5, <1>c, <2>c DEF Sets
  <2>5. /\ f = "count" => Value(e, f) = e.count
        /\ f = "mine" => Value(e, f) = (e.count > 0 /\ e.added)
    BY <1>5 DEF Value
  <2>6. CASE f # "mine"
    BY <1>s, <2>2, <2>3, <2>4, <2>5, <2>6
  <2>7. CASE f = "mine" /\ (e.by = Viewer \/ e.count = 0)
    <3>1. \A x \in items : mine(x) = (e.count > 0 /\ e.added)
      BY <2>0, <2>7
    <3> HIDE DEF mine
    <3> QED
      BY <1>s, <2>2, <2>3, <2>4, <2>5, <2>7, <3>1
  <2>8. CASE f = "mine" /\ e.by # Viewer /\ e.count # 0
    <3>1. \A x \in items : mine(x) = x.mine
      BY <1>0, <1>i, <2>0, <2>8
    <3> HIDE DEF mine
    <3> QED
      BY <1>s, <2>2, <2>3, <2>4, <2>8, <3>1
  <2> QED
    BY <2>6, <2>7, <2>8
<1> QED
  BY <1>0, <1>1, <1>2, <1>3, <1>4, <1>5 DEF Event

LEMMA DeliverView ==
    ASSUME ChatTypes, NamesInv, ViewInv, Deliver
    PROVE  ViewInv'
<1>e. PICK e : e = Head(inbox)
  OBVIOUS
<1>0. /\ inbox \in Seq(Event) /\ inbox # <<>> /\ Len(inbox) \in Nat /\ Len(inbox) > 0
      /\ inbox' = Tail(inbox) /\ Len(inbox') = Len(inbox) - 1 /\ inbox[1] = e /\ e \in Event
      /\ \A i \in 1 .. Len(inbox') : inbox'[i] = inbox[i + 1] /\ i + 1 \in 1 .. Len(inbox)
      /\ 1 \in 1 .. Len(inbox)
  <2>1. inbox \in Seq(Event) /\ inbox # <<>> /\ inbox' = Tail(inbox)
    BY ChatFacts DEF Deliver
  <2>2. /\ Len(inbox) \in Nat /\ Len(inbox) > 0 /\ Len(inbox') = Len(inbox) - 1 /\ inbox[1] = e
        /\ \A i \in 1 .. Len(inbox') : inbox'[i] = inbox[i + 1]
    BY <1>e, <2>1, HeadTailProperties, EmptySeq
  <2>3. 1 \in 1 .. Len(inbox)
    BY <2>2
  <2>4. e \in Event
    BY <2>1, <2>2, <2>3, ChatFacts
  <2> QED
    BY <2>1, <2>2, <2>3, <2>4
<1>u. /\ rows' = rows /\ reactions' = reactions /\ received' = received /\ req' = req
      /\ subscribed' = subscribed /\ history' = history /\ page' = page
  BY DEF Deliver, server
<1>p. subscribed /\ history = "loaded"
  BY <1>0 DEF ViewInv, PhaseOK, Open, Closed, Quiet
<1>b. /\ \A m : On(m)' = On(m)
      /\ \A m, p : By(m, p)' = By(m, p)
      /\ \A f, m : Stored(f, m)' = Stored(f, m)
      /\ \A f, m : Hidden(f, m)' <=> Hidden(f, m)
  <2>1. /\ \A m : On(m)' = On(m)
        /\ \A m, p : By(m, p)' = By(m, p)
    BY <1>u DEF On, By
  <2>2. \A m : ToView(m, 0)' = ToView(m, 0)
    BY <1>u, <2>1 DEF ToView
  <2> QED
    BY <1>u, <2>1, <2>2 DEF Stored, Hidden
<1>h. /\ \A r, m : Creates(r, m)' <=> Creates(r, m)
      /\ \A r, f, m : Owes(r, f, m)' <=> Owes(r, f, m)
  BY <1>u DEF Creates, Owes, Written, At, Is
<1>i. /\ Target(e) \in DOMAIN rows
      /\ e.type = "created" => e.item.id \in DOMAIN rows /\ e.item \in Item /\ e.item.nonce \in Nat
                               /\ e.item.nonce <= received
  <2>1. Target(e) \in DOMAIN rows
    BY <1>0 DEF ViewInv, IdsOK
  <2>2. e.type = "created" => e.item \in Item
    BY <1>0 DEF Event
  <2> QED
    BY <1>0, <2>1, <2>2, ChatFacts DEF Target, NamesInv, Numbered
\* What becomes of the list: every row of it but the one replaced stays.
<1>x. /\ \A y \in items' : \/ \E x \in items : x.id = y.id /\ x.nonce = y.nonce
                           \/ e.type = "created" /\ y = e.item
      /\ \A x \in items : \/ \E y \in items' : y.id = x.id
                          \/ /\ e.type = "created" /\ e.item.nonce # 0
                             /\ x.nonce = e.item.nonce /\ x.id # e.item.id
      /\ e.type = "created" => e.item \in items'
  <2>0. items \subseteq Item
    BY ChatFacts
  <2>1. CASE e.type = "created"
    <3>1. items' = PrependMessage(e.item)
      BY <1>e, <1>p, <2>1 DEF Deliver
    <3> QED
      BY <2>1, <3>1 DEF PrependMessage
  <2>2. CASE e.type # "created"
    <3>1. \A x \in Item : \A t, b :
             /\ [x EXCEPT !.text = t].id = x.id /\ [x EXCEPT !.text = t].nonce = x.nonce
             /\ [x EXCEPT !.pinned = b].id = x.id /\ [x EXCEPT !.pinned = b].nonce = x.nonce
             /\ [x EXCEPT !.deleted = b, !.text = t].id = x.id
             /\ [x EXCEPT !.deleted = b, !.text = t].nonce = x.nonce
             /\ [x EXCEPT !.count = t, !.mine = b].id = x.id
             /\ [x EXCEPT !.count = t, !.mine = b].nonce = x.nonce
      BY DEF Item
    <3>2. PICK c : /\ items' = {IF x.id = e.msg THEN c[x] ELSE x : x \in items}
                   /\ \A x \in items : c[x].id = x.id /\ c[x].nonce = x.nonce
      <4>1. CASE e.type = "edited"
        <5>1. items' = {IF x.id = e.msg THEN [x EXCEPT !.text = e.text] ELSE x : x \in items}
          BY <1>e, <1>p, <4>1 DEF Deliver, OnEdited, PatchMessages
        <5> WITNESS [x \in items |-> [x EXCEPT !.text = e.text]]
        <5> QED
          BY <2>0, <3>1, <5>1
      <4>2. CASE e.type = "deleted"
        <5>1. items' = {IF x.id = e.msg THEN [x EXCEPT !.deleted = TRUE, !.text = 0] ELSE x :
                          x \in items}
          BY <1>e, <1>p, <4>2 DEF Deliver, OnDeleted, PatchMessages
        <5>2. \A x \in items : LET y == [x EXCEPT !.deleted = TRUE, !.text = 0] IN
                y.id = x.id /\ y.nonce = x.nonce
          BY <2>0, <3>1
        <5> WITNESS [x \in items |-> [x EXCEPT !.deleted = TRUE, !.text = 0]]
        <5> QED
          BY <5>1, <5>2
      <4>3. CASE e.type = "pinned"
        <5>1. items' = {IF x.id = e.msg THEN [x EXCEPT !.pinned = e.pinned] ELSE x : x \in items}
          BY <1>e, <1>p, <4>3 DEF Deliver, OnPinned, PatchMessages
        <5> WITNESS [x \in items |-> [x EXCEPT !.pinned = e.pinned]]
        <5> QED
          BY <2>0, <3>1, <5>1
      <4>4. CASE e.type = "reaction"
        <5> DEFINE mine(x) == e.count > 0 /\ (IF e.by = Viewer THEN e.added ELSE x.mine)
        <5>1. items' = {IF x.id = e.msg THEN [x EXCEPT !.count = e.count, !.mine = mine(x)] ELSE x :
                          x \in items}
          BY <1>e, <1>p, <4>4 DEF Deliver, OnReaction, PatchMessages
        <5>2. \A x \in items : LET y == [x EXCEPT !.count = e.count, !.mine = mine(x)] IN
                y.id = x.id /\ y.nonce = x.nonce
          BY <2>0, <3>1
        <5> HIDE DEF mine
        <5> WITNESS [x \in items |-> [x EXCEPT !.count = e.count, !.mine = mine(x)]]
        <5> QED
          BY <5>1, <5>2
      <4> QED
        BY <1>0, <2>2, <4>1, <4>2, <4>3, <4>4 DEF Event
    <3> QED
      BY <2>2, <3>2
  <2> QED
    BY <2>1, <2>2
<1>1. SaysOK'
  <2> SUFFICES ASSUME NEW f \in Fields, NEW m \in DOMAIN rows PROVE Says(f, m)'
    BY <1>u DEF SaysOK
  <2>1. Says(f, m)
    BY <1>p DEF ViewInv, SaysOK
  <2>2. CASE ~Hidden(f, m) /\ LastWord(inbox, f, m, Seen(f, m), Stored(f, m))
    <3>1. IF Sets(Head(inbox), f, m) THEN Seen(f, m)' \subseteq {Value(Head(inbox), f)}
                                     ELSE Seen(f, m)' \subseteq Seen(f, m)
      BY <1>0, <1>p, <2>2, SeenDelivered
    <3>2. LastWord(Tail(inbox), f, m, Seen(f, m)', Stored(f, m))
      BY <1>0, <2>2, <3>1, LastWordDelivered
    <3> QED
      BY <1>0, <1>b, <3>2 DEF Says
  <2> QED
    BY <1>b, <1>h, <2>1, <2>2 DEF Says
<1>2. ShownOK'
  <2> SUFFICES ASSUME NEW m \in DOMAIN rows PROVE Shown(m)'
    BY <1>u DEF ShownOK
  <2>1. Shown(m)
    BY <1>p DEF ViewInv, ShownOK
  <2>2. ASSUME NEW x \in items, x.id = m PROVE Shown(m)'
    <3>1. CASE \E y \in items' : y.id = x.id
      BY <2>2, <3>1 DEF Shown
    <3>2. CASE /\ e.type = "created" /\ e.item.nonce # 0
               /\ x.nonce = e.item.nonce /\ x.id # e.item.id
      <4>1. PICK k, n : k = e.item.id /\ n = e.item.nonce
        OBVIOUS
      <4>2. Named(m, n) /\ Named(k, n)
        BY <1>0, <2>2, <3>2, <4>1 DEF Named, Brings
      <4>3. n \in 1 .. received /\ k \in DOMAIN rows
        BY <1>i, <3>2, <4>1, ChatFacts
      <4>4. m = k
        BY <4>2, <4>3 DEF ViewInv, NonceOK
      <4> QED
        BY <2>2, <3>2, <4>1, <4>4
    <3> QED
      BY <1>x, <3>1, <3>2
  <2>3. ASSUME NEW i \in 1 .. Len(inbox), Brings(inbox[i], m) PROVE Shown(m)'
    <3>1. CASE i = 1
      BY <1>0, <1>x, <2>3, <3>1 DEF Shown, Brings
    <3>2. CASE i # 1
      <4>1. i - 1 \in 1 .. Len(inbox') /\ (i - 1) + 1 = i
        BY <1>0, <3>2
      <4>2. inbox'[i - 1] = inbox[i]
        BY <1>0, <4>1
      <4> QED
        BY <2>3, <4>1, <4>2 DEF Shown
    <3> QED
      BY <3>1, <3>2
  <2> QED
    BY <1>h, <2>1, <2>2, <2>3 DEF Shown
<1>3. NonceOK'
  <2>1. \A m \in DOMAIN rows : \A n : Named(m, n)' => Named(m, n)
    <3> SUFFICES ASSUME NEW m \in DOMAIN rows, NEW n, Named(m, n)' PROVE Named(m, n)
      OBVIOUS
    <3>1. CASE \E x \in items' : x.id = m /\ x.nonce = n
      BY <1>0, <1>x, <3>1 DEF Named, Brings
    <3>2. CASE \E r \in Handlers : Creates(r, m)' /\ req'[r].no = n
      BY <1>h, <1>u, <3>2 DEF Named
    <3>3. CASE \E i \in 1 .. Len(inbox') : Brings(inbox'[i], m) /\ inbox'[i].item.nonce = n
      BY <1>0, <3>3 DEF Named
    <3> QED
      BY <3>1, <3>2, <3>3 DEF Named
  <2> QED
    BY <1>h, <1>u, <2>1 DEF ViewInv, NonceOK
<1>4. ApartOK'
  BY <1>u DEF ViewInv, ApartOK, About, At, Is
<1>5. IdsOK'
  <2>1. \A y \in items' : y.id <= Len(rows)
    <3>1. e.type = "created" => e.item.id <= Len(rows)
      BY <1>i, ChatFacts
    <3> QED
      BY <1>x, <3>1 DEF ViewInv, IdsOK
  <2>2. \A i \in 1 .. Len(inbox') :
          /\ Target(inbox'[i]) \in DOMAIN rows
          /\ inbox'[i].type = "deleted" => rows[inbox'[i].msg].deleted
    BY <1>0 DEF ViewInv, IdsOK
  <2> QED
    BY <1>u, <2>1, <2>2 DEF ViewInv, IdsOK, Target
<1>6. EmitOK'
  BY <1>u, <1>b DEF ViewInv, EmitOK, Announces, At, Is
<1>7. ReactOK'
  BY <1>u, <1>b DEF ViewInv, ReactOK, Toggles, Written, At, Is
<1>8. PhaseOK'
  BY <1>u, <1>p DEF PhaseOK, Open
<1> QED
  BY <1>1, <1>2, <1>3, <1>4, <1>5, <1>6, <1>7, <1>8 DEF ViewInv

-----------------------------------------------------------------------------
(* The page loads and subscribes while the room is quiet, or is reloaded.  *)

LEMMA LoadingView ==
    ASSUME ChatTypes, NamesInv, ViewInv,
           Reload \/ ReceiveHistory \/ (Quiet /\ (LoadHistory \/ Subscribe))
    PROVE  ViewInv'
<1>u. rows' = rows /\ reactions' = reactions /\ received' = received /\ req' = req
  BY DEF Reload, ReceiveHistory, LoadHistory, Subscribe, server
<1>b. /\ \A m : On(m)' = On(m)
      /\ \A m, p : By(m, p)' = By(m, p)
      /\ \A m : ToView(m, 0)' = ToView(m, 0)
      /\ \A f, m : Stored(f, m)' = Stored(f, m)
      /\ \A f, m : Hidden(f, m)' <=> Hidden(f, m)
  <2>1. /\ \A m : On(m)' = On(m)
        /\ \A m, p : By(m, p)' = By(m, p)
    BY <1>u DEF On, By
  <2>2. \A m : ToView(m, 0)' = ToView(m, 0)
    BY <1>u, <2>1 DEF ToView
  <2> QED
    BY <1>u, <2>1, <2>2 DEF Stored, Hidden
<1>h. /\ \A r, m : Creates(r, m)' <=> Creates(r, m)
      /\ \A r, f, m : Owes(r, f, m)' <=> Owes(r, f, m)
  BY <1>u DEF Creates, Owes, Written, At, Is
<1>i. Len(<<>>) = 0
  BY EmptySeq
\* Whichever it is: nothing is on its way, or nothing has changed.
<1>1. \/ inbox' = <<>> /\ items' = {}
      \/ inbox' = <<>> /\ inbox = <<>> /\ items' = page /\ history' = "loaded"
            /\ page = {ToView(m, 0) : m \in DOMAIN rows}
      \/ UNCHANGED <<inbox, items>> /\ (history' # "loaded" \/ history' = history)
  <2>1. ReceiveHistory => inbox = <<>>
    BY DEF ReceiveHistory, ViewInv, PhaseOK, Open, Closed, Quiet
  <2> QED
    BY <2>1 DEF Reload, ReceiveHistory, LoadHistory, Subscribe, ViewInv, PhaseOK
<1>2. \A x \in items' : \/ x \in items
                        \/ \E m \in DOMAIN rows : x = ToView(m, 0)
  BY <1>1
<1>v. \A m : ToView(m, 0).id = m /\ ToView(m, 0).nonce = 0
  BY DEF ToView
<1>3. SaysOK'
  <2> SUFFICES ASSUME history' = "loaded", NEW f \in Fields, NEW m \in DOMAIN rows
               PROVE  Says(f, m)'
    BY <1>u DEF SaysOK
  <2>1. CASE inbox' = <<>> /\ items' = {ToView(k, 0) : k \in DOMAIN rows}
    <3>1. Seen(f, m)' \subseteq {Stored(f, m)}
      <4>1. \A x \in items' : x.id = m => x = ToView(m, 0)
        BY <1>v, <2>1
      <4> QED
        BY <4>1 DEF Seen, Stored
    <3>2. LastWord(<<>>, f, m, Seen(f, m)', Stored(f, m))
      BY <1>i, <3>1 DEF LastWord
    <3> QED
      BY <1>b, <2>1, <3>2 DEF Says
  <2>2. CASE UNCHANGED <<inbox, items>> /\ history = "loaded"
    <3>1. Says(f, m)
      BY <2>2 DEF ViewInv, SaysOK
    <3>2. Seen(f, m)' = Seen(f, m)
      BY <2>2 DEF Seen
    <3> QED
      BY <1>b, <1>h, <2>2, <3>1, <3>2 DEF Says
  <2>3. ~Reload
    BY DEF Reload
  <2> QED
    BY <2>1, <2>2, <2>3, <1>1 DEF ReceiveHistory, LoadHistory, Subscribe, ViewInv, PhaseOK
<1>4. ShownOK'
  <2> SUFFICES ASSUME history' = "loaded", NEW m \in DOMAIN rows
               PROVE  Shown(m)'
    BY <1>u DEF ShownOK
  <2>1. CASE items' = {ToView(k, 0) : k \in DOMAIN rows}
    BY <1>v, <2>1 DEF Shown
  <2>2. CASE UNCHANGED <<inbox, items>> /\ history = "loaded"
    BY <1>h, <2>2 DEF ViewInv, ShownOK, Shown
  <2>3. ~Reload
    BY DEF Reload
  <2> QED
    BY <2>1, <2>2, <2>3, <1>1 DEF ReceiveHistory, LoadHistory, Subscribe, ViewInv, PhaseOK
<1>5. NonceOK'
  <2>1. \A m \in DOMAIN rows : \A n \in 1 .. received : Named(m, n)' => Named(m, n)
    <3> SUFFICES ASSUME NEW m \in DOMAIN rows, NEW n \in 1 .. received, Named(m, n)'
                 PROVE  Named(m, n)
      OBVIOUS
    <3>1. n # 0
      BY ChatFacts
    <3>2. CASE \E x \in items' : x.id = m /\ x.nonce = n
      BY <1>2, <1>v, <3>1, <3>2 DEF Named
    <3>3. CASE \E r \in Handlers : Creates(r, m)' /\ req'[r].no = n
      BY <1>h, <1>u, <3>3 DEF Named
    <3>4. CASE \E i \in 1 .. Len(inbox') : Brings(inbox'[i], m) /\ inbox'[i].item.nonce = n
      BY <1>1, <1>i, <3>4 DEF Named
    <3> QED
      BY <3>2, <3>3, <3>4 DEF Named
  <2> QED
    BY <1>h, <1>u, <2>1 DEF ViewInv, NonceOK
<1>6. ApartOK'
  BY <1>u DEF ViewInv, ApartOK, About, At, Is
<1>7. IdsOK'
  <2>1. \A x \in items' : x.id <= Len(rows)
    BY <1>2, <1>v, ChatFacts DEF ViewInv, IdsOK
  <2>2. inbox' = <<>> \/ inbox' = inbox
    BY <1>1
  <2>3. \A i \in 1 .. Len(inbox') :
          /\ Target(inbox'[i]) \in DOMAIN rows
          /\ inbox'[i].type = "deleted" => rows[inbox'[i].msg].deleted
    BY <1>i, <2>2 DEF ViewInv, IdsOK
  <2> QED
    BY <1>u, <2>1, <2>3 DEF ViewInv, IdsOK, Target
<1>8. EmitOK'
  BY <1>u, <1>b DEF ViewInv, EmitOK, Announces, At, Is
<1>9. ReactOK'
  BY <1>u, <1>b DEF ViewInv, ReactOK, Toggles, Written, At, Is
<1>10. PhaseOK'
  <2>1. ReceiveHistory => Quiet
    BY DEF ReceiveHistory, ViewInv, PhaseOK, Open, Closed
  <2>2. (Quiet /\ inbox' = <<>>) => Quiet'
    BY <1>u DEF Quiet, AtRest, At
  <2>3. CASE Reload
    BY <2>3 DEF Reload, PhaseOK, Closed
  <2>4. CASE ReceiveHistory
    BY <2>1, <2>2, <2>4 DEF ReceiveHistory, PhaseOK, Quiet
  <2>5. CASE Quiet /\ LoadHistory
    <3>1. page' = {ToView(m, 0)' : m \in DOMAIN rows}
      BY <1>b, <2>5 DEF LoadHistory
    <3> QED
      BY <1>u, <2>2, <2>5, <3>1 DEF LoadHistory, PhaseOK, Quiet
  <2>6. CASE Quiet /\ Subscribe
    <3>1. {ToView(m, 0)' : m \in DOMAIN rows} = {ToView(m, 0) : m \in DOMAIN rows}
      BY <1>b
    <3> QED
      BY <1>u, <2>2, <2>6, <3>1 DEF Subscribe, ViewInv, PhaseOK, Quiet
  <2> QED
    BY <2>3, <2>4, <2>5, <2>6
<1> QED
  BY <1>3, <1>4, <1>5, <1>6, <1>7, <1>8, <1>9, <1>10 DEF ViewInv

-----------------------------------------------------------------------------
(* Every step.                                                             *)

LEMMA HandlerView ==
    ASSUME ChatTypes, NamesInv, ViewInv, NEW r \in Handlers, Step(r)
    PROVE  ViewInv'
<1>0. /\ req \in [Handlers -> Request] /\ req[r] \in Request /\ Idle \in Request
      /\ About(r) /\ (At(r, "count") => Is(r, "react"))
      /\ req[r].msg \in Nat /\ req[r].no \in Nat /\ req[r].found \in Nat
  BY ChatFacts DEF ViewInv, ApartOK, ChatTypes
<1>a. ~At(r, "idle")
  BY DEF Step, Guard, CountBurst, ExpireBurst, WriteMessage, AnnounceMessage, Find,
         UpdateMessage, WriteReaction, CountReactions, AnnounceChange, At
\* A handler that ends, or goes from stage to stage.
<1>f. ASSUME Finish(r), ~Written(r), Unseen PROVE ViewInv'
  <2>1. req' = [req EXCEPT ![r] = Idle] /\ Ends(r, Idle)
    BY <1>f DEF Finish, Ends
  <2> QED
    BY <1>0, <1>a, <1>f, <2>1, MovesView
<1>g. ASSUME NEW stage \in Stage, Goto(r, stage), ~Written(r), Unseen,
             stage \notin {"idle", "count", "emit"}, stage \in ChatStages[req[r].kind],
             Is(r, "react") => stage # "write" \/ req[r].found = 0,
             Is(r, "react") => At(r, "guard") \/ At(r, "find")
      PROVE  ViewInv'
  <2>1. PICK q : q = [req[r] EXCEPT !.stage = stage]
    OBVIOUS
  <2>2. /\ q \in Request /\ q.kind = req[r].kind /\ q.who = req[r].who /\ q.msg = req[r].msg
        /\ q.no = req[r].no /\ q.pinned = req[r].pinned /\ q.found = req[r].found
        /\ q.stage = stage
    BY <1>0, <2>1 DEF Request
  <2>3. req' = [req EXCEPT ![r] = q]
    BY <1>0, <1>g, <2>1 DEF Goto
  <2>4. Is(r, "react") => req[r].found = 0
    BY <1>g DEF ViewInv, ReactOK, Toggles
  <2>5. GoesOn(r, q)
    BY <1>g, <2>2, <2>4 DEF GoesOn, Is
  <2> QED
    BY <1>0, <1>a, <2>2, <2>3, <2>5, <1>g, MovesView
<1>1. CASE Guard(r)
  <2>1. Unseen /\ ~Written(r) /\ At(r, "guard")
    BY <1>1 DEF Guard, Unseen, server, Written, At
  <2>2. CASE Finish(r)
    BY <1>f, <2>1, <2>2
  <2>3. CASE Is(r, "create") /\ Goto(r, "burst")
    <3>1. "burst" \in Stage /\ "burst" \in ChatStages[req[r].kind] /\ ~Is(r, "react")
      BY <2>3 DEF Stage, ChatStages, Is
    <3> QED
      BY <1>g, <2>1, <2>3, <3>1
  <2>4. CASE Is(r, "react") /\ Goto(r, "find")
    <3>1. "find" \in Stage /\ "find" \in ChatStages[req[r].kind]
      BY <2>4 DEF Stage, ChatStages, Is
    <3> QED
      BY <1>g, <2>1, <2>4, <3>1
  <2> QED
    BY <1>1, <2>2, <2>3, <2>4 DEF Guard
<1>2. CASE CountBurst(r) \/ ExpireBurst(r)
  <2>1. Unseen /\ ~Written(r) /\ (At(r, "burst") \/ At(r, "expire"))
    BY <1>2 DEF CountBurst, ExpireBurst, Unseen, Written, At
  <2>2. Is(r, "create") /\ ~Is(r, "react")
    <3>1. req[r].kind \in Kind /\ req[r].stage \in ChatStages[req[r].kind]
      BY <1>0 DEF About, Request
    <3>2. \A kind \in Kind \ {"create"} : "burst" \notin ChatStages[kind]
                                         /\ "expire" \notin ChatStages[kind]
      BY DEF Kind, ChatStages
    <3> QED
      BY <2>1, <3>1, <3>2 DEF At, Is
  <2>3. \A stage \in {"expire", "write"} : stage \in Stage /\ stage \in ChatStages[req[r].kind]
    BY <2>2 DEF Stage, ChatStages, Is
  <2>4. Finish(r) \/ Goto(r, "expire") \/ Goto(r, "write")
    BY <1>2 DEF CountBurst, ExpireBurst
  <2> QED
    BY <1>f, <1>g, <2>1, <2>2, <2>3, <2>4
<1>3. CASE WriteMessage(r)
  <2>1. /\ ~Written(r) /\ UNCHANGED <<reactions, inbox, client, received>>
        /\ At(r, "write") /\ Is(r, "create")
    BY <1>3 DEF WriteMessage, Written, At
  <2>2. CASE Finish(r) /\ UNCHANGED rows
    BY <1>f, <2>1, <2>2 DEF Unseen
  <2>3. CASE /\ rows' = Append(rows, [author |-> req[r].who, text |-> req[r].no,
                                      deleted |-> FALSE, pinned |-> FALSE])
             /\ req' = [req EXCEPT ![r].msg = Len(rows) + 1, ![r].stage = "emit"]
    BY <2>1, <2>3, AppendView
  <2> QED
    BY <1>3, <2>2, <2>3 DEF WriteMessage
<1>4. CASE AnnounceMessage(r)
  <2>1. PICK e : e = [type |-> "created", item |-> Created(r)]
    OBVIOUS
  <2>2. /\ Created(r) \in Item /\ Created(r).id = req[r].msg /\ Created(r).nonce = req[r].no
        /\ Created(r).text = req[r].no /\ Created(r).deleted = FALSE
        /\ Created(r).pinned = FALSE /\ Created(r).count = 0 /\ Created(r).mine = FALSE
    BY <1>0 DEF Created, Item
  <2>3. e \in Event /\ e.type = "created" /\ e.item = Created(r)
    BY <2>1, <2>2 DEF Event
  <2>4. /\ At(r, "emit") /\ Is(r, "create") /\ Broadcast(e) /\ Finish(r)
        /\ UNCHANGED <<rows, reactions, client, received>>
    BY <1>4, <2>1 DEF AnnounceMessage
  <2>5. \A f \in Fields, m \in DOMAIN rows :
          /\ Owes(r, f, m) => Sets(e, f, m)
          /\ Sets(e, f, m) /\ ~Hidden(f, m) => Value(e, f) = Stored(f, m)
    <3> SUFFICES ASSUME NEW f \in Fields, NEW m \in DOMAIN rows
                 PROVE  /\ ~Owes(r, f, m)
                        /\ Sets(e, f, m) => Value(e, f) = Stored(f, m)
      OBVIOUS
    <3>1. ~Owes(r, f, m)
      BY <2>4 DEF Owes, Is, Fields, Changes
    <3>2. ASSUME Sets(e, f, m) PROVE Value(e, f) = Stored(f, m)
      <4>1. m = req[r].msg
        <5>1. Carries[f] # "created"
          BY DEF Fields, Carries
        <5> QED
          BY <2>2, <2>3, <3>2, <5>1 DEF Sets
      <4>2. /\ rows[m].text = req[r].no /\ ~rows[m].deleted /\ ~rows[m].pinned /\ On(m) = {}
        BY <2>4, <4>1 DEF ViewInv, EmitOK, Announces
      <4>3. Cardinality(On(m)) = 0 /\ By(m, Viewer) = {}
        BY <4>2, FS_EmptySet DEF By
      <4>4. rows[m] \in Row
        BY ChatFacts
      <4>5. /\ ToView(m, 0).text = req[r].no /\ ToView(m, 0).deleted = FALSE
            /\ ToView(m, 0).pinned = FALSE /\ ToView(m, 0).count = 0
            /\ ToView(m, 0).mine = FALSE
        BY <4>2, <4>3, <4>4 DEF ToView, Row
      <4> QED
        BY <2>2, <2>3, <4>5 DEF Value, Stored, Fields
    <3> QED
      BY <3>1, <3>2
  <2>6. Tells(e, r)
    BY <2>2, <2>3, <2>4, <2>5 DEF Tells, Target
  <2> QED
    BY <2>3, <2>4, <2>6, AnnounceView
<1>5. CASE Find(r)
  <2>1. Unseen /\ ~Written(r) /\ At(r, "find")
    BY <1>5 DEF Find, Unseen, server, Written, At
  <2>2. CASE Finish(r)
    BY <1>f, <2>1, <2>2
  <2>3. CASE Goto(r, "write") /\ ~Is(r, "create") /\ ~Is(r, "none")
    <3>1. "write" \in Stage /\ "write" \in ChatStages[req[r].kind]
      BY <1>0, <2>1, <2>3 DEF Stage, ChatStages, Is, Request, Kind
    <3>2. Is(r, "react") => req[r].found = 0
      BY <2>1 DEF ViewInv, ReactOK, Toggles
    <3> QED
      BY <1>g, <2>1, <2>3, <3>1, <3>2
  <2>4. CASE /\ Is(r, "react")
             /\ \E x \in By(req[r].msg, req[r].who) :
                   req' = [req EXCEPT ![r].found = x.id, ![r].stage = "write"]
    <3>1. PICK x \in By(req[r].msg, req[r].who) :
                   req' = [req EXCEPT ![r].found = x.id, ![r].stage = "write"]
      BY <2>4
    <3>2. x.id \in Nat
      BY DEF By, On, ChatTypes, TypeOK, Reaction
    <3>3. PICK q : q = [req[r] EXCEPT !.found = x.id, !.stage = "write"]
      OBVIOUS
    <3>4. /\ q \in Request /\ q.kind = req[r].kind /\ q.who = req[r].who /\ q.msg = req[r].msg
          /\ q.no = req[r].no /\ q.pinned = req[r].pinned /\ q.found = x.id
          /\ q.stage = "write"
      BY <1>0, <3>2, <3>3 DEF Request, Stage
    <3>5. req' = [req EXCEPT ![r] = q]
      BY <1>0, <3>1, <3>3
    <3>6. "write" \in ChatStages[q.kind]
      BY <2>4, <3>4 DEF ChatStages, Is
    <3>7. GoesOn(r, q)
      BY <2>1, <3>1, <3>4, <3>6 DEF GoesOn
    <3> QED
      BY <1>0, <1>a, <2>1, <3>4, <3>5, <3>7, MovesView
  <2> QED
    BY <1>5, <2>2, <2>3, <2>4 DEF Find, Is
<1>6. CASE UpdateMessage(r)
  BY <1>6, UpdateView
<1>7. CASE WriteReaction(r)
  <2>1. /\ ~Written(r) /\ UNCHANGED <<rows, inbox, client, received>>
        /\ At(r, "write") /\ Is(r, "react")
    BY <1>7 DEF WriteReaction, Written, At
  <2>2. CASE Finish(r) /\ UNCHANGED reactions
    BY <1>f, <2>1, <2>2 DEF Unseen
  <2>3. CASE Goto(r, "count")
    <3>1. ~Finish(r)
      BY <1>0, <2>3 DEF Goto, Finish, Idle
    <3>2. \/ /\ req[r].found = 0 /\ By(req[r].msg, req[r].who) = {}
             /\ reactions' = reactions
                    \cup {[msg |-> req[r].msg, by |-> req[r].who, id |-> req[r].no]}
          \/ /\ req[r].found # 0
             /\ reactions' = reactions \ {x \in reactions : x.id = req[r].found}
      BY <1>7, <3>1 DEF WriteReaction
    <3> QED
      BY <2>1, <2>3, <3>2, ToggleView
  <2> QED
    BY <1>7, <2>2, <2>3 DEF WriteReaction
<1>8. CASE CountReactions(r)
  <2>1. Unseen /\ Written(r) /\ Is(r, "react") /\ At(r, "count")
    BY <1>0, <1>8 DEF CountReactions, Unseen, server, Written
  <2>2. PICK n : n = Cardinality(On(req[r].msg))
    OBVIOUS
  <2>3. n \in Nat
    BY <2>2, CountType DEF ChatTypes
  <2>4. PICK q : q = [req[r] EXCEPT !.count = n, !.stage = "emit"]
    OBVIOUS
  <2>5. /\ q \in Request /\ q.kind = req[r].kind /\ q.who = req[r].who /\ q.msg = req[r].msg
        /\ q.no = req[r].no /\ q.pinned = req[r].pinned /\ q.found = req[r].found
        /\ q.stage = "emit" /\ q.count = n
    BY <1>0, <2>3, <2>4 DEF Request, Stage
  <2>6. req' = [req EXCEPT ![r] = q]
    BY <1>0, <1>8, <2>2, <2>4 DEF CountReactions
  <2>7. "emit" \in ChatStages[q.kind]
    BY <2>1, <2>5 DEF ChatStages, Is
  <2>8. GoesOn(r, q)
    BY <2>1, <2>2, <2>5, <2>7 DEF GoesOn, Is
  <2> QED
    BY <1>0, <1>a, <2>1, <2>5, <2>6, <2>8, MovesView
<1>9. CASE AnnounceChange(r)
  <2>1. /\ At(r, "emit") /\ Finish(r) /\ UNCHANGED <<rows, reactions, client, received>>
    BY <1>9 DEF AnnounceChange, server
  <2>2. /\ req[r].msg \in Nat /\ req[r].no \in Nat /\ req[r].count \in Nat
        /\ req[r].who \in Profiles /\ req[r].pinned \in BOOLEAN
    BY <1>0 DEF Request
  <2>d. ~Is(r, "none") /\ ~Is(r, "create") => req[r].msg \in DOMAIN rows
    BY <1>0, ChatFacts DEF About
  <2>a. Announces(r)
    BY <2>1 DEF ViewInv, EmitOK
  <2>t. \A m : /\ ToView(m, 0)["text"] = (IF rows[m].deleted THEN 0 ELSE rows[m].text)
               /\ ToView(m, 0)["deleted"] = rows[m].deleted
               /\ ToView(m, 0)["pinned"] = rows[m].pinned
               /\ ToView(m, 0)["count"] = Cardinality(On(m))
               /\ ToView(m, 0)["mine"] = (By(m, Viewer) # {})
    BY DEF ToView
  <2>b. \A m \in DOMAIN rows : rows[m].deleted \in BOOLEAN
    BY ChatFacts DEF Row
  <2>c. \A f \in Fields :
          \/ f = "text" /\ Carries[f] = "edited" /\ Changes[f] = "edit"
          \/ f = "deleted" /\ Carries[f] = "deleted" /\ Changes[f] = "delete"
          \/ f = "pinned" /\ Carries[f] = "pinned" /\ Changes[f] = "pin"
          \/ f = "count" /\ Carries[f] = "reaction" /\ Changes[f] = "react"
          \/ f = "mine" /\ Carries[f] = "reaction" /\ Changes[f] = "react"
    BY DEF Fields, Carries, Changes
  <2>3. ASSUME NEW e \in Event, Broadcast(e), Target(e) = req[r].msg,
               e.type = "created" <=> Is(r, "create"),
               e.type # "created",
               e.type = "deleted" => rows[e.msg].deleted,
               \A f \in Fields, m \in DOMAIN rows :
                  /\ Owes(r, f, m) => Sets(e, f, m)
                  /\ Sets(e, f, m) /\ ~Hidden(f, m) => Value(e, f) = Stored(f, m)
        PROVE  ViewInv'
    <3>1. Tells(e, r)
      BY <2>3 DEF Tells
    <3> QED
      BY <2>1, <2>3, <3>1, AnnounceView
  <2>4. CASE Is(r, "edit")
    <3>1. PICK e : e = [type |-> "edited", msg |-> req[r].msg, text |-> req[r].no]
      OBVIOUS
    <3>2. e \in Event /\ e.type = "edited" /\ e.msg = req[r].msg /\ e.text = req[r].no
      BY <2>2, <3>1 DEF Event
    <3>3. Broadcast(e)
      BY <1>9, <2>4, <3>1 DEF AnnounceChange, Is
    <3>4. ASSUME NEW f \in Fields, NEW m \in DOMAIN rows
          PROVE  /\ Owes(r, f, m) => Sets(e, f, m)
                 /\ Sets(e, f, m) /\ ~Hidden(f, m) => Value(e, f) = Stored(f, m)
      <4>1. Owes(r, f, m) => f = "text" /\ m = e.msg
        BY <2>4, <2>c, <3>2 DEF Owes, Is
      <4>2. Sets(e, f, m) <=> f = "text" /\ m = e.msg
        BY <2>c, <3>2 DEF Sets
      <4>3. f = "text" => Value(e, f) = req[r].no
        BY <3>2 DEF Value
      <4>4. f = "text" /\ m = e.msg /\ ~Hidden(f, m) => Stored(f, m) = req[r].no
        BY <2>4, <2>a, <2>t, <3>2 DEF Stored, Hidden, Announces
      <4> QED
        BY <4>1, <4>2, <4>3, <4>4
    <3> QED
      BY <2>3, <2>4, <3>2, <3>3, <3>4 DEF Target, Is
  <2>5. CASE Is(r, "delete")
    <3>1. PICK e : e = [type |-> "deleted", msg |-> req[r].msg]
      OBVIOUS
    <3>2. e \in Event /\ e.type = "deleted" /\ e.msg = req[r].msg
      BY <2>2, <3>1 DEF Event
    <3>3. Broadcast(e)
      BY <1>9, <2>5, <3>1 DEF AnnounceChange, Is
    <3>4. rows[e.msg].deleted
      BY <2>5, <2>a, <3>2 DEF Announces
    <3>5. ASSUME NEW f \in Fields, NEW m \in DOMAIN rows
          PROVE  /\ Owes(r, f, m) => Sets(e, f, m)
                 /\ Sets(e, f, m) /\ ~Hidden(f, m) => Value(e, f) = Stored(f, m)
      <4>1. Owes(r, f, m) => f = "deleted" /\ m = e.msg
        BY <2>5, <2>c, <3>2 DEF Owes, Is
      <4>2. Sets(e, f, m) <=> f = "deleted" /\ m = e.msg
        BY <2>c, <3>2 DEF Sets
      <4>3. f = "deleted" => Value(e, f) = TRUE
        BY <3>2 DEF Value
      <4>4. f = "deleted" /\ m = e.msg => Stored(f, m) = TRUE
        BY <2>b, <2>t, <3>4 DEF Stored
      <4> QED
        BY <4>1, <4>2, <4>3, <4>4
    <3> QED
      BY <2>3, <2>5, <3>2, <3>3, <3>4, <3>5 DEF Target, Is
  <2>6. CASE Is(r, "pin")
    <3>1. PICK e : e = [type |-> "pinned", msg |-> req[r].msg, pinned |-> req[r].pinned]
      OBVIOUS
    <3>2. e \in Event /\ e.type = "pinned" /\ e.msg = req[r].msg /\ e.pinned = req[r].pinned
      BY <2>2, <3>1 DEF Event
    <3>3. Broadcast(e)
      BY <1>9, <2>6, <3>1 DEF AnnounceChange, Is
    <3>4. ASSUME NEW f \in Fields, NEW m \in DOMAIN rows
          PROVE  /\ Owes(r, f, m) => Sets(e, f, m)
                 /\ Sets(e, f, m) /\ ~Hidden(f, m) => Value(e, f) = Stored(f, m)
      <4>1. Owes(r, f, m) => f = "pinned" /\ m = e.msg
        BY <2>6, <2>c, <3>2 DEF Owes, Is
      <4>2. Sets(e, f, m) <=> f = "pinned" /\ m = e.msg
        BY <2>c, <3>2 DEF Sets
      <4>3. f = "pinned" => Value(e, f) = req[r].pinned
        BY <3>2 DEF Value
      <4>4. f = "pinned" /\ m = e.msg /\ ~Hidden(f, m) => Stored(f, m) = req[r].pinned
        BY <2>6, <2>a, <2>t, <3>2 DEF Stored, Hidden, Announces
      <4> QED
        BY <4>1, <4>2, <4>3, <4>4
    <3> QED
      BY <2>3, <2>6, <3>2, <3>3, <3>4 DEF Target, Is
  <2>7. CASE Is(r, "react")
    <3>1. PICK e : e = [type |-> "reaction", msg |-> req[r].msg, count |-> req[r].count,
                        by |-> req[r].who, added |-> req[r].found = 0]
      OBVIOUS
    <3>2. /\ e \in Event /\ e.type = "reaction" /\ e.msg = req[r].msg
          /\ e.count = req[r].count /\ e.by = req[r].who /\ e.added = (req[r].found = 0)
      BY <2>2, <3>1 DEF Event
    <3>3. Broadcast(e)
      BY <1>9, <2>7, <3>1 DEF AnnounceChange, Is
    <3>k. PICK k : k = req[r].msg
      OBVIOUS
    <3>4. /\ req[r].count = Cardinality(On(k))
          /\ req[r].found = 0 <=> By(k, req[r].who) # {}
      BY <2>1, <2>7, <2>a, <3>k DEF Announces, ViewInv, ReactOK, Toggles, Written
    <3>5. IsFiniteSet(On(k)) /\ (req[r].count = 0 => On(k) = {})
      <4>1. IsFiniteSet(On(k))
        BY FS_Subset DEF On, ChatTypes
      <4> QED
        BY <3>4, <4>1, FS_EmptySet
    <3>6. req[r].who = Viewer \/ req[r].count = 0 =>
             (e.count > 0 /\ e.added) = (By(k, Viewer) # {})
      <4>1. CASE req[r].count = 0
        BY <3>2, <3>5, <4>1 DEF By
      <4>2. CASE req[r].count # 0 /\ req[r].who = Viewer
        <5>1. e.count > 0
          BY <2>2, <3>2, <4>2
        <5>2. req[r].found = 0 <=> By(k, Viewer) # {}
          BY <3>4, <4>2
        <5>3. e.added <=> req[r].found = 0
          BY <3>2
        <5>4. (e.count > 0 /\ e.added) <=> By(k, Viewer) # {}
          BY <5>1, <5>2, <5>3
        <5> QED
          BY <5>4
      <4> QED
        BY <4>1, <4>2
    <3>7. ASSUME NEW f \in Fields, NEW m \in DOMAIN rows
          PROVE  /\ Owes(r, f, m) => Sets(e, f, m)
                 /\ Sets(e, f, m) /\ ~Hidden(f, m) => Value(e, f) = Stored(f, m)
      <4>1. Sets(e, f, m) <=> /\ m = k
                              /\ \/ f = "count"
                                 \/ f = "mine" /\ (req[r].who = Viewer \/ req[r].count = 0)
        BY <2>c, <3>2, <3>k DEF Sets
      <4>2. Owes(r, f, m) => Sets(e, f, m)
        BY <2>7, <2>c, <3>k, <4>1 DEF Owes, Is
      <4>3. /\ f = "count" => Value(e, f) = req[r].count
            /\ f = "mine" => Value(e, f) = (e.count > 0 /\ e.added)
        BY <3>2 DEF Value
      <4>4. /\ f = "count" /\ m = k => Stored(f, m) = req[r].count
            /\ f = "mine" /\ m = k => Stored(f, m) = (By(k, Viewer) # {})
        BY <2>t, <3>4 DEF Stored
      <4> QED
        BY <3>6, <4>1, <4>2, <4>3, <4>4
    <3> QED
      BY <2>3, <2>7, <3>2, <3>3, <3>7 DEF Target, Is
  <2> QED
    BY <1>9, <2>4, <2>5, <2>6, <2>7 DEF AnnounceChange
<1> QED
  BY <1>1, <1>2, <1>3, <1>4, <1>5, <1>6, <1>7, <1>8, <1>9 DEF Step
LEMMA InitView == Init => ViewInv
<1> SUFFICES ASSUME Init PROVE ViewInv
  OBVIOUS
<1>1. /\ \A r \in Handlers : req[r] = Idle
      /\ rows = <<>> /\ Len(rows) = 0 /\ DOMAIN rows = {} /\ inbox = <<>> /\ Len(inbox) = 0
      /\ items = {} /\ reactions = {} /\ history = "none" /\ subscribed = FALSE
  BY EmptySeq DEF Init
<1>2. /\ Idle.kind = "none" /\ Idle.stage = "idle" /\ Idle.msg = 0 /\ Idle.no = 0
  BY DEF Idle
<1>3. SaysOK /\ ShownOK
  BY <1>1 DEF SaysOK, ShownOK
<1>4. NonceOK
  BY <1>1, <1>2 DEF NonceOK
<1>5. ApartOK
  BY <1>1, <1>2 DEF ApartOK, About, ChatStages, Is
<1>6. IdsOK
  BY <1>1 DEF IdsOK
<1>7. EmitOK /\ ReactOK
  BY <1>1, <1>2 DEF EmitOK, ReactOK, At, Is
<1>8. PhaseOK
  BY <1>1 DEF PhaseOK, Closed
<1> QED
  BY <1>3, <1>4, <1>5, <1>6, <1>7, <1>8 DEF ViewInv

LEMMA SteadyIsNext == SteadyNext => Next
BY DEF SteadyNext, Next, Page

(* What changes neither the rows nor the requests nor the page.            *)
LEMMA FrameView ==
    ASSUME ViewInv, Unseen, UNCHANGED req
    PROVE  ViewInv'
<1>1. /\ rows' = rows /\ reactions' = reactions /\ inbox' = inbox /\ received' = received
      /\ subscribed' = subscribed /\ history' = history /\ page' = page /\ items' = items
      /\ req' = req
  BY DEF Unseen, client
<1>2. /\ \A m : On(m)' = On(m)
      /\ \A m, p : By(m, p)' = By(m, p)
      /\ \A f, m : Seen(f, m)' = Seen(f, m) /\ Stored(f, m)' = Stored(f, m)
      /\ \A f, m : Hidden(f, m)' <=> Hidden(f, m)
  BY UnseenKeeps
<1>3. /\ \A r, f, m : Owes(r, f, m)' <=> Owes(r, f, m)
      /\ \A r, m : Creates(r, m)' <=> Creates(r, m)
  BY <1>1 DEF Owes, Written, Creates, At, Is
<1>4. SaysOK'
  BY <1>1, <1>2, <1>3 DEF ViewInv, SaysOK, Says
<1>5. ShownOK' /\ NonceOK'
  BY <1>1, <1>3 DEF ViewInv, ShownOK, Shown, NonceOK, Named
<1>6. ApartOK' /\ IdsOK'
  BY <1>1 DEF ViewInv, ApartOK, About, IdsOK, At, Is
<1>7. EmitOK'
  BY <1>1, <1>2 DEF ViewInv, EmitOK, Announces, At, Is
<1>8. ReactOK'
  BY <1>1, <1>2 DEF ViewInv, ReactOK, Toggles, Written, At, Is
<1>9. PhaseOK'
  <2>1. \A m : ToView(m, 0)' = ToView(m, 0)
    BY <1>1 DEF ToView, On, By
  <2> QED
    BY <1>1, <2>1 DEF ViewInv, PhaseOK, Open, Closed, Quiet, AtRest, At
<1> QED
  BY <1>4, <1>5, <1>6, <1>7, <1>8, <1>9 DEF ViewInv

LEMMA ViewStep ==
    ASSUME ChatTypes, NamesInv, ViewInv, [SteadyNext]_vars
    PROVE  ViewInv'
<1>1. ASSUME NEW r \in Handlers, Open \/ Closed, NEW p \in Profiles, Send(r, p)
      PROVE  ViewInv'
  <2>1. PICK q : q = [Idle EXCEPT !.kind = "create", !.stage = "guard", !.who = p,
                                  !.no = received + 1]
    OBVIOUS
  <2>2. /\ q \in Request /\ q.kind = "create" /\ q.stage = "guard" /\ q.msg = 0
        /\ q.no = received + 1 /\ q.found = 0
    <3>1. Idle \in Request /\ Idle.msg = 0 /\ Idle.found = 0 /\ received + 1 \in Nat
      BY ChatFacts DEF Idle
    <3>2. "create" \in Kind /\ "guard" \in Stage
      BY DEF Kind, Stage
    <3> QED
      BY <2>1, <3>1, <3>2 DEF Request
  <2>3. Arrive(r, q)
    BY <1>1, <2>1 DEF Send
  <2>4. items' = items \/ items' = items \cup {Optimistic(received + 1)}
    BY <1>1 DEF Send
  <2> QED
    BY <1>1, <2>2, <2>3, <2>4, ArriveView
<1>2. ASSUME NEW r \in Handlers, Open \/ Closed,
             NEW kind \in {"edit", "delete", "react", "pin"}, NEW p \in Profiles,
             NEW m \in DOMAIN rows, NEW pinned \in BOOLEAN,
             Apart(kind, m), Ask(r, kind, p, m, pinned)
      PROVE  ViewInv'
  <2>1. PICK q : q = [Idle EXCEPT !.kind = kind, !.who = p, !.msg = m, !.no = received + 1,
                                  !.pinned = pinned,
                                  !.stage = IF kind = "react" THEN "guard" ELSE "find"]
    OBVIOUS
  <2>2. m \in Nat
    BY ChatFacts
  <2>3. /\ q \in Request /\ q.kind = kind /\ q.msg = m
        /\ q.stage = (IF kind = "react" THEN "guard" ELSE "find")
        /\ q.no = received + 1 /\ q.found = 0
    <3>1. Idle \in Request /\ Idle.found = 0 /\ received + 1 \in Nat
      BY ChatFacts DEF Idle
    <3>2. kind \in Kind /\ (IF kind = "react" THEN "guard" ELSE "find") \in Stage
      BY DEF Kind, Stage
    <3> QED
      BY <2>1, <2>2, <3>1, <3>2 DEF Request
  <2>4. Arrive(r, q) /\ items' = items
    BY <1>2, <2>1 DEF Ask
  <2> QED
    BY <1>2, <2>3, <2>4, ArriveView
<1>3. ASSUME NEW r \in Handlers, Step(r) PROVE ViewInv'
  BY <1>3, HandlerView
<1>4. CASE \/ \E p \in Profiles : BurstEnds(p)
           \/ \E w \in Flushers : TakeCount(w) \/ StoreCount(w)
           \/ UNCHANGED vars
  <2>1. Unseen /\ UNCHANGED req
    BY <1>4 DEF BurstEnds, TakeCount, StoreCount, Unseen, vars, server, client
  <2> QED
    BY <2>1, FrameView
<1>5. CASE Reload \/ ReceiveHistory \/ (Quiet /\ (LoadHistory \/ Subscribe))
  BY <1>5, LoadingView
<1>6. CASE Deliver
  BY <1>6, DeliverView
<1> QED
  BY <1>1, <1>2, <1>3, <1>4, <1>5, <1>6 DEF SteadyNext

(* With every handler at rest and nothing on its way, the last word on     *)
(* each field is what the page shows.                                      *)
LEMMA ViewSettles ==
    ASSUME ChatTypes, ViewInv
    PROVE  ViewIsCurrent
<1> SUFFICES ASSUME AtRest, subscribed, history = "loaded", inbox = <<>>
             PROVE  LET stored == {x \in items : x.id > 0} IN
                    /\ {x.id : x \in stored} = DOMAIN rows
                    /\ \A x \in stored :
                          IF rows[x.id].deleted THEN x.deleted
                          ELSE [x EXCEPT !.nonce = 0] = ToView(x.id, 0)
  BY DEF ViewIsCurrent
<1>1. /\ DOMAIN rows = 1 .. Len(rows) /\ Len(rows) \in Nat /\ Len(inbox) = 0
      /\ items \subseteq Item /\ \A x \in items : x.id \in Int /\ x.id <= Len(rows)
  BY ChatFacts DEF ViewInv, IdsOK
<1>2. /\ \A r \in Handlers : \A f, m : ~Owes(r, f, m)
      /\ \A r \in Handlers : \A m : ~Creates(r, m)
  BY DEF AtRest, Owes, Written, Creates, At
<1>3. \A m \in DOMAIN rows : \E x \in items : x.id = m
  BY <1>1, <1>2 DEF ViewInv, ShownOK, Shown
<1>4. {x.id : x \in {y \in items : y.id > 0}} = DOMAIN rows
  BY <1>1, <1>3
<1>5. ASSUME NEW x \in items, x.id > 0, NEW f \in Fields
      PROVE  Hidden(f, x.id) \/ x[f] = Stored(f, x.id)
  <2>1. x.id \in DOMAIN rows
    BY <1>1, <1>5
  <2>2. Says(f, x.id)
    BY <2>1 DEF ViewInv, SaysOK
  <2>3. Hidden(f, x.id) \/ LastWord(inbox, f, x.id, Seen(f, x.id), Stored(f, x.id))
    BY <1>2, <2>2 DEF Says
  <2>4. x[f] \in Seen(f, x.id)
    BY DEF Seen
  <2>5. LastWord(inbox, f, x.id, Seen(f, x.id), Stored(f, x.id))
           => Seen(f, x.id) \subseteq {Stored(f, x.id)}
    BY <1>1 DEF LastWord
  <2> QED
    BY <2>3, <2>4, <2>5
<1>6. ASSUME NEW x \in items, x.id > 0
      PROVE  IF rows[x.id].deleted THEN x.deleted
             ELSE [x EXCEPT !.nonce = 0] = ToView(x.id, 0)
  <2>1. x.id \in DOMAIN rows /\ rows[x.id] \in Row /\ x \in Item
    BY <1>1, <1>6, ChatFacts
  <2>2. x["deleted"] = Stored("deleted", x.id)
    BY <1>5, <1>6 DEF Hidden, Fields
  <2>3. Stored("deleted", x.id) = rows[x.id].deleted
    BY DEF Stored, ToView
  <2>4. CASE rows[x.id].deleted
    BY <2>2, <2>3, <2>4
  <2>5. CASE ~rows[x.id].deleted
    <3>1. \A f \in Fields : x[f] = ToView(x.id, 0)[f]
      BY <1>5, <1>6, <2>5 DEF Hidden, Stored
    <3>2. /\ x.text = ToView(x.id, 0).text /\ x.deleted = ToView(x.id, 0).deleted
          /\ x.pinned = ToView(x.id, 0).pinned /\ x.count = ToView(x.id, 0).count
          /\ x.mine = ToView(x.id, 0).mine
      BY <3>1 DEF Fields
    <3>3. ToView(x.id, 0) \in Item /\ ToView(x.id, 0).id = x.id /\ ToView(x.id, 0).nonce = 0
      <4>1. TypeOK /\ IsFiniteSet(reactions)
        BY DEF ChatTypes
      <4>2. ToView(x.id, 0) \in Item
        BY <2>1, <4>1, ToViewType
      <4> QED
        BY <4>2 DEF ToView
    <3>4. [x EXCEPT !.nonce = 0] = ToView(x.id, 0)
      BY <2>1, <3>2, <3>3 DEF Item
    <3> QED
      BY <2>5, <3>4
  <2> QED
    BY <2>4, <2>5
<1> QED
  BY <1>4, <1>6

(* What use-chat-room.ts makes of the broadcasts keeps the page current:   *)
(* once nothing is under way, each message shows the text, the deletion,   *)
(* the pin and the reactions the server has stored, for any members,       *)
(* handlers and number of requests, under the conditions of SteadySpec.    *)
THEOREM PageIsCurrent == SteadySpec => []ViewIsCurrent
<1>1. Init => ChatTypes /\ NamesInv /\ ViewInv
  <2>1. Init => NamesInv
    <3>1. Init => Len(inbox) = 0
      BY EmptySeq DEF Init
    <3> QED
      BY <3>1 DEF Init, NamesInv, Numbered, ShownOnce, Idle
  <2> QED
    BY <2>1, InitTypes, InitView
<1>2. ChatTypes /\ NamesInv /\ ViewInv /\ [SteadyNext]_vars => (ChatTypes /\ NamesInv /\ ViewInv)'
  <2> SUFFICES ASSUME ChatTypes, NamesInv, ViewInv, [SteadyNext]_vars
               PROVE  ChatTypes' /\ NamesInv' /\ ViewInv'
    OBVIOUS
  <2>1. CASE UNCHANGED vars
    <3>1. ChatTypes' /\ NamesInv'
      BY <2>1 DEF ChatTypes, TypeOK, NamesInv, Numbered, ShownOnce, vars, server, worker,
                  client, At, Is
    <3> QED
      BY <3>1, ViewStep
  <2>2. CASE SteadyNext
    BY <2>2, SteadyIsNext, StepTypes, NamesStep, ViewStep
  <2> QED
    BY <2>1, <2>2
<1>3. ChatTypes /\ ViewInv => ViewIsCurrent
  BY ViewSettles
<1> QED
  BY <1>1, <1>2, <1>3, PTL DEF SteadySpec

=============================================================================
