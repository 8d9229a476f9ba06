------------------------------ MODULE RoomChat ------------------------------
(***************************************************************************)
(* The conversation of one room: MessagesService (messages.service.ts)     *)
(* behind the gateway, the message counter and the worker that rolls it up *)
(* (counters.service.ts), and what one reader's page makes of the          *)
(* broadcasts (use-chat-room.ts).                                          *)
(*                                                                         *)
(* Handlers run from await to await, so a write and the broadcast of it    *)
(* are two actions; broadcasts reach the reader in the order they were     *)
(* emitted, and only while his socket is subscribed to the room.           *)
(***************************************************************************)
EXTENDS Integers, FiniteSets, Sequences

CONSTANTS
    Profiles,      \* the room's members
    Viewer,        \* the one whose page we watch
    Moderators,    \* those with the role OWNER or MODERATOR
    Handlers,      \* message handlers that may be in flight at once
    Flushers,      \* pods that may be rolling the counter up at once
    BurstLimit,    \* BURST_LIMIT
    MaxRequests,   \* bound on the requests that arrive
    MaxDrops,      \* bound on the times the page loses its socket or reloads
    MaxFailures    \* bound on the handlers and flushes that die half way

ASSUME ViewerAssumption == Viewer \in Profiles /\ Moderators \subseteq Profiles
ASSUME HandlersAssumption == IsFiniteSet(Handlers) /\ IsFiniteSet(Flushers)
ASSUME ChatBoundsAssumption == {BurstLimit, MaxRequests, MaxDrops, MaxFailures} \subseteq Nat

VARIABLES
    rows,          \* the Message rows, in order of creation
    reactions,     \* the Reaction rows (of one emoji)
    bursts,        \* cr:burst:<room>:<profile>, with or without an expiry
    pending,       \* cr:cnt:msg:<room>
    messageCount,  \* Prompt.messageCount
    req,           \* the handlers in flight
    carried,       \* what each flush has taken out of the counter
    inbox,         \* broadcasts on their way to the page
    subscribed,    \* the page's socket is in the room's channel
    history,       \* the page's message query: none, asked, loaded
    page,          \* the answer to it, on its way
    items,         \* the message cache of the page
    received, drops, failures

server == <<rows, reactions, bursts, pending>>
worker == <<messageCount, carried>>
client == <<subscribed, history, page, items>>
vars == <<server, worker, req, inbox, client, received, drops, failures>>

-----------------------------------------------------------------------------
(* Rows, requests and what the page shows of a row.                        *)

(* A text is named by the request that wrote it; 0 is the empty text a     *)
(* delete leaves.                                                          *)
Row == [author : Profiles, text : Nat, deleted : BOOLEAN, pinned : BOOLEAN]
Reaction == [msg : Nat, by : Profiles, id : Nat]
Item == [id : Int, nonce : Nat, text : Nat, deleted : BOOLEAN,
         pinned : BOOLEAN, count : Nat, mine : BOOLEAN]
Event ==
    [type : {"created"}, item : Item]
        \cup [type : {"edited"}, msg : Nat, text : Nat]
        \cup [type : {"deleted"}, msg : Nat]
        \cup [type : {"pinned"}, msg : Nat, pinned : BOOLEAN]
        \cup [type : {"reaction"}, msg : Nat, count : Nat, by : Profiles, added : BOOLEAN]
Kind == {"none", "create", "edit", "delete", "react", "pin"}
Stage == {"idle", "guard", "burst", "expire", "find", "write", "count", "emit"}

(* no: the request's own number, which is also its clientNonce and the     *)
(* text it writes; found: the reaction row toggleReaction has found (0:    *)
(* none); count: the reactions it has counted.                             *)
Request == [kind : Kind, stage : Stage, who : Profiles, msg : Nat, no : Nat,
            pinned : BOOLEAN, found : Nat, count : Nat]

Idle == [kind |-> "none", stage |-> "idle", who |-> Viewer, msg |-> 0, no |-> 0,
         pinned |-> FALSE, found |-> 0, count |-> 0]

On(m) == {x \in reactions : x.msg = m}
By(m, p) == {x \in On(m) : x.by = p}

(* toView: a deleted row shows no text.                                    *)
ToView(m, nonce) ==
    [id |-> m, nonce |-> nonce,
     text |-> IF rows[m].deleted THEN 0 ELSE rows[m].text,
     deleted |-> rows[m].deleted, pinned |-> rows[m].pinned,
     count |-> Cardinality(On(m)), mine |-> By(m, Viewer) # {}]

(* The optimistic row of a send: its id is one no stored message has.      *)
Optimistic(no) ==
    [id |-> -no, nonce |-> no, text |-> no, deleted |-> FALSE,
     pinned |-> FALSE, count |-> 0, mine |-> FALSE]

TypeOK ==
    /\ rows \in Seq(Row)
    /\ reactions \subseteq Reaction
    /\ bursts \in [Profiles -> [count : Nat, expires : BOOLEAN]]
    /\ pending \in Nat /\ messageCount \in Nat
    /\ req \in [Handlers -> Request]
    /\ carried \in [Flushers -> Nat]
    /\ inbox \in Seq(Event)
    /\ subscribed \in BOOLEAN
    /\ history \in {"none", "asked", "loaded"}
    /\ page \subseteq Item /\ items \subseteq Item
    /\ {received, drops, failures} \subseteq Nat

Init ==
    /\ rows = <<>>
    /\ reactions = {}
    /\ bursts = [p \in Profiles |-> [count |-> 0, expires |-> FALSE]]
    /\ pending = 0 /\ messageCount = 0
    /\ req = [r \in Handlers |-> Idle]
    /\ carried = [w \in Flushers |-> 0]
    /\ inbox = <<>>
    /\ subscribed = FALSE /\ history = "none" /\ page = {} /\ items = {}
    /\ received = 0 /\ drops = 0 /\ failures = 0

-----------------------------------------------------------------------------
(* Control of a handler.                                                   *)

At(r, stage) == req[r].stage = stage
Is(r, kind) == req[r].kind = kind
Goto(r, stage) == req' = [req EXCEPT ![r].stage = stage]
Finish(r) == req' = [req EXCEPT ![r] = Idle]

(* ChatEventsService.toRoom, as far as the page is concerned.              *)
Broadcast(e) == inbox' = IF subscribed THEN Append(inbox, e) ELSE inbox

Arrive(r, request) ==
    /\ At(r, "idle")
    /\ received < MaxRequests
    /\ received' = received + 1
    /\ req' = [req EXCEPT ![r] = request]
    /\ UNCHANGED <<server, worker, inbox, subscribed, history, page, drops, failures>>

(* send: the page shows the message at once, once it has a list to show it *)
(* in, and emits NEW_MESSAGE.                                              *)
Send(r, p) ==
    /\ Arrive(r, [Idle EXCEPT !.kind = "create", !.stage = "guard", !.who = p,
                              !.no = received + 1])
    /\ items' = IF p = Viewer /\ history = "loaded"
                THEN items \cup {Optimistic(received + 1)} ELSE items

(* EDIT_MESSAGE, DELETE_MESSAGE, ADD_REACTION, PIN_MESSAGE or their routes. *)
Ask(r, kind, p, m, pinned) ==
    /\ Arrive(r, [Idle EXCEPT !.kind = kind, !.who = p, !.msg = m, !.no = received + 1,
                              !.pinned = pinned,
                              !.stage = IF kind = "react" THEN "guard" ELSE "find"])
    /\ UNCHANGED items

(* assertSeated, and for a message assertNotMuted: seats and mutes belong  *)
(* to other parts of the system, so the answer may be either.              *)
Guard(r) ==
    /\ At(r, "guard")
    /\ \/ Finish(r)
       \/ Is(r, "create") /\ Goto(r, "burst")
       \/ Is(r, "react") /\ Goto(r, "find")
    /\ UNCHANGED <<server, worker, inbox, client, received, drops, failures>>

-----------------------------------------------------------------------------
(* create.                                                                 *)

(* Mutant: `count > 1` where the first increment sets the expiry.          *)
BurstSetsNoExpiry(r) ==
    LET p == req[r].who IN
    /\ At(r, "burst")
    /\ bursts' = [bursts EXCEPT ![p].count = @ + 1]
    /\ IF bursts[p].count >= BurstLimit THEN Finish(r) ELSE Goto(r, "write")
    /\ UNCHANGED <<rows, reactions, pending, worker, inbox, client,
                   received, drops, failures>>

(* assertNotBursting: INCR, then EXPIRE by the first, then the limit.      *)
CountBurst(r) ==
    LET p == req[r].who IN
    /\ At(r, "burst")
    /\ bursts' = [bursts EXCEPT ![p].count = @ + 1]
    /\ \/ bursts[p].count = 0 /\ Goto(r, "expire")
       \/ bursts[p].count # 0 /\ bursts[p].count < BurstLimit /\ Goto(r, "write")
       \/ bursts[p].count # 0 /\ bursts[p].count >= BurstLimit /\ Finish(r)
    /\ UNCHANGED <<rows, reactions, pending, worker, inbox, client,
                   received, drops, failures>>

ExpireBurst(r) ==
    /\ At(r, "expire")
    /\ bursts' = [bursts EXCEPT ![req[r].who].expires = TRUE]
    /\ IF BurstLimit = 0 THEN Finish(r) ELSE Goto(r, "write")
    /\ UNCHANGED <<rows, reactions, pending, worker, inbox, client,
                   received, drops, failures>>

(* Ten seconds later the key is gone.                                      *)
BurstEnds(p) ==
    /\ bursts[p].expires
    /\ bursts' = [bursts EXCEPT ![p] = [count |-> 0, expires |-> FALSE]]
    /\ UNCHANGED <<rows, reactions, pending, worker, req, inbox, client,
                   received, drops, failures>>

(* An empty text, a reply to nothing or a foreign GIF is refused here,     *)
(* after it was counted as a send.                                         *)
WriteMessage(r) ==
    /\ At(r, "write") /\ Is(r, "create")
    /\ \/ Finish(r) /\ UNCHANGED rows
       \/ /\ rows' = Append(rows, [author |-> req[r].who, text |-> req[r].no,
                                   deleted |-> FALSE, pinned |-> FALSE])
          /\ req' = [req EXCEPT ![r].msg = Len(rows) + 1, ![r].stage = "emit"]
    /\ UNCHANGED <<reactions, bursts, pending, worker, inbox, client,
                   received, drops, failures>>

(* The row as create read it back: nothing has been done to it yet.        *)
Created(r) ==
    [id |-> req[r].msg, nonce |-> req[r].no, text |-> req[r].no, deleted |-> FALSE,
     pinned |-> FALSE, count |-> 0, mine |-> FALSE]

(* INCR cr:cnt:msg, then MESSAGE_CREATED with the sender's nonce.          *)
AnnounceMessage(r) ==
    /\ At(r, "emit") /\ Is(r, "create")
    /\ pending' = pending + 1
    /\ Broadcast([type |-> "created", item |-> Created(r)])
    /\ Finish(r)
    /\ UNCHANGED <<rows, reactions, bursts, worker, client, received, drops, failures>>

-----------------------------------------------------------------------------
(* edit, delete, toggleReaction, setPinned.                                *)

(* getOwnMessage; delete's own check of author or role; findUnique of the  *)
(* reaction; setPinned's check of the role.                                *)
Find(r) ==
    LET m == req[r].msg  p == req[r].who IN
    /\ At(r, "find")
    /\ \/ /\ Is(r, "edit")
          /\ IF rows[m].author = p /\ ~rows[m].deleted THEN Goto(r, "write") ELSE Finish(r)
       \/ /\ Is(r, "delete")
          /\ IF ~rows[m].deleted /\ (rows[m].author = p \/ p \in Moderators)
             THEN Goto(r, "write") ELSE Finish(r)
       \/ /\ Is(r, "pin")
          /\ IF p \in Moderators THEN Goto(r, "write") ELSE Finish(r)
       \/ /\ Is(r, "react")
          /\ \/ By(m, p) = {} /\ Goto(r, "write")
             \/ \E x \in By(m, p) :
                   req' = [req EXCEPT ![r].found = x.id, ![r].stage = "write"]
    /\ UNCHANGED <<server, worker, inbox, client, received, drops, failures>>

UpdateMessage(r) ==
    LET m == req[r].msg IN
    /\ At(r, "write")
    /\ \/ Is(r, "edit") /\ rows' = [rows EXCEPT ![m].text = req[r].no]
       \/ /\ Is(r, "delete")
          /\ rows' = [rows EXCEPT ![m].deleted = TRUE, ![m].text = 0, ![m].pinned = FALSE]
       \/ Is(r, "pin") /\ rows' = [rows EXCEPT ![m].pinned = req[r].pinned]
    /\ Goto(r, "emit")
    /\ UNCHANGED <<reactions, bursts, pending, worker, inbox, client,
                   received, drops, failures>>

(* create, refused by the unique key (message, profile, emoji), or delete  *)
(* of the row found, refused when it is gone: either error ends it.        *)
WriteReaction(r) ==
    LET m == req[r].msg
        p == req[r].who
        old == {x \in reactions : x.id = req[r].found}
    IN
    /\ At(r, "write") /\ Is(r, "react")
    /\ \/ /\ req[r].found = 0 /\ By(m, p) = {}
          /\ reactions' = reactions \cup {[msg |-> m, by |-> p, id |-> req[r].no]}
          /\ Goto(r, "count")
       \/ req[r].found = 0 /\ By(m, p) # {} /\ Finish(r) /\ UNCHANGED reactions
       \/ req[r].found # 0 /\ old # {} /\ reactions' = reactions \ old /\ Goto(r, "count")
       \/ req[r].found # 0 /\ old = {} /\ Finish(r) /\ UNCHANGED reactions
    /\ UNCHANGED <<rows, bursts, pending, worker, inbox, client, received, drops, failures>>

CountReactions(r) ==
    /\ At(r, "count")
    /\ req' = [req EXCEPT ![r].count = Cardinality(On(req[r].msg)), ![r].stage = "emit"]
    /\ UNCHANGED <<server, worker, inbox, client, received, drops, failures>>

(* MESSAGE_EDITED, MESSAGE_DELETED, MESSAGE_PINNED or REACTION_UPDATED.    *)
AnnounceChange(r) ==
    LET q == req[r] IN
    /\ At(r, "emit")
    /\ \/ Is(r, "edit") /\ Broadcast([type |-> "edited", msg |-> q.msg, text |-> q.no])
       \/ Is(r, "delete") /\ Broadcast([type |-> "deleted", msg |-> q.msg])
       \/ Is(r, "pin") /\ Broadcast([type |-> "pinned", msg |-> q.msg, pinned |-> q.pinned])
       \/ Is(r, "react") /\ Broadcast([type |-> "reaction", msg |-> q.msg, count |-> q.count,
                                       by |-> q.who, added |-> q.found = 0])
    /\ Finish(r)
    /\ UNCHANGED <<server, worker, client, received, drops, failures>>

-----------------------------------------------------------------------------
(* flushCounter.                                                           *)

(* Mutant: GET here, DEL only after the row is updated (in StoreCount).    *)
TakeCountWithoutDel(w) ==
    /\ carried[w] = 0 /\ pending # 0
    /\ carried' = [carried EXCEPT ![w] = pending]
    /\ UNCHANGED <<server, messageCount, req, inbox, client, received, drops, failures>>

(* GETDEL.                                                                 *)
TakeCount(w) ==
    /\ carried[w] = 0 /\ pending # 0
    /\ carried' = [carried EXCEPT ![w] = pending]
    /\ pending' = 0
    /\ UNCHANGED <<rows, reactions, bursts, messageCount, req, inbox, client,
                   received, drops, failures>>

(* messageCount: { increment: delta }.                                     *)
StoreCount(w) ==
    /\ carried[w] # 0
    /\ messageCount' = messageCount + carried[w]
    /\ carried' = [carried EXCEPT ![w] = 0]
    /\ UNCHANGED <<server, req, inbox, client, received, drops, failures>>

(* The pod dies, or a call of the handler or of the flush throws.          *)
Fail ==
    /\ failures < MaxFailures
    /\ failures' = failures + 1
    /\ \/ \E r \in Handlers : ~At(r, "idle") /\ Finish(r) /\ UNCHANGED carried
       \/ \E w \in Flushers :
            carried[w] # 0 /\ carried' = [carried EXCEPT ![w] = 0] /\ UNCHANGED req
    /\ UNCHANGED <<server, messageCount, inbox, client, received, drops>>

-----------------------------------------------------------------------------
(* The page.                                                               *)

(* JOIN_ROOM, sent when the page opens and whenever the socket connects.   *)
Subscribe ==
    /\ ~subscribed
    /\ subscribed' = TRUE
    /\ UNCHANGED <<server, worker, req, inbox, history, page, items, received, drops, failures>>

(* The newest page of history, as the server reads it ...                  *)
LoadHistory ==
    /\ history = "none"
    /\ history' = "asked"
    /\ page' = {ToView(m, 0) : m \in DOMAIN rows}
    /\ UNCHANGED <<server, worker, req, inbox, subscribed, items, received, drops, failures>>

(* ... and as the page receives it.                                        *)
ReceiveHistory ==
    /\ history = "asked"
    /\ history' = "loaded"
    /\ items' = page
    /\ page' = {}
    /\ UNCHANGED <<server, worker, req, inbox, subscribed, received, drops, failures>>

(* Mutant: re-delivery is recognised by id alone.                          *)
PrependIgnoringNonce(item) == {x \in items : x.id # item.id} \cup {item}

(* prependMessage: takes the place of the same message, or of the          *)
(* optimistic row with the same nonce.                                     *)
PrependMessage(item) ==
    {x \in items : x.id # item.id /\ ~(item.nonce # 0 /\ x.nonce = item.nonce)} \cup {item}

PatchMessages(m, Change(_)) == {IF x.id = m THEN Change(x) ELSE x : x \in items}

(* Mutant: an edit puts the message back.                                  *)
OnEditedUndeletes(e) ==
    LET Edited(x) == [x EXCEPT !.text = e.text, !.deleted = FALSE]
    IN  PatchMessages(e.msg, Edited)

OnEdited(e) == LET Edited(x) == [x EXCEPT !.text = e.text] IN PatchMessages(e.msg, Edited)

(* Mutant: the patch forgets to carry the rest of the message over.        *)
OnDeletedForgetsRest(e) ==
    LET Deleted(x) == [id |-> x.id, nonce |-> x.nonce, text |-> 0, deleted |-> TRUE]
    IN  PatchMessages(e.msg, Deleted)

OnDeleted(e) ==
    LET Deleted(x) == [x EXCEPT !.deleted = TRUE, !.text = 0] IN PatchMessages(e.msg, Deleted)

OnPinned(e) == LET Pinned(x) == [x EXCEPT !.pinned = e.pinned] IN PatchMessages(e.msg, Pinned)

(* Without a count the emoji's entry goes, and with it reactedByMe.        *)
OnReaction(e) ==
    LET Reacted(x) ==
          [x EXCEPT !.count = e.count,
                    !.mine = e.count > 0 /\ (IF e.by = Viewer THEN e.added ELSE @)]
    IN  PatchMessages(e.msg, Reacted)

(* A broadcast arrives: it patches the cache, if there is one yet.         *)
Deliver ==
    /\ inbox # <<>>
    /\ inbox' = Tail(inbox)
    /\ LET e == Head(inbox) IN
       \/ history # "loaded" /\ UNCHANGED items
       \/ history = "loaded" /\ e.type = "created" /\ items' = PrependMessage(e.item)
       \/ history = "loaded" /\ e.type = "edited" /\ items' = OnEdited(e)
       \/ history = "loaded" /\ e.type = "deleted" /\ items' = OnDeleted(e)
       \/ history = "loaded" /\ e.type = "pinned" /\ items' = OnPinned(e)
       \/ history = "loaded" /\ e.type = "reaction" /\ items' = OnReaction(e)
    /\ UNCHANGED <<server, worker, req, subscribed, history, page, received, drops, failures>>

(* The socket is lost, or the reader leaves the page and comes back: what  *)
(* was on its way is gone, the cache stays as it is.                       *)
Drop ==
    /\ subscribed
    /\ drops < MaxDrops
    /\ drops' = drops + 1
    /\ subscribed' = FALSE
    /\ inbox' = <<>>
    /\ UNCHANGED <<server, worker, req, history, page, items, received, failures>>

(* The tab is reloaded: a new page, nothing cached.                        *)
Reload ==
    /\ drops < MaxDrops
    /\ drops' = drops + 1
    /\ subscribed' = FALSE
    /\ inbox' = <<>>
    /\ history' = "none" /\ page' = {} /\ items' = {}
    /\ UNCHANGED <<server, worker, req, received, failures>>

-----------------------------------------------------------------------------

Step(r) ==
    \/ Guard(r)  \/ CountBurst(r)  \/ ExpireBurst(r)  \/ WriteMessage(r)
    \/ AnnounceMessage(r)  \/ Find(r)  \/ UpdateMessage(r)  \/ WriteReaction(r)
    \/ CountReactions(r)  \/ AnnounceChange(r)

Page == Subscribe \/ LoadHistory \/ ReceiveHistory \/ Deliver

Next ==
    \/ \E r \in Handlers :
        \/ \E p \in Profiles : Send(r, p)
        \/ \E kind \in {"edit", "delete", "react", "pin"}, p \in Profiles,
              m \in DOMAIN rows, pinned \in BOOLEAN :
              (pinned => kind = "pin") /\ Ask(r, kind, p, m, pinned)
        \/ Step(r)
    \/ \E p \in Profiles : BurstEnds(p)
    \/ \E w \in Flushers : TakeCount(w) \/ StoreCount(w)
    \/ Page \/ Drop \/ Reload \/ Fail

Spec == Init /\ [][Next]_vars

-----------------------------------------------------------------------------
(* Properties.                                                             *)

AtRest == \A r \in Handlers : At(r, "idle")

(* What the flushes carry, one entry for each message.                     *)
Carried == UNION {{w} \X (1 .. carried[w]) : w \in Flushers}
Uncounted == pending + Cardinality(Carried)

(* The reader never sees one message twice: not as two rows of the cache,  *)
(* and not as the optimistic row of a send beside the stored message,      *)
(* whatever order history, echo and reload come in.                        *)
ShownOnce ==
    \A x, y \in items :
        x.id = y.id \/ (x.nonce = y.nonce /\ x.nonce # 0) => x = y

(* No message is counted twice, however flushes, sends and failures        *)
(* interleave; and without failures none is lost: at rest every message is *)
(* in the counter, on its way to the prompt, or counted there.             *)
MessagesCounted ==
    /\ messageCount + Uncounted <= Len(rows)
    /\ AtRest /\ failures = 0 => messageCount + Uncounted = Len(rows)

(* A profile that sent too fast is not silenced for good: unless a pod     *)
(* died between the two calls, at rest every burst counter has an expiry.  *)
BurstExpires ==
    AtRest /\ failures = 0 => \A p \in Profiles : bursts[p].count > 0 => bursts[p].expires

(* What the page shows once everything on its way has arrived is what the  *)
(* server has: every message, which are deleted, and of the others the     *)
(* text, the pin and the reactions.                                        *)
ViewIsCurrent ==
    AtRest /\ subscribed /\ history = "loaded" /\ inbox = <<>> =>
        LET stored == {x \in items : x.id > 0} IN
        /\ {x.id : x \in stored} = DOMAIN rows
        /\ \A x \in stored :
              IF rows[x.id].deleted THEN x.deleted
              ELSE [x EXCEPT !.nonce = 0] = ToView(x.id, 0)

=============================================================================
