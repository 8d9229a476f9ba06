------------------------------ MODULE RoomPage ------------------------------
(***************************************************************************)
(* A room as its visitors' pages see it: the hook useChatRoom and its      *)
(* dialog in the browser, the subscriptions and the online list of         *)
(* chat.gateway.ts, and what ChatroomsService answers and announces.       *)
(*                                                                         *)
(* A page learns of its seat in three ways that are not ordered among      *)
(* themselves: the answers to its own requests, the room query it reads    *)
(* again when told that it is out of date, and the events of its socket.   *)
(* The insides of the server's handlers are in RoomSeats; here a handler   *)
(* is its Redis script and the announcements that follow.                  *)
(***************************************************************************)
EXTENDS Naturals, FiniteSets, WaitingLine

CONSTANTS
    Profiles,     \* each with one tab, and in it one page of the room
    Seated,       \* those who are in the room when we look first
    Waiting,      \* and those in line, the first first
    NoProfile,
    Staff,        \* the request of a moderator who is not on the page
    Capacity,
    MaxMoves,     \* bound on the requests, kicks and lost connections
    MaxTroubles,  \* of which kicks and lost connections
    MaxVisits     \* bound on the times a page is opened

ASSUME SlotsAssumption == NoProfile \notin Profiles /\ Staff \notin Profiles
ASSUME SeatsAssumption ==
    /\ IsFiniteSet(Profiles) /\ Seated \subseteq Profiles /\ Cardinality(Seated) <= Capacity
    /\ Waiting \in Seq(Profiles \ Seated) /\ IsInjective(Waiting)
    /\ Waiting # <<>> => Cardinality(Seated) = Capacity
ASSUME PageBoundsAssumption == {Capacity, MaxMoves, MaxTroubles, MaxVisits} \subseteq Nat

VARIABLES
    members, queue, blocked,   \* the room, in Redis
    online,                    \* cr:room:<id>:online
    inRoom,                    \* the sockets that have joined room:<id>
    connected,                 \* the tabs whose socket is connected
    up, down,                  \* what each socket carries, to and from the server
    call,                      \* the requests in flight
    page,                      \* the pages
    dropped,                   \* tabs that have lost a connection
    twice,                     \* those given a seat who kept a place in line
    spent                      \* what has been used of the bounds

server == <<members, queue, blocked>>
gateway == <<online, inRoom>>
wires == <<connected, up, down>>
history == <<dropped, twice, spent>>
vars == <<server, gateway, wires, call, page, history>>

-----------------------------------------------------------------------------
(* Messages, requests and pages.                                           *)

Places1 == 1 .. Cardinality(Profiles)
Places0 == Places1 \cup {0}                \* 0: null

(* member stands for USER_JOINED and USER_LEFT, which a page takes alike.  *)
Event == [type : {"member", "admitted"}]
    \cup [type : {"waiting"}, position : Places1]
    \cup [type : {"presence"}, profiles : SUBSET Profiles]

(* A request: the waiter it promotes, the rank its page knew or the one    *)
(* the script returned, and its answer.                                    *)
Call == [kind : {"none", "join", "enqueue", "cancel", "leave"},
         stage : {"idle", "sent", "admit", "tell", "answer"},
         next : Profiles \cup {NoProfile}, rank : Places0,
         answer : {"none", "seated", "full", "waiting", "refused", "done"}]

NoCall == [kind |-> "none", stage |-> "idle", next |-> NoProfile,
           rank |-> 0, answer |-> "none"]

(* What GET /chatrooms/:id says of the caller: mySeat and myQueuePosition. *)
View == [seat : {"unknown", "no", "yes"}, rank : Places0]
Unknown == [seat |-> "unknown", rank |-> 0]

(* room: the query's data; fetch, read: its request, and what the server   *)
(* has read for it; invalid: it must be read again.  attempted, full,      *)
(* place, shown: the hook's joinAttempted, roomFull, queuePosition and     *)
(* online.  kept: the page started from an earlier visit's data.  missed:  *)
(* events may have passed it by.                                           *)
Page == [open : BOOLEAN, room : View, fetch : {"none", "sent", "read"}, read : View,
         invalid : BOOLEAN, attempted : BOOLEAN, full : BOOLEAN, place : Places0,
         shown : SUBSET Profiles, kept : BOOLEAN, missed : BOOLEAN]

TypeOK ==
    /\ {members, blocked, online, inRoom, connected, dropped, twice} \subseteq SUBSET Profiles
    /\ queue \in Seq(Profiles)
    /\ up \in [Profiles -> Seq({"JOIN_ROOM", "LEAVE_ROOM"})]
    /\ down \in [Profiles -> Seq(Event)]
    /\ call \in [Profiles \cup {Staff} -> Call]
    /\ page \in [Profiles -> Page]
    /\ spent \in [{"moves", "troubles", "visits"} -> Nat]

Closed == [open |-> FALSE, room |-> Unknown, fetch |-> "none", read |-> Unknown,
           invalid |-> FALSE, attempted |-> FALSE, full |-> FALSE, place |-> 0,
           shown |-> {}, kept |-> FALSE, missed |-> FALSE]

(* The rank of p in a line, from 1; 0 when it is not there.                *)
RankIn(line, p) == IF Contains(line, p) THEN CHOOSE i \in DOMAIN line : line[i] = p ELSE 0

(* Some are in the room, some in line, and their pages show it.            *)
Init ==
    /\ members = Seated /\ queue = Waiting /\ blocked = {}
    /\ online = Seated /\ inRoom = Seated
    /\ connected = Profiles
    /\ up = [p \in Profiles |-> <<>>]
    /\ down = [p \in Profiles |-> <<>>]
    /\ call = [s \in Profiles \cup {Staff} |-> NoCall]
    /\ page = [p \in Profiles |->
                IF p \in Seated
                THEN [Closed EXCEPT !.open = TRUE, !.room.seat = "yes", !.attempted = TRUE,
                                    !.shown = Seated]
                ELSE IF Contains(Waiting, p)
                THEN [Closed EXCEPT !.open = TRUE, !.room.seat = "no", !.attempted = TRUE,
                                    !.full = TRUE, !.place = RankIn(Waiting, p)]
                ELSE Closed]
    /\ dropped = {} /\ twice = {}
    /\ spent = [moves |-> 0, troubles |-> 0, visits |-> 0]

Move == spent.moves < MaxMoves /\ spent' = [spent EXCEPT !.moves = @ + 1]
Trouble ==
    /\ spent.moves < MaxMoves /\ spent.troubles < MaxTroubles
    /\ spent' = [spent EXCEPT !.moves = @ + 1, !.troubles = @ + 1]
Visit == spent.visits < MaxVisits /\ spent' = [spent EXCEPT !.visits = @ + 1]

-----------------------------------------------------------------------------
(* Sending.                                                                *)

(* toRoom and toProfile reach the sockets that are connected; what finds   *)
(* the page closed goes unheard.                                           *)
Listening == {p \in connected : page[p].open}
Add(p, told, e) == IF told /\ p \in Listening THEN <<e>> ELSE <<>>
ToRoom(e) == [p \in Profiles |-> down[p] \o Add(p, p \in inRoom, e)]

(* A socket event of the page: kept back while it is not connected.        *)
Emit(p, what) == up' = [up EXCEPT ![p] = Append(@, what)]

-----------------------------------------------------------------------------
(* The room query and the effects that hang on it.                         *)

Seat(p) == page[p].room.seat = "yes"

(* invalidateQueries: a page that is open reads the room again, and drops  *)
(* the request under way unless that is its first; one that is not reads   *)
(* it when it is opened.                                                   *)
Invalidated(pg) ==
    IF ~pg.open THEN [pg EXCEPT !.invalid = TRUE]
    ELSE IF pg.room = Unknown /\ pg.fetch # "none" THEN pg
    ELSE [pg EXCEPT !.fetch = "sent", !.read = Unknown]

(* getRoom reads Redis, and then the rows.                                 *)
ReadRoom(p) ==
    /\ page[p].fetch = "sent"
    /\ page' = [page EXCEPT ![p].fetch = "read",
                  ![p].read = [seat |-> IF p \in members THEN "yes" ELSE "no",
                               rank |-> RankIn(queue, p)]]
    /\ UNCHANGED <<server, gateway, wires, call, history>>

(* The answer renders the page, and the socket effect follows the seat:    *)
(* it subscribes when there is one and leaves when there is none any more. *)
ShowRoom(p) ==
    /\ page[p].fetch = "read"
    /\ page' = [page EXCEPT ![p].fetch = "none", ![p].room = page[p].read,
                            ![p].read = Unknown, ![p].invalid = FALSE]
    /\ LET had == page[p].open /\ Seat(p)
           has == page[p].open /\ page[p].read.seat = "yes" IN
       \/ has /\ ~had /\ p \in connected /\ Emit(p, "JOIN_ROOM")
       \/ had /\ ~has /\ Emit(p, "LEAVE_ROOM")
       \/ (has = had \/ (has /\ p \notin connected)) /\ UNCHANGED up
    /\ UNCHANGED <<server, gateway, connected, down, call, history>>

(* The visitor opens the page: with nothing, or with what an earlier visit *)
(* left in the cache, read again or not.  What was on its way to the page  *)
(* before has arrived.                                                     *)
Open(p) ==
    /\ ~page[p].open /\ page[p].fetch = "none" /\ call[p] = NoCall
    /\ Visit
    /\ \/ /\ page' = [page EXCEPT ![p] =
               [Closed EXCEPT !.open = TRUE, !.fetch = "sent", !.missed = p \notin connected]]
          /\ UNCHANGED up
       \/ /\ page[p].room # Unknown
          /\ \E fetch \in {"sent", IF page[p].invalid THEN "sent" ELSE "none"} :
               page' = [page EXCEPT ![p] =
                 [Closed EXCEPT !.open = TRUE, !.room = page[p].room, !.fetch = fetch,
                    !.kept = TRUE, !.missed = page[p].missed \/ p \notin connected]]
          /\ IF Seat(p) /\ p \in connected THEN Emit(p, "JOIN_ROOM") ELSE UNCHANGED up
    /\ UNCHANGED <<server, gateway, connected, down, call, dropped, twice>>

(* Mutant: the cleanup does not leave the room.                            *)
ShutInRoom(p, pg) ==
    /\ page' = [page EXCEPT ![p] =
         [Closed EXCEPT !.room = pg.room, !.fetch = pg.fetch, !.read = pg.read,
                        !.invalid = pg.invalid, !.missed = pg.missed]]
    /\ down' = [down EXCEPT ![p] = <<>>]
    /\ UNCHANGED up

(* The page goes: the effect's cleanup leaves the room.                    *)
Shut(p, pg) ==
    /\ page' = [page EXCEPT ![p] =
         [Closed EXCEPT !.room = pg.room, !.fetch = pg.fetch, !.read = pg.read,
                        !.invalid = pg.invalid, !.missed = pg.missed]]
    /\ down' = [down EXCEPT ![p] = <<>>]
    /\ IF pg.open /\ pg.room.seat = "yes" THEN Emit(p, "LEAVE_ROOM") ELSE UNCHANGED up

(* The X of the header, or the browser's own.                              *)
Close(p) ==
    /\ page[p].open
    /\ Shut(p, page[p])
    /\ UNCHANGED <<server, gateway, connected, call, history>>

-----------------------------------------------------------------------------
(* The page's requests.                                                    *)

Request(p, kind) ==
    /\ call[p] = NoCall
    /\ Move
    /\ call' = [call EXCEPT ![p] = [NoCall EXCEPT !.kind = kind, !.stage = "sent",
                                      !.rank = page[p].room.rank]]

(* Seatless on first load: take a seat, once a visit.                      *)
AutoJoin(p) ==
    /\ page[p].open /\ page[p].room.seat = "no" /\ ~page[p].attempted
    /\ Request(p, "join")
    /\ page' = [page EXCEPT ![p].attempted = TRUE]
    /\ UNCHANGED <<server, gateway, wires, dropped, twice>>

(* What the visitor sees.                                                  *)
ShowsChat(p) == page[p].open /\ Seat(p)
DialogOpen(p) == page[p].open /\ page[p].full /\ ~Seat(p)
OffersQueue(p) == DialogOpen(p) /\ page[p].place = 0
ShowsPlace(p) == DialogOpen(p) /\ page[p].place # 0

JoinQueue(p) ==
    /\ OffersQueue(p)
    /\ Request(p, "enqueue")
    /\ UNCHANGED <<server, gateway, wires, page, dropped, twice>>

LeaveQueue(p) ==
    /\ ShowsPlace(p)
    /\ Request(p, "cancel")
    /\ UNCHANGED <<server, gateway, wires, page, dropped, twice>>

(* The button of the member rail, which the dialog covers.                 *)
LeaveRoom(p) ==
    /\ page[p].open /\ page[p].room # Unknown /\ ~DialogOpen(p)
    /\ Request(p, "leave")
    /\ UNCHANGED <<server, gateway, wires, page, dropped, twice>>

-----------------------------------------------------------------------------
(* The server's side of a request.                                         *)

To(s, stage) == call' = [call EXCEPT ![s].stage = stage]
Reply(s, answer) ==
    call' = [call EXCEPT ![s] = IF s = Staff THEN NoCall
                                ELSE [@ EXCEPT !.stage = "answer", !.answer = answer]]
Full == Cardinality(members) >= Capacity

(* A seat is taken, and broadcastJoin tells the room.                      *)
Seats(p, line) ==
    /\ members' = members \cup {p} /\ queue' = line /\ UNCHANGED blocked
    /\ down' = ToRoom([type |-> "member"])
    /\ Reply(p, "seated")

(* assertNotBlocked, and tryJoinRoom.                                      *)
ServeJoin(p) ==
    /\ call[p].kind = "join" /\ call[p].stage = "sent"
    /\ \/ p \in blocked /\ Reply(p, "refused") /\ UNCHANGED <<server, down>>
       \/ p \notin blocked \cup members /\ Full /\ Reply(p, "full") /\ UNCHANGED <<server, down>>
       \/ p \in members \ blocked /\ Seats(p, queue)
       \/ p \notin blocked \cup members /\ ~Full /\ Seats(p, Without(queue, p))
    /\ UNCHANGED <<gateway, connected, up, page, history>>

(* assertNotBlocked, and enqueueWaiting.                                   *)
ServeEnqueue(p) ==
    /\ call[p].kind = "enqueue" /\ call[p].stage = "sent"
    /\ \/ p \in blocked /\ Reply(p, "refused") /\ UNCHANGED <<server, down, twice>>
       \/ p \in members \ blocked /\ Reply(p, "seated") /\ UNCHANGED <<server, down, twice>>
       \/ /\ p \notin blocked \cup members /\ ~Full
          /\ Seats(p, queue)
          /\ twice' = IF Contains(queue, p) THEN twice \cup {p} ELSE twice
       \/ /\ p \notin blocked \cup members /\ Full
          /\ queue' = IF Contains(queue, p) THEN queue ELSE Append(queue, p)
          /\ UNCHANGED <<members, blocked, down, twice>>
          /\ call' = [call EXCEPT ![p].stage = "answer", ![p].answer = "waiting",
                                  ![p].rank = RankIn(queue', p)]
    /\ UNCHANGED <<gateway, connected, up, page, dropped, spent>>

(* cancelQueue: ZREM, the row, and the others' new places.                 *)
ServeCancel(p) ==
    /\ call[p].kind = "cancel" /\ call[p].stage = "sent"
    /\ queue' = Without(queue, p)
    /\ To(p, "tell")
    /\ UNCHANGED <<members, blocked, gateway, wires, page, history>>

(* leaveAndPromote frees the seat and reads the head of the queue; the row *)
(* is written and the room told.  One at a time: two at once may promote   *)
(* the same waiter twice, which RoomSeats has.                             *)
Vacate(s, who) ==
    /\ \A t \in Profiles \cup {Staff} : call[t].stage \notin {"admit", "tell"}
    /\ members' = members \ {who}
    /\ down' = ToRoom([type |-> "member"])
    /\ \/ queue = <<>> /\ Reply(s, "done")
       \/ queue # <<>> /\ call' = [call EXCEPT ![s].stage = "admit", ![s].next = Head(queue)]
    /\ UNCHANGED <<queue, gateway, connected, up, page>>

ServeLeave(p) ==
    /\ call[p].kind = "leave" /\ call[p].stage = "sent"
    /\ Vacate(p, p)
    /\ UNCHANGED <<blocked, history>>

(* kick, by a moderator: the block, and then leave.  The page has no       *)
(* handler for USER_KICKED, and nobody waits for the answer.               *)
Kick(p) ==
    /\ call[Staff] = NoCall /\ p \in members /\ Trouble
    /\ blocked' = blocked \cup {p}
    /\ Vacate(Staff, p)
    /\ UNCHANGED <<dropped, twice>>

(* admitFromQueue: tryJoinRoom again, for the one promoted.                *)
Admit(s) ==
    /\ call[s].stage = "admit"
    /\ LET q == call[s].next IN
       \/ q \notin members /\ Full /\ Reply(s, "done") /\ UNCHANGED server
       \/ q \in members /\ To(s, "tell") /\ UNCHANGED server
       \/ /\ q \notin members /\ ~Full
          /\ members' = members \cup {q} /\ queue' = Without(queue, q)
          /\ UNCHANGED blocked /\ To(s, "tell")
    /\ UNCHANGED <<gateway, wires, page, history>>

(* Mutant: places counted from 0.                                          *)
TellFromZero(s) ==
    /\ call[s].stage = "tell"
    /\ down' = [p \in Profiles |-> down[p]
         \o Add(p, p = call[s].next, [type |-> "admitted"])
         \o Add(p, p \in inRoom /\ call[s].kind # "cancel", [type |-> "member"])
         \o Add(p, Contains(queue, p), [type |-> "waiting", position |-> RankIn(queue, p) - 1])]
    /\ Reply(s, "done")
    /\ UNCHANGED <<server, gateway, connected, up, page, history>>

(* QUEUE_ADMITTED to the one admitted, USER_JOINED to the room, and to all *)
(* in line their places (broadcastQueuePositions), after a cancellation    *)
(* too.  toProfile reaches a tab that is connected, in the room or not.    *)
Tell(s) ==
    /\ call[s].stage = "tell"
    /\ down' = [p \in Profiles |-> down[p]
         \o Add(p, p = call[s].next, [type |-> "admitted"])
         \o Add(p, p \in inRoom /\ call[s].kind # "cancel", [type |-> "member"])
         \o Add(p, Contains(queue, p), [type |-> "waiting", position |-> RankIn(queue, p)])]
    /\ Reply(s, "done")
    /\ UNCHANGED <<server, gateway, connected, up, page, history>>

-----------------------------------------------------------------------------
(* The answer reaches the page.  One that has been closed meanwhile has    *)
(* only the query cache left to change.                                    *)

Answered(p) == call[p].stage = "answer"
Done(p) == call' = [call EXCEPT ![p] = NoCall]

JoinAnswered(p) ==
    /\ Answered(p) /\ call[p].kind = "join"
    /\ page' = [page EXCEPT ![p] =
         CASE call[p].answer = "seated" -> Invalidated(@)
           [] call[p].answer = "full" /\ @.open ->
                [@ EXCEPT !.full = TRUE,
                          !.place = IF call[p].rank # 0 THEN call[p].rank ELSE page[p].place]
           [] OTHER -> @]
    /\ Done(p)
    /\ UNCHANGED <<server, gateway, wires, history>>

JoinQueueAnswered(p) ==
    /\ Answered(p) /\ call[p].kind = "enqueue"
    /\ page' = [page EXCEPT ![p] =
         CASE call[p].answer = "seated" -> Invalidated([@ EXCEPT !.full = FALSE])
           [] call[p].answer = "waiting" /\ @.open -> [@ EXCEPT !.place = call[p].rank]
           [] OTHER -> @]
    /\ Done(p)
    /\ UNCHANGED <<server, gateway, wires, history>>

(* Mutant: the page stays, and goes on showing the place.                  *)
LeaveQueueAnsweredHere(p) ==
    /\ Answered(p) /\ call[p].kind = "cancel"
    /\ Done(p)
    /\ UNCHANGED <<server, gateway, wires, page, history>>

(* The dialog goes back to the feed.                                       *)
LeaveQueueAnswered(p) ==
    /\ Answered(p) /\ call[p].kind = "cancel"
    /\ Shut(p, [page[p] EXCEPT !.place = 0])
    /\ Done(p)
    /\ UNCHANGED <<server, gateway, connected, history>>

LeaveAnswered(p) ==
    /\ Answered(p) /\ call[p].kind = "leave"
    /\ Shut(p, Invalidated(page[p]))
    /\ Done(p)
    /\ UNCHANGED <<server, gateway, connected, history>>

-----------------------------------------------------------------------------
(* The gateway.                                                            *)

(* emitPresence: the whole online list to everyone in the room.            *)
EmitPresence ==
    down' = [p \in Profiles |->
              down[p] \o Add(p, p \in inRoom', [type |-> "presence", profiles |-> online'])]

(* onJoinRoom: the seat is asked for first.  With one, the socket joins;   *)
(* without, it is sent an error, which the page shows for four seconds.    *)
OnJoinRoom(p) ==
    /\ p \in connected /\ up[p] # <<>> /\ Head(up[p]) = "JOIN_ROOM"
    /\ up' = [up EXCEPT ![p] = Tail(@)]
    /\ \/ /\ p \in members
          /\ inRoom' = inRoom \cup {p} /\ online' = online \cup {p}
          /\ EmitPresence
       \/ p \notin members /\ UNCHANGED <<gateway, down>>
    /\ UNCHANGED <<server, connected, call, page, history>>

OnLeaveRoom(p) ==
    /\ p \in connected /\ up[p] # <<>> /\ Head(up[p]) = "LEAVE_ROOM"
    /\ up' = [up EXCEPT ![p] = Tail(@)]
    /\ inRoom' = inRoom \ {p} /\ online' = online \ {p}
    /\ EmitPresence
    /\ UNCHANGED <<server, connected, call, page, history>>

(* The connection is lost with all it carried.  handleDisconnect finds     *)
(* socket.rooms empty by now, and leaves the online list as it is.         *)
Drop(p) ==
    /\ p \in Listening /\ Trouble
    /\ connected' = connected \ {p} /\ inRoom' = inRoom \ {p}
    /\ up' = [up EXCEPT ![p] = <<>>] /\ down' = [down EXCEPT ![p] = <<>>]
    /\ page' = [page EXCEPT ![p].missed = TRUE]
    /\ dropped' = dropped \cup {p}
    /\ UNCHANGED <<server, online, call, twice>>

(* What was kept back is sent, and "connect" subscribes again.             *)
Reconnect(p) ==
    /\ p \notin connected
    /\ connected' = connected \cup {p}
    /\ IF ShowsChat(p) THEN Emit(p, "JOIN_ROOM") ELSE UNCHANGED up
    /\ UNCHANGED <<server, gateway, down, call, page, history>>

-----------------------------------------------------------------------------
(* Mutant: the room is not read again on admission.                        *)
HeardUnread(p, e) ==
    LET pg == page[p] IN
    CASE e.type = "member" /\ ShowsChat(p) -> Invalidated(pg)
      [] e.type = "presence" /\ ShowsChat(p) -> [pg EXCEPT !.shown = e.profiles]
      [] e.type = "waiting" -> [pg EXCEPT !.place = e.position]
      [] e.type = "admitted" -> [pg EXCEPT !.full = FALSE, !.place = 0]
      [] OTHER -> pg

(* An event reaches the page: the handlers of the room's events are there  *)
(* while the page has a seat, those of the queue while it is open.         *)

Heard(p, e) ==
    LET pg == page[p] IN
    CASE e.type = "member" /\ ShowsChat(p) -> Invalidated(pg)
      [] e.type = "presence" /\ ShowsChat(p) -> [pg EXCEPT !.shown = e.profiles]
      [] e.type = "waiting" -> [pg EXCEPT !.place = e.position]
      [] e.type = "admitted" -> Invalidated([pg EXCEPT !.full = FALSE, !.place = 0])
      [] OTHER -> pg

Hear(p) ==
    /\ down[p] # <<>>
    /\ page' = [page EXCEPT ![p] = Heard(p, Head(down[p]))]
    /\ down' = [down EXCEPT ![p] = Tail(@)]
    /\ UNCHANGED <<server, gateway, connected, up, call, history>>

-----------------------------------------------------------------------------

OfPage(p) ==
    \/ ReadRoom(p) \/ ShowRoom(p) \/ Open(p) \/ Close(p)
    \/ AutoJoin(p) \/ JoinQueue(p) \/ LeaveQueue(p) \/ LeaveRoom(p)
    \/ JoinAnswered(p) \/ JoinQueueAnswered(p) \/ LeaveQueueAnswered(p) \/ LeaveAnswered(p)
    \/ Hear(p)

OfServer(p) ==
    \/ ServeJoin(p) \/ ServeEnqueue(p) \/ ServeCancel(p)
    \/ ServeLeave(p) \/ Kick(p)

OfHandler(s) ==
    \/ Admit(s) \/ Tell(s)

OfGateway(p) == OnJoinRoom(p) \/ OnLeaveRoom(p) \/ Drop(p) \/ Reconnect(p)

Next ==
    \/ \E p \in Profiles : OfPage(p) \/ OfServer(p) \/ OfGateway(p)
    \/ \E s \in Profiles \cup {Staff} : OfHandler(s)

Spec == Init /\ [][Next]_vars

-----------------------------------------------------------------------------
(* Nothing is on its way: every page shows what it is going to show.       *)
Quiet ==
    /\ call = [s \in Profiles \cup {Staff} |-> NoCall]
    /\ \A p \in Profiles :
         /\ up[p] = <<>> /\ down[p] = <<>>
         /\ page[p].fetch = "none"
         /\ page[p].open /\ page[p].room.seat = "no" => page[p].attempted

(* A page that nothing has passed by.                                      *)
InTouch(p) == page[p].open /\ p \in connected /\ ~page[p].missed

(* Whoever has a seat and his page open comes to see the chat, and to      *)
(* receive it, however he got the seat: by his own request or, behind his  *)
(* back, from the queue.  And whoever receives it has a seat: one who was  *)
(* removed has been told, and has left.  Who kept a place beside his seat  *)
(* is left out: it may admit him once more, after he has been removed.     *)
SeatReachesPage ==
    Quiet => \A p \in Profiles : InTouch(p) =>
        /\ p \in members \ twice => ShowsChat(p) /\ p \in inRoom
        /\ p \in inRoom => p \in members

(* The green dots: in the room are those whose page shows the chat, online *)
(* are those in the room, and every page shows them so.  Only a lost       *)
(* connection leaves a profile online that is not there.                   *)
PresenceAgrees ==
    Quiet =>
        /\ inRoom \subseteq online /\ online \ dropped \subseteq inRoom
        /\ \A p \in inRoom : ShowsChat(p) /\ (InTouch(p) => page[p].shown = online)

(* A place in line is never shown smaller than it is; and at rest it is    *)
(* shown only to those who are in line.  Two pages may be wrong about the  *)
(* latter: one opened again with what an earlier visit had read, and that  *)
(* of someone removed.                                                     *)
PlaceIsHonest ==
    /\ \A p \in Profiles : page[p].place # 0 /\ Contains(queue, p) =>
            RankIn(queue, p) <= page[p].place
    /\ Quiet => \A p \in Profiles :
            InTouch(p) /\ ShowsPlace(p) /\ ~page[p].kept /\ p \notin blocked => Contains(queue, p)

=============================================================================
