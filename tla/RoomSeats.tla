------------------------------ MODULE RoomSeats ------------------------------
(***************************************************************************)
(* One chat room: ChatroomsService (chatrooms.service.ts) over the atomic  *)
(* Lua scripts of RedisService (redis.service.ts).                         *)
(*                                                                         *)
(* Seats and the waiting queue live in Redis; Participant rows, queue      *)
(* entries and the roomsJoined counter live in Postgres and are written    *)
(* afterwards.  A request is a handler running between awaits: each action *)
(* below is the code from one await to the next, so the requests in flight *)
(* interleave exactly where Node can interleave them.                      *)
(***************************************************************************)
EXTENDS Naturals, FiniteSets, WaitingLine

CONSTANTS
    Profiles,      \* the anonymous profiles that use the room
    Owner,         \* its creator, the only room moderator
    Seated,        \* those who have joined, and not left, when we look first
    NoProfile,     \* "nobody"
    Capacity,      \* Chatroom.capacity
    Requests,      \* handlers that may be in flight at once
    Skew,          \* places a newcomer may land before the end of the queue
    MaxRequests,   \* bound on the requests that arrive
    MaxFailures    \* bound on the requests that die half way

ASSUME CapacityAssumption == Capacity \in Nat \ {0}
ASSUME ProfilesAssumption == IsFiniteSet(Profiles) /\ Owner \in Profiles
ASSUME NoProfileAssumption == NoProfile \notin Profiles
ASSUME SeatedAssumption ==
    Seated \subseteq Profiles /\ Owner \in Seated /\ Cardinality(Seated) <= Capacity
ASSUME BoundsAssumption == {Skew, MaxRequests, MaxFailures} \subseteq Nat

VARIABLES
    members,       \* Redis set cr:room:<id>:members
    queue,         \* Redis sorted set cr:room:<id>:queue
    blocked,       \* profiles with a live key cr:block:<id>:<profile>
    activeCount,   \* the room's score in cr:activerooms (0: not listed)
    participant,   \* the Participant row of each profile
    roomsJoined,   \* AnonymousProfile.roomsJoined, as far as this room counts
    entries,       \* the WaitingQueueEntry rows of each profile, by status
    req,           \* the handlers in flight
    received,      \* how many requests have arrived
    failures       \* how many of them died

redis == <<members, queue, blocked, activeCount>>
postgres == <<participant, roomsJoined, entries>>
tally == <<received, failures>>
vars == <<redis, postgres, req, tally>>

-----------------------------------------------------------------------------
(* Rows and requests.                                                      *)

RowState == {"none", "live", "left"}      \* no row, leftAt null, leftAt set
QueueStatus == {"WAITING", "ADMITTED", "CANCELLED"}
Kind == {"none", "join", "leave", "enqueue", "cancel", "kick", "admit"}
Stage == {"idle", "check", "seat", "line", "mirror", "find", "create",
          "revive", "unline", "resolve", "count", "index",
          "authorize", "block", "vacate", "close"}

(* who: the profile being seated, queued or removed; next: the promoted    *)
(* head a leave has read; seen: the SCARD a syncRoomActivity has read.     *)
Request == [kind : Kind, stage : Stage, who : Profiles \cup {NoProfile},
            next : Profiles \cup {NoProfile}, seen : Nat]

Idle == [kind |-> "none", stage |-> "idle", who |-> NoProfile,
         next |-> NoProfile, seen |-> 0]

FirstStage == [join |-> "check", enqueue |-> "check", leave |-> "vacate",
               cancel |-> "unline", kick |-> "authorize"]

TypeOK ==
    /\ members \subseteq Profiles
    /\ queue \in Seq(Profiles)
    /\ blocked \subseteq Profiles
    /\ activeCount \in Nat
    /\ participant \in [Profiles -> RowState]
    /\ roomsJoined \in [Profiles -> Nat]
    /\ entries \in [Profiles -> SUBSET QueueStatus]
    /\ req \in [Requests -> Request]
    /\ received \in Nat
    /\ failures \in Nat

(* PromptsService.create has committed the prompt, the room and the OWNER  *)
(* row and seated the creator (it lists no activity and counts no          *)
(* roomsJoined); the others of Seated have joined since.                   *)
Init ==
    /\ members = Seated
    /\ queue = <<>>
    /\ blocked = {}
    /\ activeCount = IF Seated = {Owner} THEN 0 ELSE Cardinality(Seated)
    /\ participant = [p \in Profiles |-> IF p \in Seated THEN "live" ELSE "none"]
    /\ roomsJoined = [p \in Profiles |-> IF p \in Seated \ {Owner} THEN 1 ELSE 0]
    /\ entries = [p \in Profiles |-> {}]
    /\ req = [r \in Requests |-> Idle]
    /\ received = 0
    /\ failures = 0

-----------------------------------------------------------------------------
(* Control of a request.                                                   *)

At(r, stage) == req[r].stage = stage
Goto(r, stage) == req' = [req EXCEPT ![r].stage = stage]
Finish(r) == req' = [req EXCEPT ![r] = Idle]

Full == Cardinality(members) >= Capacity

(* A request arrives from the HTTP controller, or from the sweeper: leave  *)
(* and cancelQueue are what releaseSeat and the queue sweep call.          *)
Receive(r, kind, p) ==
    /\ At(r, "idle")
    /\ received < MaxRequests
    /\ received' = received + 1
    /\ req' = [req EXCEPT ![r] =
                [Idle EXCEPT !.kind = kind, !.who = p, !.stage = FirstStage[kind]]]
    /\ UNCHANGED <<redis, postgres, failures>>

(* Mutant: only a join asks whether he is blocked.                         *)
AssertJoinNotBlocked(r) ==
    /\ At(r, "check")
    /\ \/ req[r].who \in blocked /\ req[r].kind = "join" /\ Finish(r)
       \/ req[r].who \notin blocked /\ req[r].kind = "join" /\ Goto(r, "seat")
       \/ req[r].kind = "enqueue" /\ Goto(r, "line")
    /\ UNCHANGED <<redis, postgres, tally>>

(* assertNotBlocked, on the way into join and enqueue.                     *)
AssertNotBlocked(r) ==
    /\ At(r, "check")
    /\ \/ req[r].who \in blocked /\ Finish(r)
       \/ req[r].who \notin blocked /\ req[r].kind = "join" /\ Goto(r, "seat")
       \/ req[r].who \notin blocked /\ req[r].kind = "enqueue" /\ Goto(r, "line")
    /\ UNCHANGED <<redis, postgres, tally>>

(* Mutant: `n > cap` for `n >= cap` in the script.                         *)
TryJoinRoomOffByOne(r) ==
    LET p == req[r].who IN
    /\ At(r, "seat")
    /\ IF Cardinality(members) <= Capacity
       THEN members' = members \cup {p} /\ queue' = Without(queue, p) /\ Goto(r, "find")
       ELSE Finish(r) /\ UNCHANGED <<members, queue>>
    /\ UNCHANGED <<blocked, activeCount, postgres, tally>>

(* The script tryJoinRoom, run by join and by admitFromQueue.              *)
TryJoinRoom(r) ==
    LET p == req[r].who IN
    /\ At(r, "seat")
    /\ \/ p \in members /\ Goto(r, "find") /\ UNCHANGED <<members, queue>>
       \/ p \notin members /\ Full /\ Finish(r) /\ UNCHANGED <<members, queue>>
       \/ /\ p \notin members /\ ~Full
          /\ members' = members \cup {p}
          /\ queue' = Without(queue, p)
          /\ Goto(r, "find")
    /\ UNCHANGED <<blocked, activeCount, postgres, tally>>

(* Mutant: ZADD without NX sends whoever asks again to the end.            *)
EnqueueAgainAtEnd(r) ==
    LET p == req[r].who IN
    /\ At(r, "line")
    /\ IF Full /\ p \notin members
       THEN queue' = Append(Without(queue, p), p) /\ Goto(r, "mirror")
       ELSE UNCHANGED queue /\ Finish(r)
    /\ UNCHANGED <<members, blocked, activeCount, postgres, tally>>

(* The script enqueueWaiting.  ZADD NX leaves an entry where it stands.    *)
EnqueueWaiting(r) ==
    LET p == req[r].who IN
    /\ At(r, "line")
    /\ \/ p \in members /\ Finish(r) /\ UNCHANGED <<members, queue>>
       \/ /\ p \notin members /\ ~Full
          /\ members' = members \cup {p}
          /\ Goto(r, "find")
          /\ UNCHANGED queue
       \/ /\ p \notin members /\ Full
          /\ IF Contains(queue, p)
             THEN UNCHANGED queue
             ELSE \E i \in Places(queue, Skew) : queue' = InsertAt(queue, i, p)
          /\ Goto(r, "mirror")
          /\ UNCHANGED members
    /\ UNCHANGED <<blocked, activeCount, postgres, tally>>

(* enqueue: upsert the WAITING row.                                        *)
MirrorEntry(r) ==
    /\ At(r, "mirror")
    /\ entries' = [entries EXCEPT ![req[r].who] = @ \cup {"WAITING"}]
    /\ Finish(r)
    /\ UNCHANGED <<redis, participant, roomsJoined, tally>>

(* persistJoin, and what follows it in the three callers.                  *)
AfterPersist(r) ==
    IF req[r].kind = "admit" THEN Goto(r, "resolve") ELSE Goto(r, "count")

FindParticipant(r) ==
    LET row == participant[req[r].who] IN
    /\ At(r, "find")
    /\ \/ row = "none" /\ Goto(r, "create")
       \/ row = "left" /\ Goto(r, "revive")
       \/ row = "live" /\ AfterPersist(r)
    /\ UNCHANGED <<redis, postgres, tally>>

(* Mutant: an upsert in place of create, counting every time.              *)
CreateOrCountAgain(r) ==
    LET p == req[r].who IN
    /\ At(r, "create")
    /\ participant' = [participant EXCEPT ![p] = "live"]
    /\ roomsJoined' = [roomsJoined EXCEPT ![p] = @ + 1]
    /\ AfterPersist(r)
    /\ UNCHANGED <<redis, entries, tally>>

(* The transaction fails as a whole (unique chatroomId, profileId) when    *)
(* another request created the row since findUnique; the error ends the    *)
(* request.                                                                *)
CreateParticipant(r) ==
    LET p == req[r].who IN
    /\ At(r, "create")
    /\ \/ /\ participant[p] = "none"
          /\ participant' = [participant EXCEPT ![p] = "live"]
          /\ roomsJoined' = [roomsJoined EXCEPT ![p] = @ + 1]
          /\ AfterPersist(r)
       \/ /\ participant[p] # "none"
          /\ Finish(r)
          /\ UNCHANGED <<participant, roomsJoined>>
    /\ UNCHANGED <<redis, entries, tally>>

ReviveParticipant(r) ==
    /\ At(r, "revive")
    /\ participant' = [participant EXCEPT ![req[r].who] = "live"]
    /\ AfterPersist(r)
    /\ UNCHANGED <<redis, roomsJoined, entries, tally>>

(* cancelQueue: ZREM, then the durable rows.                               *)
LeaveLine(r) ==
    /\ At(r, "unline")
    /\ queue' = Without(queue, req[r].who)
    /\ Goto(r, "resolve")
    /\ UNCHANGED <<members, blocked, activeCount, postgres, tally>>

(* updateMany WAITING -> CANCELLED (cancelQueue) or ADMITTED (admission).  *)
(* One row per (room, profile, status): the update is refused when the     *)
(* profile already has a row with the new status, and the error ends the   *)
(* request: an admission then sends neither the notification row nor the   *)
(* QUEUE_ADMITTED event that follow it.                                    *)
ResolveEntry(r) ==
    LET p == req[r].who
        final == IF req[r].kind = "admit" THEN "ADMITTED" ELSE "CANCELLED"
        Continue == IF req[r].kind = "admit" THEN Goto(r, "count") ELSE Finish(r)
    IN
    /\ At(r, "resolve")
    /\ \/ "WAITING" \notin entries[p] /\ Continue /\ UNCHANGED entries
       \/ /\ {"WAITING", final} \subseteq entries[p]
          /\ Finish(r)
          /\ UNCHANGED entries
       \/ /\ "WAITING" \in entries[p] /\ final \notin entries[p]
          /\ entries' = [entries EXCEPT ![p] = (@ \ {"WAITING"}) \cup {final}]
          /\ Continue
    /\ UNCHANGED <<redis, participant, roomsJoined, tally>>

(* syncRoomActivity: SCARD, then ZADD or ZREM on cr:activerooms.           *)
CountMembers(r) ==
    /\ At(r, "count")
    /\ req' = [req EXCEPT ![r].seen = Cardinality(members), ![r].stage = "index"]
    /\ UNCHANGED <<redis, postgres, tally>>

(* Mutant: the handler ends without its `if (next)`.                       *)
IndexAndForget(r) ==
    /\ At(r, "index")
    /\ activeCount' = req[r].seen
    /\ Finish(r)
    /\ UNCHANGED <<members, queue, blocked, postgres, tally>>

(* ... and a leave that read a queue head goes on to admit it.             *)
IndexActivity(r) ==
    /\ At(r, "index")
    /\ activeCount' = req[r].seen
    /\ \/ req[r].next = NoProfile /\ Finish(r)
       \/ /\ req[r].next # NoProfile
          /\ req' = [req EXCEPT ![r] =
                [Idle EXCEPT !.kind = "admit", !.who = req[r].next, !.stage = "seat"]]
    /\ UNCHANGED <<members, queue, blocked, postgres, tally>>

(* kick: assertRoomModerator.  The actor is the owner, who must hold a     *)
(* live row and may not name himself, or site staff, who always pass.      *)
AuthorizeKick(r) ==
    /\ At(r, "authorize")
    /\ \/ Goto(r, "block")
       \/ (participant[Owner] # "live" \/ req[r].who = Owner) /\ Finish(r)
    /\ UNCHANGED <<redis, postgres, tally>>

BlockProfile(r) ==
    /\ At(r, "block")
    /\ blocked' = blocked \cup {req[r].who}
    /\ Goto(r, "vacate")
    /\ UNCHANGED <<members, queue, activeCount, postgres, tally>>

(* Mutant: ZRANGE queue 1 1, as if ranks counted from one.                 *)
LeavePromotesSecond(r) ==
    /\ At(r, "vacate")
    /\ members' = members \ {req[r].who}
    /\ req' = [req EXCEPT ![r].stage = "close",
                          ![r].next = IF Len(queue) < 2 THEN NoProfile ELSE queue[2]]
    /\ UNCHANGED <<queue, blocked, activeCount, postgres, tally>>

(* leave: the script leaveAndPromote.  The head is read, not removed.      *)
LeaveAndPromote(r) ==
    /\ At(r, "vacate")
    /\ members' = members \ {req[r].who}
    /\ req' = [req EXCEPT ![r].stage = "close",
                          ![r].next = IF queue = <<>> THEN NoProfile ELSE Head(queue)]
    /\ UNCHANGED <<queue, blocked, activeCount, postgres, tally>>

(* Mutants: leaving takes the count back; the row is not closed.           *)
CloseAndUncount(r) ==
    LET p == req[r].who IN
    /\ At(r, "close")
    /\ participant' = [participant EXCEPT ![p] = IF @ = "live" THEN "left" ELSE @]
    /\ roomsJoined' = [roomsJoined EXCEPT ![p] = @ - 1]
    /\ Goto(r, "count")
    /\ UNCHANGED <<redis, entries, tally>>

CloseNothing(r) ==
    At(r, "close") /\ Goto(r, "count") /\ UNCHANGED <<redis, postgres, tally>>

CloseParticipant(r) ==
    LET p == req[r].who IN
    /\ At(r, "close")
    /\ participant' = [participant EXCEPT ![p] = IF @ = "live" THEN "left" ELSE @]
    /\ Goto(r, "count")
    /\ UNCHANGED <<redis, roomsJoined, entries, tally>>

(* The ten minutes of cr:block run out.                                    *)
ExpireBlock(p) ==
    /\ p \in blocked
    /\ blocked' = blocked \ {p}
    /\ UNCHANGED <<members, queue, activeCount, postgres, req, tally>>

(* The pod dies, or a Redis or Postgres call throws: the rest of the       *)
(* handler never runs.                                                     *)
Fail(r) ==
    /\ ~At(r, "idle")
    /\ failures < MaxFailures
    /\ failures' = failures + 1
    /\ Finish(r)
    /\ UNCHANGED <<redis, postgres, received>>

-----------------------------------------------------------------------------

(* One continuation of the handler running as r.                           *)
Step(r) ==
    \/ AssertNotBlocked(r)  \/ TryJoinRoom(r)       \/ EnqueueWaiting(r)
    \/ MirrorEntry(r)       \/ FindParticipant(r)   \/ CreateParticipant(r)
    \/ ReviveParticipant(r) \/ LeaveLine(r)         \/ ResolveEntry(r)
    \/ CountMembers(r)      \/ IndexActivity(r)     \/ AuthorizeKick(r)
    \/ BlockProfile(r)      \/ LeaveAndPromote(r)   \/ CloseParticipant(r)

Next ==
    \/ \E r \in Requests :
        \/ \E kind \in DOMAIN FirstStage, p \in Profiles : Receive(r, kind, p)
        \/ Step(r)
        \/ Fail(r)
    \/ \E p \in Profiles : ExpireBlock(p)

Spec == Init /\ [][Next]_vars

(* Node runs every continuation whose promise has settled.                 *)
FairSpec == Spec /\ \A r \in Requests : WF_vars(Step(r))

-----------------------------------------------------------------------------
(* Properties.                                                             *)

InFlight == {r \in Requests : ~At(r, "idle")}
AtRest == InFlight = {}

(* However joins, enqueues and admissions interleave, the member set never *)
(* holds more profiles than the room has seats.                            *)
CapacityNeverExceeded == Cardinality(members) <= Capacity

(* roomsJoined counts a profile once for this room, and only together with *)
(* its Participant row, even when several requests persist the same join.  *)
JoinCountedOnce ==
    \A p \in Profiles \ {Owner} :
        roomsJoined[p] = IF participant[p] = "none" THEN 0 ELSE 1

(* At rest, no seat is free while somebody waits for one: every seat given *)
(* up was handed to the head of the queue or retaken by a direct join.     *)
NextWaiterAdmitted == AtRest => Full \/ queue = <<>>

(* A seat given up while somebody waits is eventually taken again, by the  *)
(* admission the leave started or by whoever was faster.                   *)
SeatHandedOn == (~Full /\ queue # <<>>) ~> (Full \/ queue = <<>>)

(* At rest, the durable record agrees with Redis: the profiles with a live *)
(* Participant row are exactly those that hold a seat, and whoever stands  *)
(* in the queue has the WAITING row that says so.  (Not the converse: a    *)
(* waiter who joins directly keeps his row.)                               *)
RowsMatchSeats ==
    AtRest =>
        /\ members = {p \in Profiles : participant[p] = "live"}
        /\ \A p \in Profiles : Contains(queue, p) => "WAITING" \in entries[p]

(* Nobody is given a seat during the block that follows a kick.            *)
KickedStaysOut == [][\A p \in members' \ members : p \notin blocked]_vars

(* The Redis half of the room implements the abstract seat book.           *)
Book == INSTANCE SeatBook WITH seats <- members, line <- queue
ImplementsSeatBook == Book!Spec

=============================================================================
