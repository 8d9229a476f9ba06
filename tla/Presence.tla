------------------------------ MODULE Presence ------------------------------
(***************************************************************************)
(* Who is connected, and the seats of those who are not: the connection    *)
(* handlers of chat.gateway.ts, the sorted set cr:sweepq and the sweeper   *)
(* worker (sweeper.service.ts), over one room.  The sweeper runs from      *)
(* await to await; the room's own requests, whose insides RoomSeats has,   *)
(* are one step each here.                                                 *)
(***************************************************************************)
EXTENDS Naturals, FiniteSets, WaitingLine

CONSTANTS
    Profiles,
    Tabs,          \* the Socket.IO connections a profile may have
    NoProfile,
    Sweepers,      \* the pods' sweepers
    Capacity,
    MaxFailures    \* bound on the leaves and ticks that an error ends

ASSUME PresenceAssumption == NoProfile \notin Profiles /\ {Capacity, MaxFailures} \subseteq Nat

VARIABLES
    socket,        \* each tab's connection, as the server sees it
    grace, due,    \* cr:sweepq in score order: not yet due, due
    lock,          \* cr:lock:sweeper is set
    tick,          \* each sweeper
    members, queue,        \* the room, in Redis
    participant, entries,  \* the room, in Postgres (see RoomSeats)
    failures

sweepq == <<grace, due>>
room == <<members, queue, participant, entries>>
vars == <<socket, sweepq, lock, tick, room, failures>>

-----------------------------------------------------------------------------

QueueStatus == {"WAITING", "ADMITTED", "CANCELLED"}

(* batch: what zrangebyscore returned, less the profiles done with; next:  *)
(* the head of the queue that leave has read.                              *)
Tick == [stage : {"idle", "read", "next", "check", "release", "admit", "waiting", "cancel", "zrem"},
         batch : Seq(Profiles), next : Profiles \cup {NoProfile}]

Resting == [stage |-> "idle", batch |-> <<>>, next |-> NoProfile]

(* A member of a sorted set occurs once.                                   *)
Line == {s \in Seq(Profiles) : IsInjective(s)}

TypeOK ==
    /\ socket \in [Profiles \X Tabs -> {"off", "connecting", "on", "closing"}]
    /\ grace \o due \in Line
    /\ lock \in BOOLEAN
    /\ tick \in [Sweepers -> Tick]
    /\ members \subseteq Profiles
    /\ queue \in Line
    /\ participant \in [Profiles -> {"none", "live", "left"}]
    /\ entries \in [Profiles -> SUBSET QueueStatus]
    /\ failures \in Nat

(* A room whose owner has left.                                            *)
Init ==
    /\ socket = [c \in Profiles \X Tabs |-> "off"]
    /\ grace = <<>> /\ due = <<>>
    /\ lock = FALSE
    /\ tick = [w \in Sweepers |-> Resting]
    /\ members = {} /\ queue = <<>>
    /\ participant = [p \in Profiles |-> "none"]
    /\ entries = [p \in Profiles |-> {}]
    /\ failures = 0

-----------------------------------------------------------------------------

Full == Cardinality(members) >= Capacity
Online(p) == \E t \in Tabs : socket[<<p, t>>] = "on"
Gone(p) == \A t \in Tabs : socket[<<p, t>>] = "off"
Scheduled(p) == Contains(grace \o due, p)

(* A request is sent by a page with a socket; one sent before the socket   *)
(* closed has ended before the grace period has.                           *)
Present(p) == Online(p) \/ Contains(grace, p)

(* A waiting row becomes final, unless the profile has a final row of that *)
(* kind already: then the update is refused and the error ends the caller. *)
Refused(p, final) == {"WAITING", final} \subseteq entries[p]
Resolved(p, final) ==
    IF "WAITING" \in entries[p]
    THEN [entries EXCEPT ![p] = (@ \ {"WAITING"}) \cup {final}] ELSE entries

-----------------------------------------------------------------------------
(* The gateway.                                                            *)

(* The handshake is over.                                                  *)
Connect(p, t) ==
    /\ socket[<<p, t>>] = "off"
    /\ socket' = [socket EXCEPT ![<<p, t>>] = "connecting"]
    /\ UNCHANGED <<sweepq, lock, tick, room, failures>>

(* Mutant: the pending release is not called off.                          *)
ConnectWithoutZrem(p, t) ==
    /\ socket[<<p, t>>] = "connecting"
    /\ socket' = [socket EXCEPT ![<<p, t>>] = "on"]
    /\ UNCHANGED <<sweepq, lock, tick, room, failures>>

(* handleConnection: ZREM cr:sweepq.                                       *)
HandleConnection(p, t) ==
    /\ socket[<<p, t>>] = "connecting"
    /\ socket' = [socket EXCEPT ![<<p, t>>] = "on"]
    /\ grace' = Without(grace, p) /\ due' = Without(due, p)
    /\ UNCHANGED <<lock, tick, room, failures>>

(* The tab closes, the network goes, the ping times out.                   *)
Disconnect(p, t) ==
    /\ socket[<<p, t>>] = "on"
    /\ socket' = [socket EXCEPT ![<<p, t>>] = "closing"]
    /\ UNCHANGED <<sweepq, lock, tick, room, failures>>

(* handleDisconnect: ZADD cr:sweepq, whatever other sockets there are.     *)
(* (Its loop over socket.rooms finds nothing: by the disconnect event the  *)
(* socket has left its rooms.)                                             *)
HandleDisconnect(p, t) ==
    /\ socket[<<p, t>>] = "closing"
    /\ socket' = [socket EXCEPT ![<<p, t>>] = "off"]
    /\ grace' = Append(Without(grace, p), p) /\ due' = Without(due, p)
    /\ UNCHANGED <<lock, tick, room, failures>>

(* The 60 seconds of the first one scheduled are over.                     *)
GraceEnds ==
    /\ grace # <<>>
    /\ grace' = Tail(grace) /\ due' = Append(due, Head(grace))
    /\ UNCHANGED <<socket, lock, tick, room, failures>>

-----------------------------------------------------------------------------
(* The room's requests.                                                    *)

Join(p) ==
    /\ Present(p) /\ p \notin members /\ ~Full
    /\ members' = members \cup {p}
    /\ queue' = Without(queue, p)
    /\ participant' = [participant EXCEPT ![p] = "live"]
    /\ UNCHANGED <<socket, sweepq, lock, tick, entries, failures>>

(* Mutant: ZADD without its membership check, as if a list were pushed.    *)
EnqueueTwice(p) ==
    /\ Present(p) /\ p \notin members /\ Full
    /\ Len(queue) < Cardinality(Profiles) + 1
    /\ queue' = Append(queue, p)
    /\ entries' = [entries EXCEPT ![p] = @ \cup {"WAITING"}]
    /\ UNCHANGED <<socket, sweepq, lock, tick, members, participant, failures>>

Enqueue(p) ==
    /\ Present(p) /\ p \notin members /\ Full
    /\ ~Contains(queue, p)
    /\ queue' = Append(queue, p)
    /\ entries' = [entries EXCEPT ![p] = @ \cup {"WAITING"}]
    /\ UNCHANGED <<socket, sweepq, lock, tick, members, participant, failures>>

CancelQueue(p) ==
    /\ Present(p) /\ Contains(queue, p)
    /\ queue' = Without(queue, p)
    /\ entries' = IF Refused(p, "CANCELLED") THEN entries ELSE Resolved(p, "CANCELLED")
    /\ UNCHANGED <<socket, sweepq, lock, tick, members, participant, failures>>

(* admitFromQueue, once the seat is taken.                                 *)
Seat(p, taken) ==
    /\ members' = taken \cup {p}
    /\ queue' = Without(queue, p)
    /\ entries' = IF Refused(p, "ADMITTED") THEN entries ELSE Resolved(p, "ADMITTED")

(* leave: the row, and the admission of the head of the queue.             *)
Leave(p) ==
    /\ Present(p) /\ p \in members
    /\ IF queue = <<>>
       THEN /\ members' = members \ {p}
            /\ participant' = [participant EXCEPT ![p] = "left"]
            /\ UNCHANGED <<queue, entries>>
       ELSE /\ Seat(Head(queue), members \ {p})
            /\ participant' = [participant EXCEPT ![p] = "left", ![Head(queue)] = "live"]
    /\ UNCHANGED <<socket, sweepq, lock, tick, failures>>

(* A leave that dies after its script: the row stays open.                 *)
LeaveAborted(p) ==
    /\ Present(p) /\ p \in members
    /\ failures < MaxFailures
    /\ failures' = failures + 1
    /\ members' = members \ {p}
    /\ UNCHANGED <<socket, sweepq, lock, tick, queue, participant, entries>>

-----------------------------------------------------------------------------
(* The sweeper.                                                            *)

At(w, stage) == tick[w].stage = stage
Goto(w, stage) == tick' = [tick EXCEPT ![w].stage = stage]
Abort(w) == tick' = [tick EXCEPT ![w] = Resting]
Swept(w) == Head(tick[w].batch)

(* SET NX EX 10; nobody deletes the lock.                                  *)
TakeLock(w) ==
    /\ At(w, "idle") /\ ~lock
    /\ lock' = TRUE
    /\ Goto(w, "read")
    /\ UNCHANGED <<socket, sweepq, room, failures>>

(* Mutant: SET NX without the EX.                                          *)
LockStays == FALSE /\ UNCHANGED vars

LockExpires ==
    /\ lock
    /\ lock' = FALSE
    /\ UNCHANGED <<socket, sweepq, tick, room, failures>>

(* zrangebyscore.                                                          *)
ReadDue(w) ==
    /\ At(w, "read")
    /\ tick' = [tick EXCEPT ![w].batch = due, ![w].stage = "next"]
    /\ UNCHANGED <<socket, sweepq, lock, room, failures>>

(* The next of the batch; its open Participant rows.                       *)
ReadSeats(w) ==
    /\ At(w, "next")
    /\ \/ tick[w].batch = <<>> /\ Abort(w)
       \/ /\ tick[w].batch # <<>>
          /\ IF participant[Swept(w)] = "live" THEN Goto(w, "check") ELSE Goto(w, "waiting")
    /\ UNCHANGED <<socket, sweepq, lock, room, failures>>

(* sismember; without a seat in Redis, only the row is closed.             *)
CheckSeat(w) ==
    /\ At(w, "check")
    /\ \/ Swept(w) \in members /\ Goto(w, "release") /\ UNCHANGED participant
       \/ /\ Swept(w) \notin members
          /\ participant' = [participant EXCEPT ![Swept(w)] =
                              IF @ = "live" THEN "left" ELSE @]
          /\ Goto(w, "waiting")
    /\ UNCHANGED <<socket, sweepq, lock, members, queue, entries, failures>>

(* releaseSeat is leave: leaveAndPromote and the row ...                   *)
ReleaseSeat(w) ==
    LET p == Swept(w) IN
    /\ At(w, "release")
    /\ members' = members \ {p}
    /\ participant' = [participant EXCEPT ![p] = IF @ = "live" THEN "left" ELSE @]
    /\ \/ queue = <<>> /\ Goto(w, "waiting")
       \/ queue # <<>> /\ tick' = [tick EXCEPT ![w].next = Head(queue), ![w].stage = "admit"]
    /\ UNCHANGED <<socket, sweepq, lock, queue, entries, failures>>

Admitted(w) == tick' = [tick EXCEPT ![w].next = NoProfile, ![w].stage = "waiting"]

(* ... then the admission of the head it read.                             *)
AdmitNext(w) ==
    LET p == tick[w].next IN
    /\ At(w, "admit")
    /\ \/ /\ Full /\ p \notin members
          /\ Admitted(w)
          /\ UNCHANGED room
       \/ /\ ~Full \/ p \in members
          /\ Seat(p, members)
          /\ participant' = [participant EXCEPT ![p] = "live"]
          /\ IF Refused(p, "ADMITTED") THEN Abort(w) ELSE Admitted(w)
    /\ UNCHANGED <<socket, sweepq, lock, failures>>

(* The rooms the profile waits for, by its WAITING rows.                   *)
ReadWaiting(w) ==
    /\ At(w, "waiting")
    /\ IF "WAITING" \in entries[Swept(w)] THEN Goto(w, "cancel") ELSE Goto(w, "zrem")
    /\ UNCHANGED <<socket, sweepq, lock, room, failures>>

(* cancelQueue: an update that is refused ends the tick.                   *)
CancelWaiting(w) ==
    LET p == Swept(w) IN
    /\ At(w, "cancel")
    /\ queue' = Without(queue, p)
    /\ \/ Refused(p, "CANCELLED") /\ Abort(w) /\ UNCHANGED entries
       \/ /\ ~Refused(p, "CANCELLED")
          /\ entries' = Resolved(p, "CANCELLED")
          /\ Goto(w, "zrem")
    /\ UNCHANGED <<socket, sweepq, lock, members, participant, failures>>

Unschedule(w) ==
    LET p == Swept(w) IN
    /\ At(w, "zrem")
    /\ grace' = Without(grace, p) /\ due' = Without(due, p)
    /\ tick' = [tick EXCEPT ![w].batch = Tail(@), ![w].stage = "next"]
    /\ UNCHANGED <<socket, lock, room, failures>>

(* A call throws or the pod dies: the rest of the batch stays scheduled.   *)
Fail(w) ==
    /\ ~At(w, "idle")
    /\ failures < MaxFailures
    /\ failures' = failures + 1
    /\ Abort(w)
    /\ UNCHANGED <<socket, sweepq, lock, room>>

-----------------------------------------------------------------------------

Handlers(p, t) == HandleConnection(p, t) \/ HandleDisconnect(p, t)

Sweep(w) ==
    \/ ReadDue(w)  \/ ReadSeats(w)  \/ CheckSeat(w)  \/ ReleaseSeat(w)
    \/ AdmitNext(w)  \/ ReadWaiting(w)  \/ CancelWaiting(w)  \/ Unschedule(w)

Next ==
    \/ \E p \in Profiles, t \in Tabs : Connect(p, t) \/ Disconnect(p, t) \/ Handlers(p, t)
    \/ \E p \in Profiles : Join(p) \/ Enqueue(p) \/ CancelQueue(p) \/ Leave(p) \/ LeaveAborted(p)
    \/ \E w \in Sweepers : TakeLock(w) \/ Sweep(w) \/ Fail(w)
    \/ GraceEnds \/ LockExpires

Spec == Init /\ [][Next]_vars

(* Handlers end, time passes, and every pod tries a tick every 15 seconds. *)
Fairness ==
    /\ \A p \in Profiles, t \in Tabs : WF_vars(Handlers(p, t))
    /\ \A w \in Sweepers : WF_vars(Sweep(w))
    /\ WF_vars(\E w \in Sweepers : TakeLock(w))
    /\ WF_vars(GraceEnds)

-----------------------------------------------------------------------------
(* Properties.                                                             *)

Holds(p) == p \in members \/ Contains(queue, p)

(* A profile with an open socket is not waiting to be swept; and one       *)
(* without sockets that holds a seat or a place in line is: no seat is     *)
(* forgotten.                                                              *)
ScheduleFollowsPresence ==
    \A p \in Profiles :
        /\ Online(p) => ~Scheduled(p)
        /\ Gone(p) /\ Holds(p) => Scheduled(p)

(* A seat or a place whose profile went away is given up, unless he        *)
(* returns: the sweeper gets round to everyone, failures or not.           *)
AbandonedGivenUp ==
    \A p \in Profiles : (Gone(p) /\ Holds(p)) ~> (~Holds(p) \/ ~Gone(p))

(* The sweeper takes a seat only from a profile without an open socket.    *)
SweptOnlyOffline ==
    [][\A w \in Sweepers : At(w, "release") /\ tick'[w] # tick[w] /\ failures' = failures
         => ~Online(Swept(w))]_vars

=============================================================================
