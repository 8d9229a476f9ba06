------------------------------ MODULE Overflow ------------------------------
(***************************************************************************)
(* Parallel rooms for one subject: the last lines of ChatroomsService.join *)
(* and the two functions it starts without waiting for them,               *)
(* spawnOverflowRoom for prompts and maybeDuplicateTopic for topics        *)
(* (chatrooms.service.ts).  The rooms are those of one subject, in order   *)
(* of creation; who sits in them is RoomSeats, here they are counted.      *)
(* Private prompts are never copied and are left out.                      *)
(***************************************************************************)
EXTENDS Naturals, FiniteSets, Sequences

CONSTANTS Joins,       \* join requests in flight, each with what it starts
          Crowd,       \* a prompt's capacity, a topic's TOPIC_OVERFLOW_AT
          Considered,  \* how many copies spawnOverflowRoom looks at
          MaxRooms, MaxCrowd, MaxLeaves, MaxDirect    \* bounds

ASSUME CrowdAssumption == Crowd \in Nat \ {0, 1} /\ Considered \in Nat \ {0}
ASSUME OverflowBoundsAssumption ==
    MaxRooms \in Nat \ {0} /\ {MaxCrowd, MaxLeaves, MaxDirect} \subseteq Nat

VARIABLES
    subject,   \* "prompt" or "topic"
    seated,    \* the SCARD of each room's member set
    number,    \* the -room-<n> of each topic's slug; a prompt has none
    join,      \* the requests
    leaves,    \* seats given up so far
    direct     \* seats taken by admission or enqueue so far

overflowVars == <<subject, seated, number, join, leaves, direct>>

Stage == {"idle", "count", "recount", "find", "siblings"}
JoinRecord == [stage : Stage, room : 0 .. MaxRooms,
               rest : SUBSET (1 .. MaxRooms), found : 0 .. MaxRooms]
Idle == [stage |-> "idle", room |-> 0, rest |-> {}, found |-> 0]

OverflowTypeOK ==
    /\ subject \in {"prompt", "topic"}
    /\ seated \in Seq(Nat) /\ Len(seated) <= MaxRooms
    /\ number \in Seq(Nat) /\ Len(number) = Len(seated)
    /\ subject = "topic" => \A i, j \in DOMAIN number : number[i] = number[j] => i = j
    /\ join \in [Joins -> JoinRecord]
    /\ leaves \in Nat /\ direct \in Nat

(* Whoever creates a prompt sits in its room; copies begin empty.          *)
OverflowInit ==
    /\ subject \in {"prompt", "topic"}
    /\ seated = <<IF subject = "topic" THEN 0 ELSE 1>>
    /\ number = <<IF subject = "topic" THEN 1 ELSE 0>>
    /\ join = [x \in Joins |-> Idle]
    /\ leaves = 0 /\ direct = 0

-----------------------------------------------------------------------------

At(x, stage) == join[x].stage = stage
Goto(x, stage) == join' = [join EXCEPT ![x].stage = stage]
Finish(x) == join' = [join EXCEPT ![x] = Idle]

Crowded(i) == seated[i] >= Crowd
Open == {i \in DOMAIN seated : ~Crowded(i)}

(* tryJoinRoom: a prompt's seats are limited, a topic's are not.  Whoever  *)
(* sits there already (again = TRUE) goes through the same motions.        *)
TakeSeat(x, i, again) ==
    /\ At(x, "idle")
    /\ IF again THEN seated[i] > 0 /\ UNCHANGED seated
                ELSE /\ subject = "prompt" => ~Crowded(i)
                     /\ seated[i] < MaxCrowd
                     /\ seated' = [seated EXCEPT ![i] = @ + 1]
    /\ join' = [join EXCEPT ![x] = [Idle EXCEPT !.stage = "count", !.room = i]]
    /\ UNCHANGED <<subject, number, leaves, direct>>

(* Mutant: one too many before a room counts as full.                      *)
CountSeatsOffByOne(x) ==
    /\ At(x, "count")
    /\ IF seated[join[x].room] <= Crowd THEN Finish(x)
       ELSE Goto(x, IF subject = "topic" THEN "recount" ELSE "find")
    /\ UNCHANGED <<subject, seated, number, leaves, direct>>

(* The request counts after the seat is recorded, and answers; what it     *)
(* starts goes on alone.                                                   *)
CountSeats(x) ==
    /\ At(x, "count")
    /\ IF ~Crowded(join[x].room) THEN Finish(x)
       ELSE Goto(x, IF subject = "topic" THEN "recount" ELSE "find")
    /\ UNCHANGED <<subject, seated, number, leaves, direct>>

(* maybeDuplicateTopic counts again.                                       *)
Recount(x) ==
    /\ At(x, "recount")
    /\ IF Crowded(join[x].room) THEN Goto(x, "find") ELSE Finish(x)
    /\ UNCHANGED <<subject, seated, number, leaves, direct>>

(* Mutant: the siblings are counted as rooms, not looked at.               *)
FindSiblingsUnseen(x) ==
    /\ At(x, "find")
    /\ join' = [join EXCEPT ![x].stage = "siblings", ![x].found = Len(seated)]
    /\ UNCHANGED <<subject, seated, number, leaves, direct>>

(* All rooms of a topic; of a prompt's copies a limited number.            *)
FindSiblings(x) ==
    /\ At(x, "find")
    /\ \E S \in SUBSET DOMAIN seated :
        /\ IF subject = "topic" \/ Len(seated) <= Considered
           THEN S = DOMAIN seated ELSE Cardinality(S) = Considered
        /\ join' = [join EXCEPT ![x].stage = "siblings",
                                ![x].rest = S \ {join[x].room},
                                ![x].found = Cardinality(S)]
    /\ UNCHANGED <<subject, seated, number, leaves, direct>>

(* One sibling after the other, until one has room.                        *)
CountSibling(x) ==
    /\ At(x, "siblings")
    /\ \E i \in join[x].rest :
          IF Crowded(i) THEN join' = [join EXCEPT ![x].rest = @ \ {i}] ELSE Finish(x)
    /\ UNCHANGED <<subject, seated, number, leaves, direct>>

(* Mutant: the slug of a topic is not unique.                              *)
CreateAnyCopy(x) ==
    /\ At(x, "siblings") /\ join[x].rest = {}
    /\ Len(seated) < MaxRooms
    /\ seated' = Append(seated, 0) /\ number' = Append(number, join[x].found + 1)
    /\ Finish(x)
    /\ UNCHANGED <<subject, leaves, direct>>

(* None has: an empty copy.  A topic's is numbered, and refused when two   *)
(* chose the same number.                                                  *)
CreateCopy(x) ==
    LET next == join[x].found + 1
        taken == subject = "topic" /\ \E j \in DOMAIN number : number[j] = next
    IN
    /\ At(x, "siblings") /\ join[x].rest = {}
    /\ taken \/ Len(seated) < MaxRooms
    /\ seated' = IF taken THEN seated ELSE Append(seated, 0)
    /\ number' = IF taken THEN number ELSE Append(number, IF subject = "topic" THEN next ELSE 0)
    /\ Finish(x)
    /\ UNCHANGED <<subject, leaves, direct>>

Leave(i) ==
    /\ seated[i] > 0
    /\ leaves < MaxLeaves
    /\ leaves' = leaves + 1
    /\ seated' = [seated EXCEPT ![i] = @ - 1]
    /\ UNCHANGED <<subject, number, join, direct>>

(* A seat given by enqueue or to the head of the queue: neither counts.    *)
SeatDirectly(i) ==
    /\ subject = "prompt" /\ ~Crowded(i)
    /\ direct < MaxDirect
    /\ direct' = direct + 1
    /\ seated' = [seated EXCEPT ![i] = @ + 1]
    /\ UNCHANGED <<subject, number, join, leaves>>

-----------------------------------------------------------------------------

Step(x) ==
    \/ CountSeats(x) \/ Recount(x) \/ FindSiblings(x) \/ CountSibling(x)
    \/ CreateCopy(x)

OverflowNext ==
    \/ \E x \in Joins :
        \/ \E i \in DOMAIN seated, again \in BOOLEAN : TakeSeat(x, i, again)
        \/ Step(x)
    \/ \E i \in DOMAIN seated : Leave(i) \/ SeatDirectly(i)

OverflowSpec == OverflowInit /\ [][OverflowNext]_overflowVars

-----------------------------------------------------------------------------
(* Properties.                                                             *)

AtRest == \A x \in Joins : At(x, "idle")

(* Whoever comes next has somewhere to go: when nothing is in flight, some *)
(* room of the subject is not crowded, as long as every seat was taken by  *)
(* a join.                                                                 *)
StaysJoinable == AtRest /\ direct = 0 => Open # {}

(* Crowds do not spiral into ever more rooms for one topic: unless people  *)
(* left, at most one of them has space, however many joins overlap.        *)
OneSpareTopic == subject = "topic" /\ leaves = 0 => Cardinality(Open) <= 1

=============================================================================
