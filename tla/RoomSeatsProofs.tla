-------------------------- MODULE RoomSeatsProofs --------------------------
(***************************************************************************)
(* What holds of RoomSeats for every set of profiles, every capacity and   *)
(* any number of requests in flight.                                       *)
(***************************************************************************)
EXTENDS MCRoomSeats, FiniteSetTheorems, SequenceTheorems, TLAPS

-----------------------------------------------------------------------------
(* The waiting line.                                                       *)

(* Taking one entry out leaves a line of profiles.                         *)
LEMMA RemoveAtType ==
    ASSUME NEW S, NEW line \in Seq(S), NEW k \in 1 .. Len(line)
    PROVE  RemoveAt(line, k) \in Seq(S)
<1>1. SubSeq(line, 1, k - 1) \in Seq(S)
  <2>1. \A i \in 1 .. k - 1 : line[i] \in S
    OBVIOUS
  <2> QED BY <2>1, SubSeqProperties
<1>2. SubSeq(line, k + 1, Len(line)) \in Seq(S)
  <2>1. \A i \in k + 1 .. Len(line) : line[i] \in S
    OBVIOUS
  <2> QED BY <2>1, SubSeqProperties
<1> QED BY <1>1, <1>2 DEF RemoveAt

(* ZREM leaves a line of profiles.                                         *)
LEMMA WithoutType ==
    ASSUME NEW S, NEW line \in Seq(S), NEW p
    PROVE  Without(line, p) \in Seq(S)
<1>1. CASE ~Contains(line, p)
  BY <1>1 DEF Without
<1>2. CASE Contains(line, p)
  <2>1. (CHOOSE j \in DOMAIN line : line[j] = p) \in 1 .. Len(line)
    BY <1>2 DEF Contains
  <2> QED BY <1>2, <2>1, RemoveAtType DEF Without
<1> QED BY <1>1, <1>2

(* ZADD leaves a line of profiles.                                         *)
LEMMA InsertType ==
    ASSUME NEW S, NEW line \in Seq(S), NEW p \in S, NEW skew,
           NEW i \in Places(line, skew)
    PROVE  InsertAt(line, i, p) \in Seq(S)
<1>1. i \in 1 .. Len(line) + 1
  BY DEF Places
<1>2. SubSeq(line, 1, i - 1) \in Seq(S)
  <2>1. \A j \in 1 .. i - 1 : line[j] \in S
    BY <1>1
  <2> QED BY <1>1, <2>1, SubSeqProperties
<1>3. SubSeq(line, i, Len(line)) \in Seq(S)
  <2>1. \A j \in i .. Len(line) : line[j] \in S
    BY <1>1
  <2> QED BY <1>1, <2>1, SubSeqProperties
<1> QED BY <1>2, <1>3 DEF InsertAt

-----------------------------------------------------------------------------
(* The inductive invariant.  CapacityNeverExceeded needs only the types.   *)
(* JoinCountedOnce needs two facts about the requests in flight: each is   *)
(* about a profile, and one that is about to revive a row knows that the   *)
(* row is there (rows are never deleted), so it cannot turn "no row" into  *)
(* a live one without counting it.                                         *)

DataOK ==
    /\ members \subseteq Profiles
    /\ queue \in Seq(Profiles)
    /\ blocked \subseteq Profiles
    /\ activeCount \in Nat
    /\ participant \in [Profiles -> RowState]
    /\ roomsJoined \in [Profiles -> Nat]
    /\ entries \in [Profiles -> SUBSET QueueStatus]
    /\ received \in Nat
    /\ failures \in Nat

RequestsOK ==
    /\ req \in [Requests -> Request]
    /\ \A r \in Requests : ~At(r, "idle") => req[r].who \in Profiles

RevivesARow ==
    \A r \in Requests : At(r, "revive") => participant[req[r].who] # "none"

SeatInv ==
    DataOK /\ RequestsOK /\ CapacityNeverExceeded /\ JoinCountedOnce /\ RevivesARow

(* No action deletes a Participant row.                                    *)
RowsStay == \A p \in Profiles : participant[p] # "none" => participant'[p] # "none"

(* A request that only moves on to a stage other than "revive".            *)
LEMMA GotoRequest ==
    ASSUME SeatInv, NEW r \in Requests, ~At(r, "idle"),
           NEW stage \in Stage, Goto(r, stage)
    PROVE  RequestsOK'
BY DEF SeatInv, RequestsOK, Goto, At, Request

(* A request that ends.                                                    *)
LEMMA FinishRequest ==
    ASSUME SeatInv, NEW r \in Requests, Finish(r)
    PROVE  RequestsOK'
BY DEF SeatInv, RequestsOK, Finish, At, Request, Idle, Kind, Stage

(* Rows stay, so who is reviving still has one.                            *)
LEMMA GotoRevives ==
    ASSUME SeatInv, RowsStay, NEW r \in Requests, ~At(r, "idle"),
           NEW stage \in Stage, Goto(r, stage),
           stage = "revive" => participant[req[r].who] # "none"
    PROVE  RevivesARow'
BY DEF SeatInv, RequestsOK, RevivesARow, RowsStay, Goto, At, Request, Stage

(* The same when a request ends.                                           *)
LEMMA FinishRevives ==
    ASSUME SeatInv, RowsStay, NEW r \in Requests, Finish(r)
    PROVE  RevivesARow'
BY DEF SeatInv, RequestsOK, RevivesARow, RowsStay, Finish, At, Request, Idle, Stage

(* A script that saw a free seat may fill it.                              *)
LEMMA SeatOneMore ==
    ASSUME SeatInv, ~Full, NEW p, members' = members \cup {p}
    PROVE  CapacityNeverExceeded'
<1>1. IsFiniteSet(members) /\ Cardinality(members) \in Nat
  BY ProfilesAssumption, FS_Subset, FS_CardinalityType DEF SeatInv, DataOK
<1>2. Cardinality(members \cup {p}) =
        IF p \in members THEN Cardinality(members) ELSE Cardinality(members) + 1
  BY <1>1, FS_AddElement
<1>3. Cardinality(members) < Capacity
  BY <1>1, CapacityAssumption DEF Full
<1>4. Cardinality(members \cup {p}) <= Capacity
  BY <1>1, <1>2, <1>3, CapacityAssumption
<1> QED BY <1>4 DEF CapacityNeverExceeded

-----------------------------------------------------------------------------
(* One lemma per action.                                                   *)

(* A room as PromptsService.create and later joins left it.                *)
LEMMA InitSeatInv == Init => SeatInv
<1> SUFFICES ASSUME Init PROVE SeatInv
  OBVIOUS
<1> USE DEF Init
<1>1. IsFiniteSet(Seated) /\ Cardinality(Seated) \in Nat
  BY ProfilesAssumption, SeatedAssumption, FS_Subset, FS_CardinalityType
<1>2. DataOK
  BY <1>1, SeatedAssumption, BoundsAssumption DEF DataOK, RowState, QueueStatus
<1>3. RequestsOK
  BY DEF RequestsOK, Request, Idle, Kind, Stage, At
<1>4. CapacityNeverExceeded
  BY SeatedAssumption DEF CapacityNeverExceeded
<1>5. JoinCountedOnce
  BY SeatedAssumption DEF JoinCountedOnce
<1>6. RevivesARow
  BY DEF RevivesARow, At, Idle
<1> QED BY <1>2, <1>3, <1>4, <1>5, <1>6 DEF SeatInv

(* A request arriving.                                                     *)
LEMMA ReceiveInv ==
    ASSUME SeatInv, NEW r \in Requests, NEW kind \in DOMAIN FirstStage,
           NEW p \in Profiles, Receive(r, kind, p)
    PROVE  SeatInv'
<1> USE DEF SeatInv, Receive, redis, postgres
<1>1. DataOK' /\ CapacityNeverExceeded' /\ JoinCountedOnce'
  BY DEF DataOK, CapacityNeverExceeded, JoinCountedOnce
<1>2. FirstStage[kind] \in Stage \ {"revive"} /\ kind \in Kind
  BY DEF FirstStage, Stage, Kind
<1>3. RequestsOK'
  BY <1>2 DEF RequestsOK, Request, Idle, At
<1>4. RevivesARow'
  BY <1>2 DEF RevivesARow, RequestsOK, Request, Idle, At
<1> QED BY <1>1, <1>3, <1>4

(* The block check.                                                        *)
LEMMA AssertNotBlockedInv ==
    ASSUME SeatInv, NEW r \in Requests, AssertNotBlocked(r)
    PROVE  SeatInv'
<1> USE DEF AssertNotBlocked, redis, postgres, tally
<1>1. DataOK' /\ CapacityNeverExceeded' /\ JoinCountedOnce'
  BY DEF SeatInv, DataOK, CapacityNeverExceeded, JoinCountedOnce
<1>2. RowsStay /\ ~At(r, "idle") /\ {"seat", "line"} \subseteq Stage
  BY DEF RowsStay, At, Stage
<1>3. RequestsOK'
  BY <1>2, GotoRequest, FinishRequest
<1>4. RevivesARow'
  BY <1>2, GotoRevives, FinishRevives
<1> QED BY <1>1, <1>3, <1>4 DEF SeatInv

(* The join script.                                                        *)
LEMMA TryJoinRoomInv ==
    ASSUME SeatInv, NEW r \in Requests, TryJoinRoom(r)
    PROVE  SeatInv'
<1> USE DEF TryJoinRoom, postgres, tally
<1>1. ~At(r, "idle") /\ req[r].who \in Profiles
  BY DEF At, SeatInv, RequestsOK
<1>2. DataOK'
  BY <1>1, WithoutType DEF SeatInv, DataOK
<1>3. CapacityNeverExceeded'
  BY SeatOneMore DEF SeatInv, CapacityNeverExceeded
<1>4. JoinCountedOnce'
  BY DEF SeatInv, JoinCountedOnce
<1>5. RowsStay /\ "find" \in Stage
  BY DEF RowsStay, Stage
<1>6. RequestsOK'
  BY <1>1, <1>5, GotoRequest, FinishRequest
<1>7. RevivesARow'
  BY <1>1, <1>5, GotoRevives, FinishRevives
<1> QED BY <1>2, <1>3, <1>4, <1>6, <1>7 DEF SeatInv

(* The enqueue script.                                                     *)
LEMMA EnqueueWaitingInv ==
    ASSUME SeatInv, NEW r \in Requests, EnqueueWaiting(r)
    PROVE  SeatInv'
<1> USE DEF EnqueueWaiting, postgres, tally
<1>1. ~At(r, "idle") /\ req[r].who \in Profiles
  BY DEF At, SeatInv, RequestsOK
<1>2. DataOK'
  BY <1>1, InsertType DEF SeatInv, DataOK
<1>3. CapacityNeverExceeded'
  BY SeatOneMore DEF SeatInv, CapacityNeverExceeded
<1>4. JoinCountedOnce'
  BY DEF SeatInv, JoinCountedOnce
<1>5. RowsStay /\ {"find", "mirror"} \subseteq Stage
  BY DEF RowsStay, Stage
<1>6. RequestsOK'
  BY <1>1, <1>5, GotoRequest, FinishRequest
<1>7. RevivesARow'
  BY <1>1, <1>5, GotoRevives, FinishRevives
<1> QED BY <1>2, <1>3, <1>4, <1>6, <1>7 DEF SeatInv

(* The WAITING row.                                                        *)
LEMMA MirrorEntryInv ==
    ASSUME SeatInv, NEW r \in Requests, MirrorEntry(r)
    PROVE  SeatInv'
<1> USE DEF MirrorEntry, redis, tally
<1>1. DataOK' /\ CapacityNeverExceeded' /\ JoinCountedOnce'
  BY DEF SeatInv, DataOK, CapacityNeverExceeded, JoinCountedOnce, QueueStatus
<1>2. RowsStay
  BY DEF RowsStay
<1>3. RequestsOK' /\ RevivesARow'
  BY <1>2, FinishRequest, FinishRevives
<1> QED BY <1>1, <1>3 DEF SeatInv

(* Where persistJoin goes on to, in either caller.                         *)
LEMMA AfterPersistInv ==
    ASSUME SeatInv, RowsStay, NEW r \in Requests, ~At(r, "idle"), AfterPersist(r)
    PROVE  RequestsOK' /\ RevivesARow'
<1>1. {"resolve", "count"} \subseteq Stage
  BY DEF Stage
<1> QED BY <1>1, GotoRequest, GotoRevives DEF AfterPersist

(* findUnique, which decides between creating and reviving.                *)
LEMMA FindParticipantInv ==
    ASSUME SeatInv, NEW r \in Requests, FindParticipant(r)
    PROVE  SeatInv'
<1> USE DEF FindParticipant, redis, postgres, tally
<1>1. DataOK' /\ CapacityNeverExceeded' /\ JoinCountedOnce'
  BY DEF SeatInv, DataOK, CapacityNeverExceeded, JoinCountedOnce
<1>2. RowsStay /\ ~At(r, "idle") /\ {"create", "revive"} \subseteq Stage
  BY DEF RowsStay, At, Stage
<1>3. RequestsOK'
  BY <1>2, GotoRequest, AfterPersistInv
<1>4. RevivesARow'
  BY <1>2, GotoRevives, AfterPersistInv
<1> QED BY <1>1, <1>3, <1>4 DEF SeatInv

(* The transaction that creates and counts, or fails.                      *)
LEMMA CreateParticipantInv ==
    ASSUME SeatInv, NEW r \in Requests, CreateParticipant(r)
    PROVE  SeatInv'
<1> USE DEF CreateParticipant, redis, tally
<1>1. ~At(r, "idle") /\ req[r].who \in Profiles
  BY DEF At, SeatInv, RequestsOK
<1>2. DataOK' /\ CapacityNeverExceeded'
  <2>1. participant' \in [Profiles -> RowState]
    BY <1>1 DEF SeatInv, DataOK, RowState
  <2>2. roomsJoined \in [Profiles -> Nat]
    BY DEF SeatInv, DataOK
  <2>3. \/ UNCHANGED roomsJoined
        \/ roomsJoined' = [roomsJoined EXCEPT ![req[r].who] = @ + 1]
    OBVIOUS
  <2>4. roomsJoined' \in [Profiles -> Nat]
    <3> HIDE DEF CreateParticipant, redis, tally
    <3> QED BY <1>1, <2>2, <2>3
  <2> QED BY <2>1, <2>4 DEF SeatInv, DataOK, CapacityNeverExceeded
<1>3. JoinCountedOnce'
  BY <1>1 DEF SeatInv, DataOK, JoinCountedOnce
<1>4. RowsStay
  BY <1>1 DEF RowsStay, SeatInv, DataOK
<1>5. RequestsOK' /\ RevivesARow'
  BY <1>1, <1>4, AfterPersistInv, FinishRequest, FinishRevives
<1> QED BY <1>2, <1>3, <1>5 DEF SeatInv

(* Reviving a row that is there.                                           *)
LEMMA ReviveParticipantInv ==
    ASSUME SeatInv, NEW r \in Requests, ReviveParticipant(r)
    PROVE  SeatInv'
<1> USE DEF ReviveParticipant, redis, tally
<1>1. ~At(r, "idle") /\ req[r].who \in Profiles /\ participant[req[r].who] # "none"
  BY DEF At, SeatInv, RequestsOK, RevivesARow
<1>2. DataOK' /\ CapacityNeverExceeded'
  BY <1>1 DEF SeatInv, DataOK, CapacityNeverExceeded, RowState
<1>3. JoinCountedOnce'
  BY <1>1 DEF SeatInv, DataOK, JoinCountedOnce
<1>4. RowsStay
  BY <1>1 DEF RowsStay, SeatInv, DataOK
<1>5. RequestsOK' /\ RevivesARow'
  BY <1>1, <1>4, AfterPersistInv
<1> QED BY <1>2, <1>3, <1>5 DEF SeatInv

(* Leaving the line.                                                       *)
LEMMA LeaveLineInv ==
    ASSUME SeatInv, NEW r \in Requests, LeaveLine(r)
    PROVE  SeatInv'
<1> USE DEF LeaveLine, postgres, tally
<1>1. DataOK' /\ CapacityNeverExceeded' /\ JoinCountedOnce'
  BY WithoutType DEF SeatInv, DataOK, CapacityNeverExceeded, JoinCountedOnce
<1>2. RowsStay /\ ~At(r, "idle") /\ "resolve" \in Stage
  BY DEF RowsStay, At, Stage
<1>3. RequestsOK' /\ RevivesARow'
  BY <1>2, GotoRequest, GotoRevives
<1> QED BY <1>1, <1>3 DEF SeatInv

(* Closing the WAITING row.                                                *)
LEMMA ResolveEntryInv ==
    ASSUME SeatInv, NEW r \in Requests, ResolveEntry(r)
    PROVE  SeatInv'
<1> USE DEF ResolveEntry, redis, tally
<1>1. ~At(r, "idle") /\ req[r].who \in Profiles
  BY DEF At, SeatInv, RequestsOK
<1>2. DataOK' /\ CapacityNeverExceeded' /\ JoinCountedOnce'
  BY <1>1 DEF SeatInv, DataOK, CapacityNeverExceeded, JoinCountedOnce, QueueStatus
<1>3. RowsStay /\ "count" \in Stage
  BY DEF RowsStay, Stage
<1>4. Goto(r, "count") \/ Finish(r)
  OBVIOUS
<1>5. RequestsOK' /\ RevivesARow'
  BY <1>1, <1>3, <1>4, GotoRequest, GotoRevives, FinishRequest, FinishRevives
<1> QED BY <1>2, <1>5 DEF SeatInv

(* Reading the occupancy.                                                  *)
LEMMA CountMembersInv ==
    ASSUME SeatInv, NEW r \in Requests, CountMembers(r)
    PROVE  SeatInv'
<1> USE DEF SeatInv, CountMembers, redis, postgres, tally
<1>1. DataOK' /\ CapacityNeverExceeded' /\ JoinCountedOnce'
  BY DEF DataOK, CapacityNeverExceeded, JoinCountedOnce
<1>2. Cardinality(members) \in Nat
  BY ProfilesAssumption, FS_Subset, FS_CardinalityType DEF DataOK
<1>3. RequestsOK'
  BY <1>2 DEF RequestsOK, Request, At, Stage
<1>4. RevivesARow'
  BY <1>2 DEF RevivesARow, RequestsOK, Request, At
<1> QED BY <1>1, <1>3, <1>4

(* Writing it, and starting an admission.                                  *)
LEMMA IndexActivityInv ==
    ASSUME SeatInv, NEW r \in Requests, IndexActivity(r)
    PROVE  SeatInv'
<1> USE DEF IndexActivity, postgres, tally
<1>1. DataOK' /\ CapacityNeverExceeded' /\ JoinCountedOnce'
  BY DEF SeatInv, DataOK, RequestsOK, Request, CapacityNeverExceeded, JoinCountedOnce
<1>2. RowsStay
  BY DEF RowsStay
<1>3. CASE Finish(r)
  BY <1>1, <1>2, <1>3, FinishRequest, FinishRevives DEF SeatInv
<1>4. CASE /\ req[r].next # NoProfile
           /\ req' = [req EXCEPT ![r] =
                [Idle EXCEPT !.kind = "admit", !.who = req[r].next, !.stage = "seat"]]
  <2>1. req[r].next \in Profiles
    BY <1>4 DEF SeatInv, RequestsOK, Request
  <2>2. RequestsOK'
    BY <1>4, <2>1 DEF SeatInv, RequestsOK, Request, Idle, At, Stage, Kind
  <2>3. RevivesARow'
    BY <1>2, <1>4, <2>1 DEF SeatInv, RevivesARow, RequestsOK, Request, Idle, At
  <2> QED BY <1>1, <2>2, <2>3 DEF SeatInv
<1> QED BY <1>3, <1>4

(* The moderator check.                                                    *)
LEMMA AuthorizeKickInv ==
    ASSUME SeatInv, NEW r \in Requests, AuthorizeKick(r)
    PROVE  SeatInv'
<1> USE DEF AuthorizeKick, redis, postgres, tally
<1>1. DataOK' /\ CapacityNeverExceeded' /\ JoinCountedOnce'
  BY DEF SeatInv, DataOK, CapacityNeverExceeded, JoinCountedOnce
<1>2. RowsStay /\ ~At(r, "idle") /\ "block" \in Stage
  BY DEF RowsStay, At, Stage
<1>3. RequestsOK' /\ RevivesARow'
  BY <1>2, GotoRequest, GotoRevives, FinishRequest, FinishRevives
<1> QED BY <1>1, <1>3 DEF SeatInv

(* The block.                                                              *)
LEMMA BlockProfileInv ==
    ASSUME SeatInv, NEW r \in Requests, BlockProfile(r)
    PROVE  SeatInv'
<1> USE DEF BlockProfile, postgres, tally
<1>1. ~At(r, "idle") /\ req[r].who \in Profiles
  BY DEF At, SeatInv, RequestsOK
<1>2. DataOK' /\ CapacityNeverExceeded' /\ JoinCountedOnce'
  BY <1>1 DEF SeatInv, DataOK, CapacityNeverExceeded, JoinCountedOnce
<1>3. RowsStay /\ "vacate" \in Stage
  BY DEF RowsStay, Stage
<1>4. RequestsOK' /\ RevivesARow'
  BY <1>1, <1>3, GotoRequest, GotoRevives
<1> QED BY <1>2, <1>4 DEF SeatInv

(* The leave script.                                                       *)
LEMMA LeaveAndPromoteInv ==
    ASSUME SeatInv, NEW r \in Requests, LeaveAndPromote(r)
    PROVE  SeatInv'
<1> USE DEF SeatInv, LeaveAndPromote, postgres, tally
<1>1. DataOK' /\ JoinCountedOnce'
  BY DEF DataOK, JoinCountedOnce
<1>2. CapacityNeverExceeded'
  <2>1. IsFiniteSet(members) /\ members' \subseteq members
    BY ProfilesAssumption, FS_Subset DEF DataOK
  <2>2. Cardinality(members') <= Cardinality(members)
    BY <2>1, FS_Subset
  <2>3. Cardinality(members) \in Nat /\ Cardinality(members') \in Nat
    BY <2>1, FS_Subset, FS_CardinalityType
  <2> QED BY <2>2, <2>3, CapacityAssumption DEF CapacityNeverExceeded
<1>3. queue # <<>> => Head(queue) \in Profiles
  BY DEF DataOK
<1>4. PICK head \in Profiles \cup {NoProfile} :
        req' = [req EXCEPT ![r].stage = "close", ![r].next = head]
  BY <1>3
<1>5. RequestsOK' /\ RevivesARow'
  <2> HIDE DEF LeaveAndPromote, SeatInv
  <2>1. RequestsOK /\ RevivesARow /\ UNCHANGED participant /\ ~At(r, "idle")
    BY DEF SeatInv, LeaveAndPromote, At
  <2>2. req \in [Requests -> Request] /\ "close" \in Stage
    BY <2>1 DEF RequestsOK, Stage
  <2>3. [req[r] EXCEPT !.stage = "close", !.next = head] \in Request
    BY <1>4, <2>2 DEF Request
  <2>4. /\ req' = [req EXCEPT ![r] = [req[r] EXCEPT !.stage = "close", !.next = head]]
        /\ req' \in [Requests -> Request]
    BY <1>4, <2>2, <2>3
  <2>5. \A q \in Requests : /\ req'[q].who = req[q].who
                            /\ q # r => req'[q].stage = req[q].stage
                            /\ req'[r].stage = "close"
    BY <2>2, <2>4 DEF Request
  <2>6. RequestsOK'
    BY <2>1, <2>4, <2>5 DEF RequestsOK, At
  <2>7. RevivesARow'
    BY <2>1, <2>5 DEF RevivesARow, At
  <2> QED BY <2>6, <2>7
<1> QED BY <1>1, <1>2, <1>5

(* Closing the Participant row.                                            *)
LEMMA CloseParticipantInv ==
    ASSUME SeatInv, NEW r \in Requests, CloseParticipant(r)
    PROVE  SeatInv'
<1> USE DEF CloseParticipant, redis, tally
<1>1. ~At(r, "idle") /\ req[r].who \in Profiles
  BY DEF At, SeatInv, RequestsOK
<1>2. DataOK' /\ CapacityNeverExceeded'
  BY <1>1 DEF SeatInv, DataOK, CapacityNeverExceeded, RowState
<1>3. JoinCountedOnce'
  BY <1>1 DEF SeatInv, DataOK, JoinCountedOnce
<1>4. RowsStay /\ "count" \in Stage
  BY <1>1 DEF RowsStay, SeatInv, DataOK, Stage
<1>5. RequestsOK' /\ RevivesARow'
  BY <1>1, <1>4, GotoRequest, GotoRevives
<1> QED BY <1>2, <1>3, <1>5 DEF SeatInv

(* The end of a block.                                                     *)
LEMMA ExpireBlockInv ==
    ASSUME SeatInv, NEW p \in Profiles, ExpireBlock(p)
    PROVE  SeatInv'
BY DEF ExpireBlock, postgres, tally, SeatInv, DataOK, RequestsOK, At,
       CapacityNeverExceeded, JoinCountedOnce, RevivesARow

(* A handler that dies.                                                    *)
LEMMA FailInv ==
    ASSUME SeatInv, NEW r \in Requests, Fail(r)
    PROVE  SeatInv'
<1> USE DEF Fail, redis, postgres
<1>1. DataOK' /\ CapacityNeverExceeded' /\ JoinCountedOnce'
  BY DEF SeatInv, DataOK, CapacityNeverExceeded, JoinCountedOnce
<1>2. RowsStay
  BY DEF RowsStay
<1>3. RequestsOK' /\ RevivesARow'
  BY <1>2, FinishRequest, FinishRevives
<1> QED BY <1>1, <1>3 DEF SeatInv

(* Every step of the room preserves the invariant.                         *)
LEMMA NextInv == SeatInv /\ [Next]_vars => SeatInv'
<1> SUFFICES ASSUME SeatInv, [Next]_vars PROVE SeatInv'
  OBVIOUS
<1>1. ASSUME NEW r \in Requests, NEW kind \in DOMAIN FirstStage, NEW p \in Profiles,
             Receive(r, kind, p)
      PROVE  SeatInv'
  BY <1>1, ReceiveInv
<1>2. ASSUME NEW r \in Requests, Step(r)
      PROVE  SeatInv'
  BY <1>2, AssertNotBlockedInv, TryJoinRoomInv, EnqueueWaitingInv, MirrorEntryInv,
     FindParticipantInv, CreateParticipantInv, ReviveParticipantInv, LeaveLineInv,
     ResolveEntryInv, CountMembersInv, IndexActivityInv, AuthorizeKickInv,
     BlockProfileInv, LeaveAndPromoteInv, CloseParticipantInv DEF Step
<1>3. ASSUME NEW r \in Requests, Fail(r)
      PROVE  SeatInv'
  BY <1>3, FailInv
<1>4. ASSUME NEW p \in Profiles, ExpireBlock(p)
      PROVE  SeatInv'
  BY <1>4, ExpireBlockInv
<1>5. CASE UNCHANGED vars
  BY <1>5 DEF vars, redis, postgres, tally, SeatInv, DataOK, RequestsOK, At,
     CapacityNeverExceeded, JoinCountedOnce, RevivesARow
<1> QED BY <1>1, <1>2, <1>3, <1>4, <1>5 DEF Next

(* The invariant holds in every reachable state.                           *)
LEMMA AlwaysSeatInv == Spec => []SeatInv
BY InitSeatInv, NextInv, PTL DEF Spec

-----------------------------------------------------------------------------
(* The safety properties.                                                  *)

(* Every variable keeps its type, however the handlers interleave or die.  *)
THEOREM TypeCorrect == Spec => []TypeOK
<1>1. SeatInv => TypeOK
  BY DEF SeatInv, DataOK, RequestsOK, TypeOK
<1> QED BY <1>1, AlwaysSeatInv, PTL

(* The scripts tryJoinRoom and enqueueWaiting never seat one profile too   *)
(* many, for any capacity and any number of concurrent requests.           *)
THEOREM CapacitySafe == Spec => []CapacityNeverExceeded
<1>1. SeatInv => CapacityNeverExceeded
  BY DEF SeatInv
<1> QED BY <1>1, AlwaysSeatInv, PTL

(* persistJoin counts a profile once in roomsJoined, with its row, even    *)
(* when several requests persist the same join or die half way.            *)
THEOREM JoinCounted == Spec => []JoinCountedOnce
<1>1. SeatInv => JoinCountedOnce
  BY DEF SeatInv
<1> QED BY <1>1, AlwaysSeatInv, PTL

-----------------------------------------------------------------------------
(* The room implements the abstract seat book.                             *)

(* Initially only those who joined are seated, and nobody waits.           *)
LEMMA InitOpensBook == Init => Book!Open
BY DEF Init, Book!Open

(* The seat book speaks of seats and lines with the room's own operators.  *)
LEMMA SameWords ==
    /\ Book!Full <=> Full
    /\ \A s, e : Book!Contains(s, e) <=> Contains(s, e)
    /\ \A s, e : Book!Without(s, e) = Without(s, e)
    /\ \A s, i, e : Book!InsertAt(s, i, e) = InsertAt(s, i, e)
    /\ \A s, k : Book!Places(s, k) = Places(s, k)
<1>1. Book!Full <=> Full
  BY DEF Book!Full, Full, Book!Cardinality, Cardinality
<1>2. \A s, e : Book!Contains(s, e) <=> Contains(s, e)
  BY DEF Book!Contains, Contains
<1>3. \A s, k : Book!RemoveAt(s, k) = RemoveAt(s, k)
  BY DEF Book!RemoveAt, RemoveAt
<1>4. \A s, e : Book!Without(s, e) = Without(s, e)
  BY <1>2, <1>3 DEF Book!Without, Without
<1>5. \A s, i, e : Book!InsertAt(s, i, e) = InsertAt(s, i, e)
  BY DEF Book!InsertAt, InsertAt
<1>6. \A s, k : Book!Places(s, k) = Places(s, k)
  BY DEF Book!Places, Places
<1> QED BY <1>1, <1>2, <1>4, <1>5, <1>6

(* Each script is one trade of the seat book.                              *)
LEMMA StepTrades ==
    ASSUME SeatInv, NEW r \in Requests, Step(r)
    PROVE  [Book!Trade]_(Book!book)
<1> DEFINE p == req[r].who
<1>1. CASE TryJoinRoom(r)
  <2>1. p \in Profiles
    BY <1>1 DEF TryJoinRoom, At, SeatInv, RequestsOK
  <2>2. UNCHANGED <<members, queue>> \/ Book!Sit(p)
    BY <1>1, SameWords DEF TryJoinRoom, Book!Sit
  <2> QED BY <2>1, <2>2 DEF Book!Trade, Book!book
<1>2. CASE EnqueueWaiting(r)
  <2>1. p \in Profiles
    BY <1>2 DEF EnqueueWaiting, At, SeatInv, RequestsOK
  <2>2. UNCHANGED <<members, queue>> \/ Book!Sit(p) \/ Book!LineUp(p)
    BY <1>2, SameWords DEF EnqueueWaiting, Book!Sit, Book!LineUp
  <2> QED BY <2>1, <2>2 DEF Book!Trade, Book!book
<1>3. CASE LeaveLine(r)
  <2>1. p \in Profiles
    BY <1>3 DEF LeaveLine, At, SeatInv, RequestsOK
  <2>2. UNCHANGED <<members, queue>> \/ Book!GiveUp(p)
    BY <1>3, SameWords DEF LeaveLine, Book!GiveUp, Without
  <2> QED BY <2>1, <2>2 DEF Book!Trade, Book!book
<1>4. CASE LeaveAndPromote(r)
  <2>1. p \in Profiles
    BY <1>4 DEF LeaveAndPromote, At, SeatInv, RequestsOK
  <2>2. UNCHANGED <<members, queue>> \/ Book!Stand(p)
    BY <1>4 DEF LeaveAndPromote, Book!Stand
  <2> QED BY <2>1, <2>2 DEF Book!Trade, Book!book
<1>5. CASE UNCHANGED <<members, queue>>
  BY <1>5 DEF Book!book
<1>6. \/ TryJoinRoom(r) \/ EnqueueWaiting(r) \/ LeaveLine(r) \/ LeaveAndPromote(r)
      \/ UNCHANGED <<members, queue>>
  BY DEF Step, AssertNotBlocked, MirrorEntry, FindParticipant, CreateParticipant,
     ReviveParticipant, ResolveEntry, CountMembers, IndexActivity, AuthorizeKick,
     BlockProfile, CloseParticipant, redis
<1> QED BY <1>1, <1>2, <1>3, <1>4, <1>5, <1>6

(* Every step of the room is a trade or leaves seats and line alone.       *)
LEMMA NextTrades ==
    ASSUME SeatInv, [Next]_vars
    PROVE  [Book!Trade]_(Book!book)
<1>1. ASSUME NEW r \in Requests, NEW kind \in DOMAIN FirstStage, NEW p \in Profiles,
             Receive(r, kind, p)
      PROVE  UNCHANGED <<members, queue>>
  BY <1>1 DEF Receive, redis
<1>2. ASSUME NEW r \in Requests, Fail(r)
      PROVE  UNCHANGED <<members, queue>>
  BY <1>2 DEF Fail, redis
<1>3. ASSUME NEW p \in Profiles, ExpireBlock(p)
      PROVE  UNCHANGED <<members, queue>>
  BY <1>3 DEF ExpireBlock
<1>4. CASE UNCHANGED vars
  BY <1>4 DEF vars, redis, Book!book
<1> QED BY <1>1, <1>2, <1>3, <1>4, StepTrades DEF Next, Book!book

(* Whatever the handlers, the failures and the interleavings, an observer  *)
(* of the two Redis structures sees only the trades SeatBook allows.       *)
THEOREM SeatsAreABook == Spec => ImplementsSeatBook
<1>1. SeatInv /\ [Next]_vars => [Book!Trade]_(Book!book)
  BY NextTrades
<1> QED BY <1>1, InitOpensBook, AlwaysSeatInv, PTL DEF Spec, ImplementsSeatBook, Book!Spec

-----------------------------------------------------------------------------
(***************************************************************************)
(* Under OrderlySpec: what keeps rows, seats, line and blocks in step.     *)
(*                                                                         *)
(* The properties at rest follow from RowsOK and FreeOK, which say of a    *)
(* room at work who is about to mend each difference.  They are inductive  *)
(* only with the rest: the stages a handler goes through (FlowOK), that    *)
(* nobody else moves the profile it acts for (AloneOK), and what it relies *)
(* on between its awaits (LineOK, SeatedOK, BlockOK).                      *)
(***************************************************************************)

(* The stages a request of each kind goes through.                         *)
StagesOf ==
    [none |-> {"idle"},
     join |-> {"check", "seat", "find", "create", "revive", "count", "index"},
     enqueue |-> {"check", "line", "mirror", "find", "create", "revive", "count", "index"},
     cancel |-> {"unline", "resolve"},
     leave |-> {"vacate", "close", "count", "index"},
     kick |-> {"authorize", "block", "vacate", "close", "count", "index"},
     admit |-> {"seat", "find", "create", "revive", "resolve", "count", "index"}]

(* What frees a seat, and what follows it.                                 *)
Removal == {"leave", "kick", "admit"}

(* A leave past its script, which may have a head to admit.                *)
Vacated(r) == req[r].kind \in {"leave", "kick"} /\ req[r].stage \in {"close", "count", "index"}

FlowOK ==
    /\ \A r \in Requests :
          /\ req[r].stage \in StagesOf[req[r].kind]
          /\ req[r].kind = "none" => req[r].who = NoProfile
          /\ req[r].next # NoProfile => Vacated(r)
    /\ \A r, s \in Requests : req[r].kind \in Removal /\ req[s].kind \in Removal => r = s

(* But for an admission, nobody acts for a profile that a removal, an      *)
(* enqueue or a cancellation acts for.                                     *)
AloneOK ==
    \A r, s \in Requests :
        r # s /\ req[r].kind \in {"leave", "kick", "enqueue", "cancel"} /\ req[s].who = req[r].who
            => req[s].kind = "admit"

(* Who acts for somebody that does not stand in line.                      *)
OutOfLine(r) ==
    \/ req[r].kind = "enqueue" /\ req[r].stage \in {"check", "line"}
    \/ req[r].kind = "kick"
    \/ req[r].kind = "cancel" /\ req[r].stage = "resolve"

LineOK ==
    /\ IsInjective(queue)
    /\ \A p \in Profiles : Contains(queue, p) => p \notin members /\ p \notin blocked
    /\ \A r \in Requests : OutOfLine(r) => ~Contains(queue, req[r].who)

(* A request that writes a row knows on which side of the seat it is.      *)
Persisting == {"find", "create", "revive"}

SeatedOK ==
    \A r \in Requests :
        /\ \/ req[r].stage \in Persisting
           \/ req[r].kind = "admit" /\ req[r].stage = "resolve"
           => req[r].who \in members
        /\ req[r].stage = "create" => participant[req[r].who] # "left"
        /\ req[r].stage = "close" => req[r].who \notin members

(* Where row and seat differ, somebody is about to write the row.          *)
RowsOK ==
    \A p \in Profiles :
        /\ p \in members /\ participant[p] # "live" =>
              \E r \in Requests : req[r].who = p /\ req[r].stage \in Persisting
        /\ p \notin members /\ participant[p] = "live" =>
              \E r \in Requests : req[r].who = p /\ req[r].stage = "close"
        /\ Contains(queue, p) /\ "WAITING" \notin entries[p] =>
              \E r \in Requests : req[r].who = p /\ req[r].stage = "mirror"

(* A free seat that somebody waits for is the only one, and the admission  *)
(* that fills it is on its way.                                            *)
Admits(r) ==
    \/ Vacated(r) /\ req[r].next \in Profiles \ members
    \/ req[r].kind = "admit" /\ req[r].stage = "seat" /\ req[r].who \notin members

FreeOK ==
    ~Full /\ queue # <<>> => Cardinality(members) + 1 = Capacity /\ \E r \in Requests : Admits(r)

(* Who is let in past the block check is not blocked before he has a seat. *)
BlockOK ==
    \A r \in Requests :
        /\ req[r].stage \in {"seat", "line"} => req[r].who \notin blocked
        /\ req[r].next \notin blocked

OrderInv == FlowOK /\ AloneOK /\ LineOK /\ SeatedOK /\ RowsOK /\ FreeOK /\ BlockOK

-----------------------------------------------------------------------------
(* The line, in which a profile occurs once.                               *)

LEMMA WithoutOnce ==
    ASSUME NEW S, NEW s \in Seq(S), IsInjective(s), NEW p
    PROVE  /\ IsInjective(Without(s, p))
           /\ \A q : Contains(Without(s, p), q) => Contains(s, q) /\ q # p
           /\ Without(s, p) # <<>> => s # <<>>
<1>0. /\ Len(s) \in Nat /\ DOMAIN s = 1 .. Len(s)
      /\ \A i \in 1 .. Len(s) : s[i] \in S
      /\ \A i, j \in 1 .. Len(s) : s[i] = s[j] => i = j
  BY LenProperties DEF IsInjective
<1>1. CASE ~Contains(s, p)
  BY <1>1 DEF Without
<1>2. CASE Contains(s, p)
  <2>1. PICK k \in 1 .. Len(s) : k = CHOOSE i \in DOMAIN s : s[i] = p
    BY <1>0, <1>2 DEF Contains
  <2>2. s[k] = p
    BY <1>0, <1>2, <2>1 DEF Contains
  <2> DEFINE a == SubSeq(s, 1, k - 1)
             b == SubSeq(s, k + 1, Len(s))
             t == a \o b
  <2>3. Without(s, p) = t
    BY <1>2, <2>1 DEF Without, RemoveAt
  <2>4. /\ a \in Seq(S) /\ Len(a) = k - 1 /\ \A i \in 1 .. k - 1 : a[i] = s[i]
    <3>1. 1 \in Int /\ k - 1 \in Int /\ \A i \in 1 .. k - 1 : s[i] \in S
      BY <1>0
    <3>2. /\ a \in Seq(S) /\ Len(a) = IF 1 <= k - 1 THEN k - 1 - 1 + 1 ELSE 0
          /\ \A i \in 1 .. k - 1 - 1 + 1 : a[i] = s[1 + i - 1]
      BY <3>1, SubSeqProperties
    <3> HIDE DEF a
    <3> QED
      BY <1>0, <3>2
  <2>5. /\ b \in Seq(S) /\ Len(b) = Len(s) - k
        /\ \A i \in 1 .. Len(s) - k : b[i] = s[k + i]
    <3>1. k + 1 \in Int /\ Len(s) \in Int /\ \A i \in k + 1 .. Len(s) : s[i] \in S
      BY <1>0
    <3>2. /\ b \in Seq(S)
          /\ Len(b) = IF k + 1 <= Len(s) THEN Len(s) - (k + 1) + 1 ELSE 0
          /\ \A i \in 1 .. Len(s) - (k + 1) + 1 : b[i] = s[k + 1 + i - 1]
      BY <3>1, SubSeqProperties
    <3> HIDE DEF b
    <3>3. Len(b) = Len(s) - k
      <4>1. \A n \in Nat : \A j \in 1 .. n :
               (IF j + 1 <= n THEN n - (j + 1) + 1 ELSE 0) = n - j
        OBVIOUS
      <4> QED
        BY <1>0, <3>2, <4>1
    <3>4. \A i \in 1 .. Len(s) - k : i \in 1 .. Len(s) - (k + 1) + 1 /\ k + 1 + i - 1 = k + i
      BY <1>0
    <3> QED
      BY <3>2, <3>3, <3>4
  <2> HIDE DEF a, b
  <2>6. /\ t \in Seq(S) /\ Len(t) = Len(s) - 1
        /\ \A i \in 1 .. Len(s) - 1 : t[i] = IF i <= k - 1 THEN s[i] ELSE s[i + 1]
    <3>1. /\ t \in Seq(S) /\ Len(t) = Len(a) + Len(b)
          /\ \A i \in 1 .. Len(a) + Len(b) : t[i] = IF i <= Len(a) THEN a[i] ELSE b[i - Len(a)]
      BY <2>4, <2>5, ConcatProperties
    <3> HIDE DEF t
    <3>2. Len(t) = Len(s) - 1
      BY <1>0, <2>4, <2>5, <3>1
    <3>3. ASSUME NEW i \in 1 .. Len(s) - 1
          PROVE  t[i] = IF i <= k - 1 THEN s[i] ELSE s[i + 1]
      <4>1. t[i] = IF i <= k - 1 THEN a[i] ELSE b[i - (k - 1)]
        BY <1>0, <2>4, <2>5, <3>1
      <4>2. i <= k - 1 => a[i] = s[i]
        BY <1>0, <2>4
      <4>3. ~(i <= k - 1) => i - (k - 1) \in 1 .. Len(s) - k /\ k + (i - (k - 1)) = i + 1
        BY <1>0
      <4> QED
        BY <2>5, <4>1, <4>2, <4>3
    <3> QED
      BY <3>1, <3>2, <3>3
  <2> HIDE DEF t
  <2>7. DOMAIN t = 1 .. Len(s) - 1
    BY <2>6, LenProperties
  <2>8. IsInjective(t)
    BY <1>0, <2>6, <2>7 DEF IsInjective
  <2>9. ASSUME NEW q, Contains(t, q) PROVE Contains(s, q) /\ q # p
    <3>1. PICK i \in 1 .. Len(s) - 1 : t[i] = q
      BY <2>6, <2>9 DEF Contains
    <3>2. \/ i < k /\ i \in 1 .. Len(s) /\ s[i] = q
          \/ i >= k /\ i + 1 \in 1 .. Len(s) /\ s[i + 1] = q
      BY <1>0, <2>6, <3>1
    <3>3. \E j \in 1 .. Len(s) : s[j] = q /\ j # k
      <4>1. CASE i < k /\ i \in 1 .. Len(s) /\ s[i] = q
        BY <4>1
      <4>2. CASE i >= k /\ i + 1 \in 1 .. Len(s) /\ s[i + 1] = q
        <5>1. i + 1 # k
          BY <4>2
        <5> QED
          BY <4>2, <5>1
      <4> QED
        BY <3>2, <4>1, <4>2
    <3>4. Contains(s, q)
      BY <1>0, <3>3 DEF Contains
    <3>5. q # p
      BY <1>0, <2>2, <3>3
    <3> QED
      BY <3>4, <3>5
  <2>10. s # <<>>
    BY <1>0, EmptySeq
  <2> QED
    BY <2>3, <2>8, <2>9, <2>10
<1> QED
  BY <1>1, <1>2

LEMMA InsertedOnce ==
    ASSUME NEW S, NEW s \in Seq(S), IsInjective(s), NEW p \in S, ~Contains(s, p),
           NEW k \in 1 .. Len(s) + 1
    PROVE  /\ IsInjective(InsertAt(s, k, p))
           /\ \A q : Contains(InsertAt(s, k, p), q) => Contains(s, q) \/ q = p
<1>0. /\ Len(s) \in Nat /\ DOMAIN s = 1 .. Len(s)
      /\ \A i \in 1 .. Len(s) : s[i] \in S
      /\ \A i, j \in 1 .. Len(s) : s[i] = s[j] => i = j
      /\ \A i \in 1 .. Len(s) : s[i] # p
  BY LenProperties DEF IsInjective, Contains
<1> DEFINE a == SubSeq(s, 1, k - 1)
           b == SubSeq(s, k, Len(s))
           c == a \o <<p>>
           t == c \o b
<1>1. /\ a \in Seq(S) /\ Len(a) = k - 1 /\ \A i \in 1 .. k - 1 : a[i] = s[i]
  <2>1. 1 \in Int /\ k - 1 \in Int /\ \A i \in 1 .. k - 1 : s[i] \in S
    BY <1>0
  <2>2. /\ a \in Seq(S) /\ Len(a) = IF 1 <= k - 1 THEN k - 1 - 1 + 1 ELSE 0
        /\ \A i \in 1 .. k - 1 - 1 + 1 : a[i] = s[1 + i - 1]
    BY <2>1, SubSeqProperties
  <2> HIDE DEF a
  <2> QED
    BY <1>0, <2>2
<1>2. /\ b \in Seq(S) /\ Len(b) = Len(s) - k + 1
      /\ \A i \in 1 .. Len(s) - k + 1 : b[i] = s[k + i - 1]
  <2>1. k \in Int /\ Len(s) \in Int /\ \A i \in k .. Len(s) : s[i] \in S
    BY <1>0
  <2>2. /\ b \in Seq(S) /\ Len(b) = IF k <= Len(s) THEN Len(s) - k + 1 ELSE 0
        /\ \A i \in 1 .. Len(s) - k + 1 : b[i] = s[k + i - 1]
    BY <2>1, SubSeqProperties
  <2> HIDE DEF b
  <2> QED
    BY <1>0, <2>2
<1> HIDE DEF a, b
<1>3. /\ c \in Seq(S) /\ Len(c) = k /\ c[k] = p /\ \A i \in 1 .. k - 1 : c[i] = s[i]
  <2>1. c = Append(a, p)
    BY <1>1, AppendIsConcat
  <2> HIDE DEF c
  <2> QED
    BY <1>0, <1>1, <2>1, AppendProperties
<1> HIDE DEF c
<1>4. /\ t \in Seq(S) /\ Len(t) = Len(s) + 1
      /\ \A i \in 1 .. Len(s) + 1 : t[i] = IF i < k THEN s[i] ELSE IF i = k THEN p ELSE s[i - 1]
  <2>1. /\ t \in Seq(S) /\ Len(t) = Len(c) + Len(b)
        /\ \A i \in 1 .. Len(c) + Len(b) : t[i] = IF i <= Len(c) THEN c[i] ELSE b[i - Len(c)]
    BY <1>2, <1>3, ConcatProperties
  <2> HIDE DEF t
  <2>2. Len(t) = Len(s) + 1
    BY <1>0, <1>2, <1>3, <2>1
  <2>3. ASSUME NEW i \in 1 .. Len(s) + 1
        PROVE  t[i] = IF i < k THEN s[i] ELSE IF i = k THEN p ELSE s[i - 1]
    <3>1. t[i] = IF i <= k THEN c[i] ELSE b[i - k]
      BY <1>0, <1>2, <1>3, <2>1
    <3>2. i < k => c[i] = s[i]
      BY <1>0, <1>3
    <3>3. i > k => i - k \in 1 .. Len(s) - k + 1 /\ k + (i - k) - 1 = i - 1
      BY <1>0
    <3> QED
      BY <1>0, <1>2, <1>3, <3>1, <3>2, <3>3
  <2> QED
    BY <2>1, <2>2, <2>3
<1> HIDE DEF t
<1>5. DOMAIN t = 1 .. Len(s) + 1
  BY <1>4, LenProperties
(* Where an element of the new line comes from.                            *)
<1>6. ASSUME NEW i \in 1 .. Len(s) + 1
      PROVE  \/ i = k /\ t[i] = p
             \/ i < k /\ i \in 1 .. Len(s) /\ t[i] = s[i]
             \/ i > k /\ i - 1 \in 1 .. Len(s) /\ t[i] = s[i - 1]
  BY <1>0, <1>4
<1>7. ASSUME NEW i \in 1 .. Len(s) + 1, NEW j \in 1 .. Len(s) + 1, t[i] = t[j] PROVE i = j
  <2>1. CASE i = k \/ j = k
    BY <1>0, <1>6, <1>7, <2>1
  <2>2. CASE i # k /\ j # k
    <3>1. \/ i < k /\ i \in 1 .. Len(s) /\ t[i] = s[i]
          \/ i > k /\ i - 1 \in 1 .. Len(s) /\ t[i] = s[i - 1]
      BY <1>6, <2>2
    <3>2. \/ j < k /\ j \in 1 .. Len(s) /\ t[j] = s[j]
          \/ j > k /\ j - 1 \in 1 .. Len(s) /\ t[j] = s[j - 1]
      BY <1>6, <2>2
    <3>3. CASE i < k /\ j < k
      BY <1>0, <1>7, <3>1, <3>2, <3>3
    <3>4. CASE i > k /\ j > k
      <4>1. i - 1 = j - 1
        BY <1>0, <1>7, <3>1, <3>2, <3>4
      <4> QED
        BY <4>1
    <3>5. CASE i < k /\ j > k
      <4>1. i = j - 1
        BY <1>0, <1>7, <3>1, <3>2, <3>5
      <4> QED
        BY <3>5, <4>1
    <3>6. CASE i > k /\ j < k
      <4>1. i - 1 = j
        BY <1>0, <1>7, <3>1, <3>2, <3>6
      <4> QED
        BY <3>6, <4>1
    <3> QED
      BY <2>2, <3>3, <3>4, <3>5, <3>6
  <2> QED
    BY <2>1, <2>2
<1>8. IsInjective(t)
  BY <1>5, <1>7 DEF IsInjective
<1>9. ASSUME NEW q, Contains(t, q) PROVE Contains(s, q) \/ q = p
  BY <1>4, <1>6, <1>9 DEF Contains
<1> QED
  BY <1>8, <1>9 DEF InsertAt, t, c, a, b

-----------------------------------------------------------------------------
(* What a step does to the handler that takes it.                          *)

(* It becomes one of this kind, at this stage, for these profiles; the     *)
(* others stand still.                                                     *)
Becomes(r, kind, stage, who, next) ==
    /\ \A s \in Requests \ {r} : req'[s] = req[s]
    /\ req'[r].kind = kind
    /\ req'[r].stage = stage
    /\ req'[r].who = who
    /\ req'[r].next = next

Moves(r, stage) == Becomes(r, req[r].kind, stage, req[r].who, req[r].next)
Ends(r) == Becomes(r, "none", "idle", NoProfile, NoProfile)

LEMMA GotoMoves ==
    ASSUME SeatInv, NEW r \in Requests, NEW stage, Goto(r, stage)
    PROVE  Moves(r, stage)
BY DEF SeatInv, RequestsOK, Request, Goto, Moves, Becomes

LEMMA FinishEnds ==
    ASSUME SeatInv, NEW r \in Requests, Finish(r)
    PROVE  Ends(r)
BY DEF SeatInv, RequestsOK, Finish, Idle, Ends, Becomes

LEMMA AfterPersistMoves ==
    ASSUME SeatInv, NEW r \in Requests, AfterPersist(r)
    PROVE  Moves(r, IF req[r].kind = "admit" THEN "resolve" ELSE "count")
BY GotoMoves DEF AfterPersist

LEMMA CountMembersMoves ==
    ASSUME SeatInv, NEW r \in Requests, CountMembers(r)
    PROVE  Moves(r, "index")
<1>1. \A x \in Request : \A n : LET y == [x EXCEPT !.seen = n, !.stage = "index"] IN
        y.kind = x.kind /\ y.stage = "index" /\ y.who = x.who /\ y.next = x.next
  BY DEF Request
<1>2. /\ req \in [Requests -> Request]
      /\ req' = [req EXCEPT ![r] =
            [req[r] EXCEPT !.seen = Cardinality(members), !.stage = "index"]]
  BY DEF SeatInv, RequestsOK, CountMembers
<1> QED
  BY <1>1, <1>2 DEF Moves, Becomes

LEMMA LeaveMoves ==
    ASSUME SeatInv, NEW r \in Requests, LeaveAndPromote(r)
    PROVE  Becomes(r, req[r].kind, "close", req[r].who,
                   IF queue = <<>> THEN NoProfile ELSE Head(queue))
<1>1. \A x \in Request : \A n : LET y == [x EXCEPT !.stage = "close", !.next = n] IN
        y.kind = x.kind /\ y.stage = "close" /\ y.who = x.who /\ y.next = n
  BY DEF Request
<1>2. /\ req \in [Requests -> Request]
      /\ req' = [req EXCEPT ![r] = [req[r] EXCEPT !.stage = "close",
            !.next = IF queue = <<>> THEN NoProfile ELSE Head(queue)]]
  BY DEF SeatInv, RequestsOK, LeaveAndPromote
<1> QED
  BY <1>1, <1>2 DEF Becomes

LEMMA IndexBecomes ==
    ASSUME SeatInv, NEW r \in Requests, IndexActivity(r)
    PROVE  \/ req[r].next = NoProfile /\ Ends(r)
           \/ req[r].next # NoProfile /\ Becomes(r, "admit", "seat", req[r].next, NoProfile)
<1>1. CASE req[r].next = NoProfile /\ Finish(r)
  BY <1>1, FinishEnds
<1>2. CASE /\ req[r].next # NoProfile
           /\ req' = [req EXCEPT ![r] =
                [Idle EXCEPT !.kind = "admit", !.who = req[r].next, !.stage = "seat"]]
  BY <1>2 DEF SeatInv, RequestsOK, Idle, Becomes
<1> QED
  BY <1>1, <1>2 DEF IndexActivity

LEMMA ReceiveBecomes ==
    ASSUME SeatInv, NEW r \in Requests, NEW kind \in DOMAIN FirstStage,
           NEW p \in Profiles, Receive(r, kind, p)
    PROVE  Becomes(r, kind, FirstStage[kind], p, NoProfile)
BY DEF SeatInv, RequestsOK, Receive, Idle, Becomes

-----------------------------------------------------------------------------
(* Where a handler is tells what kind it can be.                           *)
LEMMA KindsAt ==
    ASSUME FlowOK, RequestsOK, NEW r \in Requests
    PROVE  /\ At(r, "check") => req[r].kind \in {"join", "enqueue"}
           /\ At(r, "seat") => req[r].kind \in {"join", "admit"}
           /\ At(r, "line") => req[r].kind = "enqueue"
           /\ At(r, "mirror") => req[r].kind = "enqueue"
           /\ req[r].stage \in Persisting => req[r].kind \in {"join", "enqueue", "admit"}
           /\ At(r, "unline") => req[r].kind = "cancel"
           /\ At(r, "resolve") => req[r].kind \in {"cancel", "admit"}
           /\ At(r, "authorize") => req[r].kind = "kick"
           /\ At(r, "block") => req[r].kind = "kick"
           /\ At(r, "vacate") => req[r].kind \in {"leave", "kick"}
           /\ At(r, "close") => req[r].kind \in {"leave", "kick"}
           /\ req[r].stage \in {"count", "index"} =>
                req[r].kind \in {"join", "enqueue", "leave", "kick", "admit"}
<1>1. req[r].kind \in Kind /\ req[r].stage \in StagesOf[req[r].kind]
  BY DEF FlowOK, RequestsOK, Request
<1> QED
  BY <1>1 DEF Kind, StagesOf, At, Persisting

(* The stages a handler may go on to.                                      *)
LEMMA FlowKept ==
    ASSUME FlowOK, NEW r \in Requests, NEW kind, NEW stage, NEW who, NEW next,
           Becomes(r, kind, stage, who, next),
           stage \in StagesOf[kind],
           kind = "none" => who = NoProfile,
           next # NoProfile => kind \in {"leave", "kick"} /\ stage \in {"close", "count", "index"},
           kind \in Removal =>
              \/ req[r].kind \in Removal
              \/ \A s \in Requests : req[s].kind \notin Removal
    PROVE  FlowOK'
<1>1. ASSUME NEW s \in Requests
      PROVE  /\ req'[s].stage \in StagesOf[req'[s].kind]
             /\ req'[s].kind = "none" => req'[s].who = NoProfile
             /\ req'[s].next # NoProfile => Vacated(s)'
  <2>1. CASE s = r
    BY <2>1 DEF Becomes, Vacated
  <2>2. CASE s # r
    BY <2>2 DEF FlowOK, Becomes, Vacated
  <2> QED
    BY <2>1, <2>2
<1>2. ASSUME NEW s \in Requests, NEW t \in Requests,
             req'[s].kind \in Removal, req'[t].kind \in Removal
      PROVE  s = t
  BY <1>2 DEF FlowOK, Becomes
<1> QED
  BY <1>1, <1>2 DEF FlowOK, StagesOf, Removal

(* A step that moves its handler on or ends it brings nobody a rival.      *)
LEMMA AloneKept ==
    ASSUME FlowOK, AloneOK, RequestsOK, NEW r \in Requests, NEW stage, NEW next,
           Becomes(r, req[r].kind, stage, req[r].who, next) \/ Ends(r)
    PROVE  AloneOK'
<1>1. ASSUME NEW s \in Requests, NEW t \in Requests, s # t,
             req'[s].kind \in {"leave", "kick", "enqueue", "cancel"}, req'[t].who = req'[s].who
      PROVE  req'[t].kind = "admit"
  <2>1. CASE Becomes(r, req[r].kind, stage, req[r].who, next)
    BY <1>1, <2>1 DEF AloneOK, Becomes
  <2>2. CASE Ends(r)
    <3>1. s # r /\ req'[s] = req[s]
      BY <1>1, <2>2 DEF Ends, Becomes
    <3>2. req[s].who \in Profiles
      BY <1>1, <3>1 DEF FlowOK, StagesOf, RequestsOK, At
    <3>3. t # r
      BY <1>1, <2>2, <3>1, <3>2, NoProfileAssumption DEF Ends, Becomes
    <3>4. req'[t] = req[t]
      BY <2>2, <3>3 DEF Ends, Becomes
    <3> QED
      BY <1>1, <3>1, <3>4 DEF AloneOK
  <2> QED
    BY <2>1, <2>2
<1> QED
  BY <1>1 DEF AloneOK

(* Moving on keeps the kind and the profiles.                              *)
LEMMA MovesKeep ==
    ASSUME FlowOK, AloneOK, RequestsOK, NEW r \in Requests, NEW stage, Moves(r, stage),
           stage \in StagesOf[req[r].kind],
           Vacated(r) => stage \in {"close", "count", "index"}
    PROVE  FlowOK' /\ AloneOK'
<1>1. FlowOK'
  <2>1. /\ req[r].kind = "none" => req[r].who = NoProfile
        /\ req[r].next # NoProfile => Vacated(r)
    BY DEF FlowOK
  <2> QED
    BY <2>1, FlowKept DEF Moves, Vacated
<1>2. AloneOK'
  BY AloneKept DEF Moves
<1> QED
  BY <1>1, <1>2

LEMMA EndsKeep ==
    ASSUME FlowOK, AloneOK, RequestsOK, NEW r \in Requests, Ends(r)
    PROVE  FlowOK' /\ AloneOK'
<1>1. FlowOK'
  <2>1. "idle" \in StagesOf["none"] /\ "none" \notin Removal
    BY DEF StagesOf, Removal
  <2> QED
    BY <2>1, FlowKept DEF Ends
<1>2. AloneOK'
  BY AloneKept
<1> QED
  BY <1>1, <1>2

(* Nobody joins the line, and whoever stands in it is neither seated nor   *)
(* blocked.                                                                *)
LEMMA LineKept ==
    ASSUME LineOK, NEW r \in Requests, NEW stage, NEW next,
           Becomes(r, req[r].kind, stage, req[r].who, next) \/ Ends(r),
           IsInjective(queue'),
           \A p : Contains(queue', p) => Contains(queue, p),
           \A p \in Profiles : Contains(queue', p) => p \notin members' /\ p \notin blocked',
           req[r].kind = "enqueue" /\ stage \in {"check", "line"} => At(r, "check"),
           req[r].kind = "cancel" /\ stage = "resolve" => ~Contains(queue', req[r].who)
    PROVE  LineOK'
<1>1. ASSUME NEW s \in Requests, OutOfLine(s)'
      PROVE  ~Contains(queue', req'[s].who)
  <2>1. CASE s # r
    <3>1. req'[s] = req[s]
      BY <2>1 DEF Ends, Becomes
    <3>2. ~Contains(queue, req[s].who)
      BY <1>1, <3>1 DEF LineOK, OutOfLine
    <3> QED
      BY <3>1, <3>2
  <2>2. CASE s = r
    <3>1. /\ req'[r].kind = req[r].kind /\ req'[r].stage = stage
          /\ req'[r].who = req[r].who
      BY <1>1, <2>2 DEF Ends, Becomes, OutOfLine
    <3>2. CASE req[r].kind = "cancel"
      BY <1>1, <2>2, <3>1, <3>2 DEF OutOfLine
    <3>3. CASE req[r].kind # "cancel"
      <4>1. ~Contains(queue, req[r].who)
        BY <1>1, <2>2, <3>1, <3>3 DEF LineOK, OutOfLine, At
      <4> QED
        BY <2>2, <3>1, <4>1
    <3> QED
      BY <3>2, <3>3
  <2> QED
    BY <2>1, <2>2
<1> QED
  BY <1>1 DEF LineOK

(* Seats and rows stand still: the handler answers for itself.             *)
LEMMA SeatedKept ==
    ASSUME SeatedOK, NEW r \in Requests, NEW kind, NEW stage, NEW who, NEW next,
           Becomes(r, kind, stage, who, next), UNCHANGED <<members, participant>>,
           stage \in Persisting \/ (kind = "admit" /\ stage = "resolve") => who \in members,
           stage = "create" => participant[who] # "left",
           stage = "close" => who \notin members
    PROVE  SeatedOK'
BY DEF SeatedOK, Becomes

(* What RowsOK says of one profile.                                        *)
RowFollows(p) ==
    /\ p \in members /\ participant[p] # "live" =>
          \E r \in Requests : req[r].who = p /\ req[r].stage \in Persisting
    /\ p \notin members /\ participant[p] = "live" =>
          \E r \in Requests : req[r].who = p /\ req[r].stage = "close"
    /\ Contains(queue, p) /\ "WAITING" \notin entries[p] =>
          \E r \in Requests : req[r].who = p /\ req[r].stage = "mirror"

(* A step that only touches its own profile answers for that one alone.    *)
LEMMA RowsKept ==
    ASSUME RowsOK, NEW r \in Requests,
           \A s \in Requests \ {r} : req'[s] = req[s],
           NEW who, req[r].who = who,
           \A p \in Profiles \ {who} :
              /\ p \in members' <=> p \in members
              /\ participant'[p] = participant[p]
              /\ entries'[p] = entries[p]
              /\ Contains(queue', p) => Contains(queue, p),
           who \in Profiles => RowFollows(who)'
    PROVE  RowsOK'
<1>1. ASSUME NEW p \in Profiles \ {who} PROVE RowFollows(p)'
  <2>1. \A s \in Requests : req[s].who = p => req'[s] = req[s]
    BY <1>1
  <2>2. RowFollows(p)
    BY DEF RowsOK, RowFollows
  <2> QED
    BY <2>1, <2>2 DEF RowFollows
<1>2. \A p \in Profiles : RowFollows(p)'
  BY <1>1
<1> QED
  BY <1>2 DEF RowsOK, RowFollows

(* A handler that is about to write no row.                                *)
Bystander(r) == req[r].stage \notin Persisting \cup {"close", "mirror"}

LEMMA BystanderRows ==
    ASSUME RowsOK, NEW r \in Requests, Bystander(r),
           \A s \in Requests \ {r} : req'[s] = req[s],
           UNCHANGED <<members, participant, entries>>,
           \A p : Contains(queue', p) => Contains(queue, p)
    PROVE  RowsOK'
<1>1. \A s \in Requests : ~Bystander(s) => req'[s] = req[s]
  OBVIOUS
<1>2. ASSUME NEW p \in Profiles PROVE RowFollows(p)'
  <2>1. RowFollows(p)
    BY DEF RowsOK, RowFollows
  <2> QED
    BY <1>1, <2>1 DEF RowFollows, Bystander
<1> QED
  BY <1>2 DEF RowsOK, RowFollows

(* No seat is freed, nobody joins the line, and an admission on its way    *)
(* stays on its way.                                                       *)
LEMMA FreeKept ==
    ASSUME FreeOK, UNCHANGED members, queue' # <<>> => queue # <<>>,
           \A s \in Requests : Admits(s) => Admits(s)'
    PROVE  FreeOK'
BY DEF FreeOK, Full

LEMMA AdmitsKept ==
    ASSUME NEW r \in Requests, \A s \in Requests \ {r} : req'[s] = req[s],
           UNCHANGED members, Admits(r) => Admits(r)'
    PROVE  \A s \in Requests : Admits(s) => Admits(s)'
BY DEF Admits, Vacated

LEMMA BlockKept ==
    ASSUME BlockOK, NEW r \in Requests, NEW kind, NEW stage, NEW who, NEW next,
           Becomes(r, kind, stage, who, next), blocked' \subseteq blocked,
           stage \in {"seat", "line"} => who \notin blocked,
           next \notin blocked
    PROVE  BlockOK'
BY DEF BlockOK, Becomes

-----------------------------------------------------------------------------
(* Steps that leave seats, line and blocks alone.                          *)

LEMMA StillMoves ==
    ASSUME SeatInv, OrderInv, NEW r \in Requests, NEW stage, Moves(r, stage),
           UNCHANGED <<members, queue, blocked>>, SeatedOK', RowsOK',
           stage \in StagesOf[req[r].kind],
           Vacated(r) => stage \in {"close", "count", "index"},
           stage \in {"check", "line"} => At(r, "check"),
           stage \in {"seat", "line"} => req[r].who \notin blocked,
           req[r].kind = "cancel" => stage # "resolve",
           Admits(r) => Admits(r)'
    PROVE  OrderInv'
<1>1. FlowOK /\ AloneOK /\ LineOK /\ FreeOK /\ BlockOK /\ RequestsOK
  BY DEF OrderInv, SeatInv
<1>2. FlowOK' /\ AloneOK'
  BY <1>1, MovesKeep
<1>3. LineOK'
  <2>1. IsInjective(queue') /\ \A p : Contains(queue', p) => Contains(queue, p)
    BY <1>1 DEF LineOK
  <2>2. \A p \in Profiles : Contains(queue', p) => p \notin members' /\ p \notin blocked'
    BY <1>1 DEF LineOK
  <2>3. Becomes(r, req[r].kind, stage, req[r].who, req[r].next)
    BY DEF Moves
  <2> QED
    BY <1>1, <2>1, <2>2, <2>3, LineKept
<1>4. \A s \in Requests \ {r} : req'[s] = req[s]
  BY DEF Moves, Becomes
<1>5. FreeOK'
  BY <1>1, <1>4, AdmitsKept, FreeKept
<1>6. BlockOK'
  <2>1. req[r].next \notin blocked /\ blocked' \subseteq blocked
    BY <1>1 DEF BlockOK
  <2> QED
    BY <1>1, <2>1, BlockKept DEF Moves
<1> QED
  BY <1>2, <1>3, <1>5, <1>6 DEF OrderInv

LEMMA StillEnds ==
    ASSUME SeatInv, OrderInv, NEW r \in Requests, Ends(r),
           UNCHANGED <<members, queue, blocked, participant>>, RowsOK',
           Full \/ ~Admits(r)
    PROVE  OrderInv'
<1>1. FlowOK /\ AloneOK /\ LineOK /\ SeatedOK /\ FreeOK /\ BlockOK /\ RequestsOK /\ DataOK
  BY DEF OrderInv, SeatInv
<1>2. FlowOK' /\ AloneOK'
  BY <1>1, EndsKeep
<1>3. LineOK'
  <2>1. IsInjective(queue') /\ \A p : Contains(queue', p) => Contains(queue, p)
    BY <1>1 DEF LineOK
  <2>2. \A p \in Profiles : Contains(queue', p) => p \notin members' /\ p \notin blocked'
    BY <1>1 DEF LineOK
  <2>3. "idle" \notin {"check", "line"} /\ "idle" # "resolve"
    OBVIOUS
  <2> QED
    BY <1>1, <2>1, <2>2, <2>3, LineKept
<1>4. \A s \in Requests \ {r} : req'[s] = req[s]
  BY DEF Ends, Becomes
<1>5. FreeOK'
  <2>1. CASE Full
    BY <2>1 DEF FreeOK, Full
  <2>2. CASE ~Admits(r)
    BY <1>1, <1>4, <2>2, AdmitsKept, FreeKept
  <2> QED
    BY <2>1, <2>2
<1>6. BlockOK'
  <2>1. NoProfile \notin blocked /\ blocked' \subseteq blocked
    BY <1>1, NoProfileAssumption DEF DataOK
  <2> QED
    BY <1>1, <2>1, BlockKept DEF Ends
<1>7. SeatedOK'
  BY <1>1, SeatedKept DEF Ends, Persisting
<1> QED
  BY <1>2, <1>3, <1>5, <1>6, <1>7 DEF OrderInv

-----------------------------------------------------------------------------
(* One lemma per action.                                                   *)

LEMMA AssertNotBlockedOrder ==
    ASSUME SeatInv, OrderInv, NEW r \in Requests, AssertNotBlocked(r)
    PROVE  OrderInv'
<1>1. /\ At(r, "check") /\ UNCHANGED <<members, queue, blocked, participant, entries>>
      /\ \/ Finish(r)
         \/ req[r].who \notin blocked /\ req[r].kind = "join" /\ Goto(r, "seat")
         \/ req[r].who \notin blocked /\ req[r].kind = "enqueue" /\ Goto(r, "line")
  BY DEF AssertNotBlocked, redis, postgres
<1>2. RowsOK /\ SeatedOK /\ Bystander(r) /\ ~Admits(r)
  BY <1>1 DEF OrderInv, Bystander, Persisting, At, Admits, Vacated
<1>3. CASE Finish(r)
  <2>1. Ends(r)
    BY <1>3, FinishEnds
  <2>2. RowsOK'
    BY <1>1, <1>2, <2>1, BystanderRows DEF Ends, Becomes
  <2> QED
    BY <1>1, <1>2, <2>1, <2>2, StillEnds
<1>4. ASSUME NEW stage \in {"seat", "line"}, Goto(r, stage), req[r].who \notin blocked,
             stage \in StagesOf[req[r].kind]
      PROVE  OrderInv'
  <2>1. Moves(r, stage)
    BY <1>4, GotoMoves
  <2>2. RowsOK'
    BY <1>1, <1>2, <2>1, BystanderRows DEF Moves, Becomes
  <2>3. SeatedOK'
    BY <1>1, <1>2, <1>4, <2>1, SeatedKept DEF Moves, Persisting
  <2>4. ~Vacated(r)
    BY <1>1 DEF Vacated, At
  <2> QED
    BY <1>1, <1>2, <1>4, <2>1, <2>2, <2>3, <2>4, StillMoves
<1>5. "seat" \in StagesOf["join"] /\ "line" \in StagesOf["enqueue"]
  BY DEF StagesOf
<1> QED
  BY <1>1, <1>3, <1>4, <1>5

(* Taking a free seat, whichever script does it.                           *)
LEMMA SitsDown ==
    ASSUME SeatInv, OrderInv, NEW r \in Requests, NEW p, p = req[r].who,
           At(r, "seat") \/ At(r, "line"),
           p \notin members, ~Full, members' = members \cup {p},
           Moves(r, "find"), UNCHANGED <<blocked, participant, entries>>,
           IsInjective(queue'),
           \A q : Contains(queue', q) => Contains(queue, q) /\ q # p,
           queue' # <<>> => queue # <<>>
    PROVE  OrderInv'
<1>1. /\ FlowOK /\ AloneOK /\ LineOK /\ SeatedOK /\ RowsOK /\ FreeOK /\ BlockOK
      /\ RequestsOK /\ DataOK
  BY DEF OrderInv, SeatInv
<1>2. /\ req[r].kind \in {"join", "admit", "enqueue"}
      /\ ~Vacated(r) /\ Bystander(r) /\ p \in Profiles
      /\ \A s \in Requests \ {r} : req'[s] = req[s]
      /\ req'[r].kind = req[r].kind /\ req'[r].stage = "find" /\ req'[r].who = p
  BY <1>1, KindsAt DEF At, Vacated, Moves, Becomes, RequestsOK, Bystander, Persisting
<1>3. FlowOK' /\ AloneOK'
  <2>1. "find" \in StagesOf[req[r].kind]
    BY <1>2 DEF StagesOf
  <2> QED
    BY <1>1, <1>2, <2>1, MovesKeep
<1>4. LineOK'
  <2>1. \A q : Contains(queue', q) => Contains(queue, q)
    OBVIOUS
  <2>2. \A q \in Profiles : Contains(queue', q) => q \notin members' /\ q \notin blocked'
    BY <1>1 DEF LineOK
  <2>3. Becomes(r, req[r].kind, "find", req[r].who, req[r].next)
    BY DEF Moves
  <2>4. "find" \notin {"check", "line"} /\ "find" # "resolve"
    OBVIOUS
  <2> QED
    BY <1>1, <2>1, <2>2, <2>3, <2>4, LineKept
<1>5. SeatedOK'
  <2>1. ASSUME NEW s \in Requests, s # r, req[s].stage = "close" PROVE req[s].who # p
    <3>1. req[s].kind \in {"leave", "kick"}
      BY <1>1, <2>1, KindsAt DEF At
    <3>2. req[s].who = p => req[r].kind = "admit"
      BY <1>1, <2>1, <3>1 DEF AloneOK
    <3>3. req[r].kind # "admit"
      BY <1>1, <2>1, <3>1 DEF FlowOK, Removal
    <3> QED
      BY <3>2, <3>3
  <2> QED
    BY <1>1, <1>2, <2>1 DEF SeatedOK, Persisting
<1>6. RowsOK'
  <2>1. RowFollows(p)'
    BY <1>2 DEF RowFollows, Persisting
  <2>2. \A q \in Profiles \ {p} :
              /\ q \in members' <=> q \in members
              /\ participant'[q] = participant[q]
              /\ entries'[q] = entries[q]
              /\ Contains(queue', q) => Contains(queue, q)
    OBVIOUS
  <2> QED
    BY <1>1, <1>2, <2>1, <2>2, RowsKept
<1>7. FreeOK'
  <2>1. IsFiniteSet(members) /\ Cardinality(members) \in Nat
    BY <1>1, ProfilesAssumption, FS_Subset, FS_CardinalityType DEF DataOK
  <2>2. Cardinality(members') = Cardinality(members) + 1
    BY <2>1, FS_AddElement
  <2>3. queue # <<>> => Cardinality(members) + 1 = Capacity
    BY <1>1 DEF FreeOK
  <2>4. queue' # <<>> => Full'
    BY <2>2, <2>3, CapacityAssumption DEF Full
  <2> QED
    BY <2>4 DEF FreeOK
<1>8. BlockOK'
  <2>1. req[r].next \notin blocked /\ blocked' \subseteq blocked
    BY <1>1 DEF BlockOK
  <2> QED
    BY <1>1, <2>1, BlockKept DEF Moves
<1> QED
  BY <1>3, <1>4, <1>5, <1>6, <1>7, <1>8 DEF OrderInv

LEMMA TryJoinRoomOrder ==
    ASSUME SeatInv, OrderInv, NEW r \in Requests, TryJoinRoom(r)
    PROVE  OrderInv'
<1>0. PICK p : p = req[r].who
  OBVIOUS
<1>1. /\ At(r, "seat") /\ UNCHANGED <<blocked, participant, entries>>
      /\ \/ p \in members /\ Goto(r, "find") /\ UNCHANGED <<members, queue>>
         \/ p \notin members /\ Full /\ Finish(r) /\ UNCHANGED <<members, queue>>
         \/ /\ p \notin members /\ ~Full
            /\ members' = members \cup {p}
            /\ queue' = Without(queue, p)
            /\ Goto(r, "find")
  BY <1>0 DEF TryJoinRoom, postgres
<1>2. /\ RowsOK /\ SeatedOK /\ LineOK /\ FlowOK /\ RequestsOK /\ DataOK
      /\ Bystander(r) /\ ~Vacated(r) /\ p = req[r].who
  BY <1>0, <1>1 DEF OrderInv, SeatInv, Bystander, Persisting, At, Vacated
<1>3. CASE p \in members /\ Goto(r, "find") /\ UNCHANGED <<members, queue>>
  <2>1. Moves(r, "find")
    BY <1>3, GotoMoves
  <2>2. RowsOK'
    BY <1>1, <1>2, <1>3, <2>1, BystanderRows DEF Moves, Becomes
  <2>3. SeatedOK'
    BY <1>1, <1>2, <1>3, <2>1, SeatedKept DEF Moves, Persisting
  <2>4. "find" \in StagesOf[req[r].kind]
    BY <1>1, <1>2, KindsAt DEF StagesOf
  <2>5. ~Admits(r)
    BY <1>2, <1>3 DEF Admits
  <2> QED
    BY <1>1, <1>2, <1>3, <2>1, <2>2, <2>3, <2>4, <2>5, StillMoves
<1>4. CASE Full /\ Finish(r) /\ UNCHANGED <<members, queue>>
  <2>1. Ends(r)
    BY <1>4, FinishEnds
  <2>2. RowsOK'
    BY <1>1, <1>2, <1>4, <2>1, BystanderRows DEF Ends, Becomes
  <2> QED
    BY <1>1, <1>4, <2>1, <2>2, StillEnds
<1>5. CASE /\ p \notin members /\ ~Full
           /\ members' = members \cup {p}
           /\ queue' = Without(queue, p)
           /\ Goto(r, "find")
  <2>1. Moves(r, "find")
    BY <1>5, GotoMoves
  <2>2. queue \in Seq(Profiles) /\ IsInjective(queue)
    BY <1>2 DEF DataOK, LineOK
  <2>3. /\ IsInjective(queue')
        /\ \A q : Contains(queue', q) => Contains(queue, q) /\ q # p
        /\ queue' # <<>> => queue # <<>>
    BY <1>5, <2>2, WithoutOnce
  <2> QED
    BY <1>1, <1>2, <1>5, <2>1, <2>3, SitsDown
<1> QED
  BY <1>1, <1>3, <1>4, <1>5

LEMMA EnqueueWaitingOrder ==
    ASSUME SeatInv, OrderInv, NEW r \in Requests, EnqueueWaiting(r)
    PROVE  OrderInv'
<1>0. PICK p : p = req[r].who
  OBVIOUS
<1>1. /\ At(r, "line") /\ UNCHANGED <<blocked, participant, entries>>
      /\ \/ p \in members /\ Finish(r) /\ UNCHANGED <<members, queue>>
         \/ /\ p \notin members /\ ~Full
            /\ members' = members \cup {p}
            /\ Goto(r, "find")
            /\ UNCHANGED queue
         \/ /\ p \notin members /\ Full
            /\ IF Contains(queue, p)
               THEN UNCHANGED queue
               ELSE \E i \in Places(queue, Skew) : queue' = InsertAt(queue, i, p)
            /\ Goto(r, "mirror")
            /\ UNCHANGED members
  BY <1>0 DEF EnqueueWaiting, postgres
<1>2. /\ RowsOK /\ SeatedOK /\ LineOK /\ FlowOK /\ AloneOK /\ BlockOK /\ RequestsOK /\ DataOK
      /\ Bystander(r) /\ ~Vacated(r) /\ ~Admits(r) /\ p = req[r].who /\ p \in Profiles
  BY <1>0, <1>1 DEF OrderInv, SeatInv, Bystander, Persisting, At, Vacated, Admits, RequestsOK
<1>3. req[r].kind = "enqueue"
  BY <1>1, <1>2, KindsAt
<1>4. ~Contains(queue, p) /\ p \notin blocked
  BY <1>1, <1>2, <1>3 DEF LineOK, OutOfLine, BlockOK, At
<1>5. CASE Finish(r) /\ UNCHANGED <<members, queue>>
  <2>1. Ends(r)
    BY <1>5, FinishEnds
  <2>2. RowsOK'
    BY <1>1, <1>2, <1>5, <2>1, BystanderRows DEF Ends, Becomes
  <2> QED
    BY <1>1, <1>2, <1>5, <2>1, <2>2, StillEnds
<1>6. CASE p \notin members /\ ~Full /\ members' = members \cup {p} /\ Goto(r, "find")
           /\ UNCHANGED queue
  <2>1. Moves(r, "find")
    BY <1>6, GotoMoves
  <2>2. /\ IsInjective(queue')
        /\ \A q : Contains(queue', q) => Contains(queue, q) /\ q # p
        /\ queue' # <<>> => queue # <<>>
    BY <1>2, <1>4, <1>6 DEF LineOK
  <2> QED
    BY <1>1, <1>2, <1>6, <2>1, <2>2, SitsDown
<1>7. ASSUME NEW i \in Places(queue, Skew), queue' = InsertAt(queue, i, p),
             p \notin members, Full, Goto(r, "mirror"), UNCHANGED members
      PROVE  OrderInv'
  <2>1. Moves(r, "mirror")
    BY <1>7, GotoMoves
  <2>2. /\ \A s \in Requests \ {r} : req'[s] = req[s]
        /\ req'[r].kind = "enqueue" /\ req'[r].stage = "mirror" /\ req'[r].who = p
    BY <1>2, <1>3, <2>1 DEF Moves, Becomes
  <2>3. FlowOK' /\ AloneOK'
    <3>1. "mirror" \in StagesOf["enqueue"]
      BY DEF StagesOf
    <3> QED
      BY <1>2, <1>3, <2>1, <3>1, MovesKeep
  <2>4. IsInjective(queue') /\ \A q : Contains(queue', q) => Contains(queue, q) \/ q = p
    <3>1. i \in 1 .. Len(queue) + 1 /\ queue \in Seq(Profiles) /\ IsInjective(queue)
      BY <1>2, <1>7 DEF Places, LineOK, DataOK
    <3> QED
      BY <1>2, <1>4, <1>7, <3>1, InsertedOnce
  <2>5. LineOK'
    <3>1. \A q \in Profiles : Contains(queue', q) => q \notin members' /\ q \notin blocked'
      BY <1>1, <1>2, <1>4, <1>7, <2>4 DEF LineOK
    <3>2. ASSUME NEW s \in Requests, OutOfLine(s)' PROVE ~Contains(queue', req'[s].who)
      <4>1. s # r /\ req'[s] = req[s] /\ OutOfLine(s)
        BY <2>2, <3>2 DEF OutOfLine
      <4>2. ~Contains(queue, req[s].who)
        BY <1>2, <4>1 DEF LineOK
      <4>3. req[s].who # p
        BY <1>2, <1>3, <4>1 DEF AloneOK, OutOfLine
      <4> QED
        BY <2>4, <4>1, <4>2, <4>3
    <3> QED
      BY <2>4, <3>1, <3>2 DEF LineOK
  <2>6. SeatedOK'
    BY <1>1, <1>2, <1>7, <2>1, SeatedKept DEF Moves, Persisting
  <2>7. RowsOK'
    <3>1. RowFollows(p)'
      <4>1. RowFollows(p)
        BY <1>2 DEF RowsOK, RowFollows
      <4>2. \A s \in Requests : ~Bystander(s) => req'[s] = req[s]
        BY <1>2, <2>2
      <4> QED
        BY <1>1, <1>7, <2>2, <4>1, <4>2 DEF RowFollows, Bystander
    <3>2. \A q \in Profiles \ {p} :
              /\ q \in members' <=> q \in members
              /\ participant'[q] = participant[q]
              /\ entries'[q] = entries[q]
              /\ Contains(queue', q) => Contains(queue, q)
      BY <1>1, <1>7, <2>4
    <3> QED
      BY <1>2, <2>2, <3>1, <3>2, RowsKept
  <2>8. FreeOK'
    BY <1>7 DEF FreeOK, Full
  <2>9. BlockOK'
    <3>1. req[r].next \notin blocked /\ blocked' \subseteq blocked
      BY <1>1, <1>2 DEF BlockOK
    <3> QED
      BY <1>2, <2>1, <3>1, BlockKept DEF Moves
  <2> QED
    BY <2>3, <2>5, <2>6, <2>7, <2>8, <2>9 DEF OrderInv
<1> QED
  BY <1>1, <1>4, <1>5, <1>6, <1>7

LEMMA MirrorEntryOrder ==
    ASSUME SeatInv, OrderInv, NEW r \in Requests, MirrorEntry(r)
    PROVE  OrderInv'
<1>1. PICK p : p = req[r].who
  OBVIOUS
<1>2. /\ At(r, "mirror") /\ Finish(r) /\ UNCHANGED <<members, queue, blocked, participant>>
      /\ entries' = [entries EXCEPT ![p] = @ \cup {"WAITING"}]
  BY <1>1 DEF MirrorEntry, redis
<1>3. /\ RowsOK /\ p \in Profiles /\ ~Admits(r)
      /\ entries \in [Profiles -> SUBSET QueueStatus]
  BY <1>1, <1>2 DEF OrderInv, SeatInv, RequestsOK, DataOK, At, Admits, Vacated
<1>4. Ends(r)
  BY <1>2, FinishEnds
<1>5. \A s \in Requests \ {r} : req'[s] = req[s]
  BY <1>4 DEF Ends, Becomes
<1>6. RowsOK'
  <2>1. RowFollows(p)'
    <3>1. RowFollows(p)
      BY <1>3 DEF RowsOK, RowFollows
    <3>2. "WAITING" \in entries'[p]
      BY <1>2, <1>3
    <3>3. \A s \in Requests : req[s].stage # "mirror" => req'[s] = req[s]
      BY <1>2, <1>5 DEF At
    <3> QED
      BY <1>2, <3>1, <3>2, <3>3 DEF RowFollows, Persisting
  <2>2. \A q \in Profiles \ {p} :
              /\ q \in members' <=> q \in members
              /\ participant'[q] = participant[q]
              /\ entries'[q] = entries[q]
              /\ Contains(queue', q) => Contains(queue, q)
    BY <1>2, <1>3
  <2> QED
    BY <1>1, <1>3, <1>5, <2>1, <2>2, RowsKept
<1> QED
  BY <1>2, <1>3, <1>4, <1>6, StillEnds

LEMMA FindParticipantOrder ==
    ASSUME SeatInv, OrderInv, NEW r \in Requests, FindParticipant(r)
    PROVE  OrderInv'
<1>1. PICK p : p = req[r].who
  OBVIOUS
<1>2. /\ At(r, "find") /\ UNCHANGED <<members, queue, blocked, participant, entries>>
      /\ \/ participant[p] = "none" /\ Goto(r, "create")
         \/ participant[p] = "left" /\ Goto(r, "revive")
         \/ participant[p] = "live" /\ AfterPersist(r)
  BY <1>1 DEF FindParticipant, redis, postgres
<1>3. /\ RowsOK /\ SeatedOK /\ FlowOK /\ LineOK /\ RequestsOK /\ p \in Profiles
      /\ ~Admits(r) /\ ~Vacated(r)
  BY <1>1, <1>2 DEF OrderInv, SeatInv, RequestsOK, DataOK, At, Admits, Vacated
<1>4. /\ p \in members /\ ~Contains(queue, p)
      /\ req[r].kind \in {"join", "enqueue", "admit"}
  BY <1>1, <1>2, <1>3, KindsAt DEF SeatedOK, Persisting, At, LineOK
<1>5. PICK stage \in {"create", "revive", "resolve", "count"} :
        /\ Moves(r, stage)
        /\ stage \in StagesOf[req[r].kind]
        /\ req[r].kind = "cancel" => stage # "resolve"
        /\ stage = "create" => participant[p] # "left"
        /\ stage \in Persisting \/ participant[p] = "live"
  <2>1. CASE participant[p] = "none" /\ Goto(r, "create")
    BY <1>4, <2>1, GotoMoves DEF StagesOf, Persisting
  <2>2. CASE participant[p] = "left" /\ Goto(r, "revive")
    BY <1>4, <2>2, GotoMoves DEF StagesOf, Persisting
  <2>3. CASE participant[p] = "live" /\ AfterPersist(r)
    <3>1. Moves(r, IF req[r].kind = "admit" THEN "resolve" ELSE "count")
      BY <2>3, AfterPersistMoves
    <3>2. CASE req[r].kind = "admit"
      BY <2>3, <3>1, <3>2 DEF StagesOf
    <3>3. CASE req[r].kind # "admit"
      BY <1>4, <2>3, <3>1, <3>3 DEF StagesOf
    <3> QED
      BY <3>2, <3>3
  <2> QED
    BY <1>2, <2>1, <2>2, <2>3
<1>6. /\ \A s \in Requests \ {r} : req'[s] = req[s]
      /\ req'[r].stage = stage /\ req'[r].who = p
  BY <1>1, <1>5 DEF Moves, Becomes
<1>7. RowsOK'
  <2>1. RowFollows(p)'
    BY <1>2, <1>4, <1>5, <1>6 DEF RowFollows
  <2>2. \A q \in Profiles \ {p} :
              /\ q \in members' <=> q \in members
              /\ participant'[q] = participant[q]
              /\ entries'[q] = entries[q]
              /\ Contains(queue', q) => Contains(queue, q)
    BY <1>2
  <2> QED
    BY <1>1, <1>3, <1>6, <2>1, <2>2, RowsKept
<1>8. SeatedOK'
  BY <1>1, <1>2, <1>3, <1>4, <1>5, SeatedKept DEF Moves
<1> QED
  BY <1>2, <1>3, <1>5, <1>7, <1>8, StillMoves

(* Writing the row of somebody seated.                                     *)
LEMMA RowWritten ==
    ASSUME SeatInv, OrderInv, NEW r \in Requests, NEW p, p = req[r].who,
           At(r, "create") \/ At(r, "revive"),
           participant' = [participant EXCEPT ![p] = "live"], AfterPersist(r),
           UNCHANGED <<members, queue, blocked, entries>>
    PROVE  OrderInv'
<1>1. /\ RowsOK /\ SeatedOK /\ FlowOK /\ LineOK /\ RequestsOK /\ p \in Profiles
      /\ ~Admits(r) /\ ~Vacated(r) /\ participant \in [Profiles -> RowState]
  BY DEF OrderInv, SeatInv, RequestsOK, DataOK, At, Admits, Vacated
<1>2. /\ p \in members /\ ~Contains(queue, p)
      /\ req[r].kind \in {"join", "enqueue", "admit"}
  BY <1>1, KindsAt DEF SeatedOK, Persisting, At, LineOK
<1>3. PICK stage \in {"resolve", "count"} :
        /\ Moves(r, stage)
        /\ stage \in StagesOf[req[r].kind]
        /\ req[r].kind = "cancel" => stage # "resolve"
  <2>1. Moves(r, IF req[r].kind = "admit" THEN "resolve" ELSE "count")
    BY AfterPersistMoves
  <2>2. CASE req[r].kind = "admit"
    BY <2>1, <2>2 DEF StagesOf
  <2>3. CASE req[r].kind # "admit"
    BY <1>2, <2>1, <2>3 DEF StagesOf
  <2> QED
    BY <2>2, <2>3
<1>4. /\ \A s \in Requests \ {r} : req'[s] = req[s]
      /\ req'[r].stage = stage /\ req'[r].who = p /\ req'[r].kind = req[r].kind
  BY <1>3 DEF Moves, Becomes
<1>5. participant'[p] = "live" /\ \A q \in Profiles \ {p} : participant'[q] = participant[q]
  BY <1>1
<1>6. RowsOK'
  <2>1. RowFollows(p)'
    BY <1>2, <1>5 DEF RowFollows
  <2>2. \A q \in Profiles \ {p} :
              /\ q \in members' <=> q \in members
              /\ participant'[q] = participant[q]
              /\ entries'[q] = entries[q]
              /\ Contains(queue', q) => Contains(queue, q)
    BY <1>5
  <2> QED
    BY <1>1, <1>4, <2>1, <2>2, RowsKept
<1>7. SeatedOK'
  <2>1. \A s \in Requests \ {r} : req[s].stage = "create" => participant'[req[s].who] # "left"
    <3>1. \A s \in Requests : req[s].stage = "create" => req[s].who \in Profiles
      BY <1>1 DEF RequestsOK, At
    <3> QED
      BY <1>1, <1>5, <3>1 DEF SeatedOK
  <2> QED
    BY <1>1, <1>2, <1>4, <2>1 DEF SeatedOK, Persisting
<1> QED
  BY <1>1, <1>3, <1>6, <1>7, StillMoves

LEMMA CreateParticipantOrder ==
    ASSUME SeatInv, OrderInv, NEW r \in Requests, CreateParticipant(r)
    PROVE  OrderInv'
<1>1. PICK p : p = req[r].who
  OBVIOUS
<1>2. /\ At(r, "create") /\ UNCHANGED <<members, queue, blocked, entries>>
      /\ \/ participant' = [participant EXCEPT ![p] = "live"] /\ AfterPersist(r)
         \/ participant[p] # "none" /\ Finish(r) /\ UNCHANGED participant
  BY <1>1 DEF CreateParticipant, redis
<1>3. CASE participant' = [participant EXCEPT ![p] = "live"] /\ AfterPersist(r)
  BY <1>1, <1>2, <1>3, RowWritten
<1>4. CASE participant[p] # "none" /\ Finish(r) /\ UNCHANGED participant
  <2>1. /\ RowsOK /\ SeatedOK /\ LineOK /\ p \in Profiles /\ ~Admits(r)
        /\ participant \in [Profiles -> RowState]
    BY <1>1, <1>2 DEF OrderInv, SeatInv, RequestsOK, DataOK, At, Admits, Vacated
  <2>2. p \in members /\ ~Contains(queue, p) /\ participant[p] = "live"
    BY <1>1, <1>2, <1>4, <2>1 DEF SeatedOK, Persisting, At, LineOK, RowState
  <2>3. Ends(r)
    BY <1>4, FinishEnds
  <2>4. \A s \in Requests \ {r} : req'[s] = req[s]
    BY <2>3 DEF Ends, Becomes
  <2>5. RowFollows(p)'
    BY <1>2, <1>4, <2>2 DEF RowFollows
  <2>6. \A q \in Profiles \ {p} :
              /\ q \in members' <=> q \in members
              /\ participant'[q] = participant[q]
              /\ entries'[q] = entries[q]
              /\ Contains(queue', q) => Contains(queue, q)
    BY <1>2, <1>4
  <2>7. RowsOK'
    BY <1>1, <2>1, <2>4, <2>5, <2>6, RowsKept
  <2> QED
    BY <1>2, <1>4, <2>1, <2>3, <2>7, StillEnds
<1> QED
  BY <1>2, <1>3, <1>4

LEMMA ReviveParticipantOrder ==
    ASSUME SeatInv, OrderInv, NEW r \in Requests, ReviveParticipant(r)
    PROVE  OrderInv'
<1>1. PICK p : p = req[r].who
  OBVIOUS
<1>2. /\ At(r, "revive") /\ UNCHANGED <<members, queue, blocked, entries>>
      /\ participant' = [participant EXCEPT ![p] = "live"] /\ AfterPersist(r)
  BY <1>1 DEF ReviveParticipant, redis
<1> QED
  BY <1>1, <1>2, RowWritten

LEMMA LeaveLineOrder ==
    ASSUME SeatInv, OrderInv, NEW r \in Requests, LeaveLine(r)
    PROVE  OrderInv'
<1>1. PICK p : p = req[r].who
  OBVIOUS
<1>2. /\ At(r, "unline") /\ UNCHANGED <<members, blocked, participant, entries>>
      /\ queue' = Without(queue, p) /\ Goto(r, "resolve")
  BY <1>1 DEF LeaveLine, postgres
<1>3. /\ FlowOK /\ AloneOK /\ LineOK /\ SeatedOK /\ RowsOK /\ FreeOK /\ BlockOK /\ RequestsOK
      /\ queue \in Seq(Profiles)
  BY DEF OrderInv, SeatInv, DataOK
<1>4. /\ Moves(r, "resolve") /\ req[r].kind = "cancel" /\ ~Vacated(r) /\ ~Admits(r)
      /\ Bystander(r)
  BY <1>2, <1>3, GotoMoves, KindsAt DEF At, Vacated, Admits, Bystander, Persisting
<1>5. /\ IsInjective(queue')
      /\ \A q : Contains(queue', q) => Contains(queue, q) /\ q # p
      /\ queue' # <<>> => queue # <<>>
  BY <1>2, <1>3, WithoutOnce DEF LineOK
<1>6. \A s \in Requests \ {r} : req'[s] = req[s]
  BY <1>4 DEF Moves, Becomes
<1>7. FlowOK' /\ AloneOK'
  <2>1. "resolve" \in StagesOf["cancel"]
    BY DEF StagesOf
  <2> QED
    BY <1>3, <1>4, <2>1, MovesKeep
<1>8. LineOK'
  <2>1. \A q \in Profiles : Contains(queue', q) => q \notin members' /\ q \notin blocked'
    BY <1>2, <1>3, <1>5 DEF LineOK
  <2>2. Becomes(r, req[r].kind, "resolve", req[r].who, req[r].next)
    BY <1>4 DEF Moves
  <2>3. ~Contains(queue', req[r].who) /\ \A q : Contains(queue', q) => Contains(queue, q)
    BY <1>1, <1>5
  <2>4. IsInjective(queue') /\ "resolve" \notin {"check", "line"} /\ LineOK
    BY <1>3, <1>5
  <2> QED
    BY <2>1, <2>2, <2>3, <2>4, LineKept
<1>9. SeatedOK'
  BY <1>2, <1>3, <1>4, SeatedKept DEF Moves, Persisting
<1>10. RowsOK'
  BY <1>2, <1>3, <1>4, <1>5, <1>6, BystanderRows
<1>11. FreeOK'
  BY <1>2, <1>3, <1>4, <1>5, <1>6, AdmitsKept, FreeKept
<1>12. BlockOK'
  <2>1. req[r].next \notin blocked /\ blocked' \subseteq blocked
    BY <1>2, <1>3 DEF BlockOK
  <2> QED
    BY <1>3, <1>4, <2>1, BlockKept DEF Moves
<1> QED
  BY <1>7, <1>8, <1>9, <1>10, <1>11, <1>12 DEF OrderInv

LEMMA ResolveEntryOrder ==
    ASSUME SeatInv, OrderInv, NEW r \in Requests, ResolveEntry(r)
    PROVE  OrderInv'
<1>1. PICK p : p = req[r].who
  OBVIOUS
<1>2. /\ At(r, "resolve") /\ UNCHANGED <<members, queue, blocked, participant>>
      /\ \A q \in Profiles \ {p} : entries'[q] = entries[q]
      /\ Finish(r) \/ (req[r].kind = "admit" /\ Goto(r, "count"))
  <2>1. entries \in [Profiles -> SUBSET QueueStatus]
    BY DEF SeatInv, DataOK
  <2> QED
    BY <1>1, <2>1 DEF ResolveEntry, redis
<1>3. /\ FlowOK /\ LineOK /\ SeatedOK /\ RowsOK /\ RequestsOK /\ p \in Profiles
      /\ ~Vacated(r) /\ ~Admits(r) /\ Bystander(r)
  BY <1>1, <1>2
     DEF OrderInv, SeatInv, RequestsOK, At, Vacated, Admits, Bystander, Persisting
(* A cancellation has taken him out of the line, an admission seated him.  *)
<1>4. ~Contains(queue, p)
  <2>1. req[r].kind \in {"cancel", "admit"}
    BY <1>2, <1>3, KindsAt
  <2>2. CASE req[r].kind = "cancel"
    BY <1>1, <1>2, <1>3, <2>2 DEF LineOK, OutOfLine, At
  <2>3. CASE req[r].kind = "admit"
    BY <1>1, <1>2, <1>3, <2>3 DEF LineOK, SeatedOK, At
  <2> QED
    BY <2>1, <2>2, <2>3
<1>5. ASSUME \A s \in Requests \ {r} : req'[s] = req[s] PROVE RowsOK'
  <2>1. RowFollows(p)'
    <3>1. RowFollows(p)
      BY <1>3 DEF RowsOK, RowFollows
    <3>2. \A s \in Requests : ~Bystander(s) => req'[s] = req[s]
      BY <1>3, <1>5
    <3> QED
      BY <1>2, <1>4, <3>1, <3>2 DEF RowFollows, Bystander
  <2>2. \A q \in Profiles \ {p} :
              /\ q \in members' <=> q \in members
              /\ participant'[q] = participant[q]
              /\ entries'[q] = entries[q]
              /\ Contains(queue', q) => Contains(queue, q)
    BY <1>2
  <2> QED
    BY <1>1, <1>3, <1>5, <2>1, <2>2, RowsKept
<1>6. CASE Finish(r)
  <2>1. Ends(r)
    BY <1>6, FinishEnds
  <2>2. RowsOK'
    BY <1>5, <2>1 DEF Ends, Becomes
  <2> QED
    BY <1>2, <1>3, <2>1, <2>2, StillEnds
<1>7. CASE req[r].kind = "admit" /\ Goto(r, "count")
  <2>1. Moves(r, "count")
    BY <1>7, GotoMoves
  <2>2. RowsOK'
    BY <1>5, <2>1 DEF Moves, Becomes
  <2>3. SeatedOK'
    BY <1>2, <1>3, <2>1, SeatedKept DEF Moves, Persisting
  <2>4. "count" \in StagesOf[req[r].kind]
    BY <1>7 DEF StagesOf
  <2> QED
    BY <1>2, <1>3, <2>1, <2>2, <2>3, <2>4, StillMoves
<1> QED
  BY <1>2, <1>6, <1>7

LEMMA CountMembersOrder ==
    ASSUME SeatInv, OrderInv, NEW r \in Requests, CountMembers(r)
    PROVE  OrderInv'
<1>1. At(r, "count") /\ UNCHANGED <<members, queue, blocked, participant, entries>>
  BY DEF CountMembers, redis, postgres
<1>2. /\ FlowOK /\ SeatedOK /\ RowsOK /\ RequestsOK /\ Bystander(r)
      /\ Moves(r, "index")
  BY <1>1, CountMembersMoves DEF OrderInv, SeatInv, At, Bystander, Persisting
<1>3. "index" \in StagesOf[req[r].kind]
  BY <1>1, <1>2, KindsAt DEF StagesOf, At
<1>4. RowsOK'
  BY <1>1, <1>2, BystanderRows DEF Moves, Becomes
<1>5. SeatedOK'
  BY <1>1, <1>2, SeatedKept DEF Moves, Persisting
<1>6. Admits(r) => Admits(r)'
  <2>1. /\ req'[r].kind = req[r].kind /\ req'[r].stage = "index"
        /\ req'[r].next = req[r].next
    BY <1>2 DEF Moves, Becomes
  <2> QED
    BY <1>1, <2>1 DEF Admits, Vacated, At
<1> QED
  BY <1>1, <1>2, <1>3, <1>4, <1>5, <1>6, StillMoves

LEMMA IndexActivityOrder ==
    ASSUME SeatInv, OrderInv, NEW r \in Requests, IndexActivity(r)
    PROVE  OrderInv'
<1>1. At(r, "index") /\ UNCHANGED <<members, queue, blocked, participant, entries>>
  BY DEF IndexActivity, postgres
<1>2. /\ FlowOK /\ AloneOK /\ LineOK /\ SeatedOK /\ RowsOK /\ FreeOK /\ BlockOK
      /\ RequestsOK /\ DataOK /\ Bystander(r)
  BY <1>1 DEF OrderInv, SeatInv, At, Bystander, Persisting
<1>3. CASE req[r].next = NoProfile /\ Ends(r)
  <2>1. RowsOK'
    BY <1>1, <1>2, <1>3, BystanderRows DEF Ends, Becomes
  <2>2. ~Admits(r)
    BY <1>1, <1>3, NoProfileAssumption DEF Admits, At
  <2> QED
    BY <1>1, <1>3, <2>1, <2>2, StillEnds
<1>4. CASE req[r].next # NoProfile /\ Becomes(r, "admit", "seat", req[r].next, NoProfile)
  <2>1. /\ \A s \in Requests \ {r} : req'[s] = req[s]
        /\ req'[r].kind = "admit" /\ req'[r].stage = "seat" /\ req'[r].who = req[r].next
    BY <1>4 DEF Becomes
  <2>2. FlowOK'
    <3>1. "seat" \in StagesOf["admit"] /\ "admit" # "none"
      BY DEF StagesOf
    <3>2. req[r].kind \in Removal
      BY <1>2, <1>4 DEF FlowOK, Vacated, Removal
    <3> QED
      BY <1>2, <1>4, <3>1, <3>2, FlowKept
  <2>3. AloneOK'
    BY <1>2, <2>1 DEF AloneOK
  <2>4. LineOK'
    <3>1. \A s \in Requests : OutOfLine(s)' => s # r /\ OutOfLine(s)
      BY <2>1 DEF OutOfLine
    <3> QED
      BY <1>1, <1>2, <2>1, <3>1 DEF LineOK
  <2>5. SeatedOK'
    BY <1>1, <1>2, <1>4, SeatedKept DEF Persisting
  <2>6. RowsOK'
    BY <1>1, <1>2, <2>1, BystanderRows
  <2>7. FreeOK'
    <3>1. Admits(r) => Admits(r)'
      BY <1>1, <2>1 DEF Admits, At
    <3> QED
      BY <1>1, <1>2, <2>1, <3>1, AdmitsKept, FreeKept
  <2>8. BlockOK'
    <3>1. NoProfile \notin blocked /\ blocked' \subseteq blocked /\ req[r].next \notin blocked
      BY <1>1, <1>2, NoProfileAssumption DEF DataOK, BlockOK
    <3> QED
      BY <1>2, <1>4, <3>1, BlockKept
  <2> QED
    BY <2>2, <2>3, <2>4, <2>5, <2>6, <2>7, <2>8 DEF OrderInv
<1> QED
  BY <1>3, <1>4, IndexBecomes

LEMMA AuthorizeKickOrder ==
    ASSUME SeatInv, OrderInv, NEW r \in Requests, AuthorizeKick(r)
    PROVE  OrderInv'
<1>1. /\ At(r, "authorize") /\ UNCHANGED <<members, queue, blocked, participant, entries>>
      /\ Goto(r, "block") \/ Finish(r)
  BY DEF AuthorizeKick, redis, postgres
<1>2. /\ FlowOK /\ SeatedOK /\ RowsOK /\ RequestsOK /\ Bystander(r)
      /\ ~Vacated(r) /\ ~Admits(r)
  BY <1>1 DEF OrderInv, SeatInv, At, Bystander, Persisting, Vacated, Admits
<1>3. CASE Goto(r, "block")
  <2>1. Moves(r, "block")
    BY <1>3, GotoMoves
  <2>2. RowsOK'
    BY <1>1, <1>2, <2>1, BystanderRows DEF Moves, Becomes
  <2>3. SeatedOK'
    BY <1>1, <1>2, <2>1, SeatedKept DEF Moves, Persisting
  <2>4. "block" \in StagesOf[req[r].kind]
    BY <1>1, <1>2, KindsAt DEF StagesOf
  <2> QED
    BY <1>1, <1>2, <2>1, <2>2, <2>3, <2>4, StillMoves
<1>4. CASE Finish(r)
  <2>1. Ends(r)
    BY <1>4, FinishEnds
  <2>2. RowsOK'
    BY <1>1, <1>2, <2>1, BystanderRows DEF Ends, Becomes
  <2> QED
    BY <1>1, <1>2, <2>1, <2>2, StillEnds
<1> QED
  BY <1>1, <1>3, <1>4

LEMMA BlockProfileOrder ==
    ASSUME SeatInv, OrderInv, NEW r \in Requests, BlockProfile(r)
    PROVE  OrderInv'
<1>1. PICK p : p = req[r].who
  OBVIOUS
<1>2. /\ At(r, "block") /\ UNCHANGED <<members, queue, participant, entries>>
      /\ blocked' = blocked \cup {p} /\ Goto(r, "vacate")
  BY <1>1 DEF BlockProfile, postgres
<1>3. /\ FlowOK /\ AloneOK /\ LineOK /\ SeatedOK /\ RowsOK /\ FreeOK /\ BlockOK /\ RequestsOK
      /\ Moves(r, "vacate") /\ ~Vacated(r) /\ ~Admits(r) /\ Bystander(r)
      /\ p \in Profiles
  BY <1>1, <1>2, GotoMoves
     DEF OrderInv, SeatInv, RequestsOK, At, Vacated, Admits, Bystander, Persisting
<1>4. req[r].kind = "kick" /\ ~Contains(queue, p)
  BY <1>1, <1>2, <1>3, KindsAt DEF LineOK, OutOfLine
<1>5. \A s \in Requests \ {r} : req'[s] = req[s]
  BY <1>3 DEF Moves, Becomes
<1>6. FlowOK' /\ AloneOK'
  <2>1. "vacate" \in StagesOf["kick"]
    BY DEF StagesOf
  <2> QED
    BY <1>3, <1>4, <2>1, MovesKeep
<1>7. LineOK'
  <2>1. \A q \in Profiles : Contains(queue', q) => q \notin members' /\ q \notin blocked'
    BY <1>2, <1>3, <1>4 DEF LineOK
  <2>2. Becomes(r, req[r].kind, "vacate", req[r].who, req[r].next)
    BY <1>3 DEF Moves
  <2>3. IsInjective(queue') /\ \A q : Contains(queue', q) => Contains(queue, q)
    BY <1>2, <1>3 DEF LineOK
  <2>4. "vacate" \notin {"check", "line"} /\ "vacate" # "resolve" /\ LineOK
    BY <1>3
  <2> QED
    BY <2>1, <2>2, <2>3, <2>4, LineKept
<1>8. SeatedOK'
  BY <1>2, <1>3, SeatedKept DEF Moves, Persisting
<1>9. RowsOK'
  BY <1>2, <1>3, <1>5, BystanderRows
<1>10. FreeOK'
  BY <1>2, <1>3, <1>5, AdmitsKept, FreeKept
(* No other handler acts for him, and none is about to admit anybody.      *)
<1>11. BlockOK'
  <2>1. ASSUME NEW s \in Requests, s # r
        PROVE  req[s].kind \notin Removal
    BY <1>3, <1>4, <2>1 DEF FlowOK, Removal
  <2>2. ASSUME NEW s \in Requests
        PROVE  req[s].next = NoProfile
    BY <1>3, <2>1, <2>2 DEF FlowOK, Vacated, Removal
  <2>3. ASSUME NEW s \in Requests, s # r
        PROVE  req[s].who # p
    BY <1>1, <1>3, <1>4, <2>1, <2>3 DEF AloneOK, Removal
  <2>4. req'[r].stage = "vacate" /\ req'[r].next = req[r].next
    BY <1>3 DEF Moves, Becomes
  <2>5. NoProfile \notin blocked'
    BY <1>2, <1>3, <2>2, NoProfileAssumption DEF BlockOK
  <2> QED
    BY <1>2, <1>3, <1>5, <2>2, <2>3, <2>4, <2>5 DEF BlockOK
<1> QED
  BY <1>6, <1>7, <1>8, <1>9, <1>10, <1>11 DEF OrderInv

(* The head that a leave reads is not seated, and the seat it frees is the *)
(* only one: with somebody waiting, an earlier free seat would have an     *)
(* admission on its way, and this removal is the only one in flight.       *)
LEMMA LeaveAndPromoteOrder ==
    ASSUME SeatInv, OrderInv, NEW r \in Requests, LeaveAndPromote(r)
    PROVE  OrderInv'
<1>1. PICK p : p = req[r].who
  OBVIOUS
<1>2. PICK head : head = IF queue = <<>> THEN NoProfile ELSE Head(queue)
  OBVIOUS
<1>3. /\ At(r, "vacate") /\ UNCHANGED <<queue, blocked, participant, entries>>
      /\ members' = members \ {p}
      /\ Becomes(r, req[r].kind, "close", req[r].who, head)
  BY <1>1, <1>2, LeaveMoves DEF LeaveAndPromote, postgres
<1>4. /\ FlowOK /\ AloneOK /\ LineOK /\ SeatedOK /\ RowsOK /\ FreeOK /\ BlockOK /\ RequestsOK
      /\ DataOK /\ CapacityNeverExceeded
      /\ ~Vacated(r) /\ ~Admits(r) /\ Bystander(r) /\ p \in Profiles
  BY <1>1, <1>3
     DEF OrderInv, SeatInv, RequestsOK, At, Vacated, Admits, Bystander, Persisting
<1>5. req[r].kind \in {"leave", "kick"}
  BY <1>3, <1>4, KindsAt
<1>6. /\ \A s \in Requests \ {r} : req'[s] = req[s]
      /\ req'[r].kind = req[r].kind /\ req'[r].stage = "close" /\ req'[r].who = p
      /\ req'[r].next = head
  BY <1>1, <1>3 DEF Becomes
<1>7. queue # <<>> => head \in Profiles \ members /\ head \notin blocked
  <2>1. ASSUME queue # <<>> PROVE head \in Profiles /\ Contains(queue, head)
    <3>1. queue \in Seq(Profiles)
      BY <1>4 DEF DataOK
    <3>2. Len(queue) \in Nat /\ Len(queue) # 0 /\ DOMAIN queue = 1 .. Len(queue)
      BY <2>1, <3>1, EmptySeq, LenProperties
    <3>3. 1 \in 1 .. Len(queue) /\ head = queue[1]
      BY <1>2, <2>1, <3>1, <3>2
    <3> QED
      BY <3>1, <3>2, <3>3 DEF Contains
  <2> QED
    BY <1>4, <2>1 DEF LineOK
<1>8. FlowOK'
  <2>1. "close" \in StagesOf[req[r].kind]
    BY <1>5 DEF StagesOf
  <2> QED
    BY <1>3, <1>4, <1>5, <2>1, FlowKept DEF Removal
<1>9. AloneOK'
  BY <1>3, <1>4, AloneKept
<1>10. LineOK'
  <2>1. \A q \in Profiles : Contains(queue', q) => q \notin members' /\ q \notin blocked'
    BY <1>3, <1>4 DEF LineOK
  <2>2. IsInjective(queue') /\ \A q : Contains(queue', q) => Contains(queue, q)
    BY <1>3, <1>4 DEF LineOK
  <2>3. "close" \notin {"check", "line"} /\ "close" # "resolve" /\ LineOK
    BY <1>4
  <2> QED
    BY <1>3, <2>1, <2>2, <2>3, LineKept
(* Nobody is persisting the seat that is given up.                         *)
<1>11. SeatedOK'
  <2>1. ASSUME NEW s \in Requests, s # r
        PROVE  req[s].kind # "admit" /\ req[s].who # p
    <3>1. req[s].kind # "admit"
      BY <1>4, <1>5, <2>1 DEF FlowOK, Removal
    <3> QED
      BY <1>1, <1>4, <1>5, <2>1, <3>1 DEF AloneOK
  <2> QED
    BY <1>3, <1>4, <1>5, <1>6, <2>1 DEF SeatedOK, Persisting
<1>12. RowsOK'
  <2>1. RowFollows(p)'
    <3>1. RowFollows(p)
      BY <1>4 DEF RowsOK, RowFollows
    <3>2. \A s \in Requests : ~Bystander(s) => req'[s] = req[s]
      BY <1>4, <1>6
    <3> QED
      BY <1>3, <1>6, <3>1, <3>2 DEF RowFollows, Bystander
  <2>2. \A q \in Profiles \ {p} :
              /\ q \in members' <=> q \in members
              /\ participant'[q] = participant[q]
              /\ entries'[q] = entries[q]
              /\ Contains(queue', q) => Contains(queue, q)
    BY <1>3
  <2> QED
    BY <1>1, <1>4, <1>6, <2>1, <2>2, RowsKept
<1>13. FreeOK'
  <2>1. ASSUME queue # <<>>, ~Full'
        PROVE  Cardinality(members') + 1 = Capacity
    <3>1. Full
      <4>1. ASSUME ~Full PROVE FALSE
        <5>1. PICK s \in Requests : Admits(s)
          BY <1>4, <2>1, <4>1 DEF FreeOK
        <5>2. req[s].kind \in Removal /\ req[r].kind \in Removal
          BY <1>5, <5>1 DEF Admits, Vacated, Removal
        <5> QED
          BY <1>4, <5>1, <5>2 DEF FlowOK
      <4> QED
        BY <4>1
    <3>2. IsFiniteSet(members) /\ Cardinality(members) \in Nat
      BY <1>4, ProfilesAssumption, FS_Subset, FS_CardinalityType DEF DataOK
    <3>3. Cardinality(members) = Capacity
      BY <1>4, <3>1, <3>2, CapacityAssumption DEF Full, CapacityNeverExceeded
    <3>4. Cardinality(members') =
            IF p \in members THEN Cardinality(members) - 1 ELSE Cardinality(members)
      BY <1>3, <3>2, FS_RemoveElement
    <3>5. p \in members
      BY <2>1, <3>2, <3>3, <3>4, CapacityAssumption DEF Full
    <3> QED
      BY <3>2, <3>3, <3>4, <3>5
  <2>2. queue # <<>> => Admits(r)'
    BY <1>3, <1>5, <1>6, <1>7 DEF Admits, Vacated
  <2> QED
    BY <1>3, <2>1, <2>2 DEF FreeOK
<1>14. BlockOK'
  <2>1. head \notin blocked /\ blocked' \subseteq blocked
    BY <1>2, <1>3, <1>4, <1>7, NoProfileAssumption DEF DataOK
  <2> QED
    BY <1>3, <1>4, <2>1, BlockKept
<1> QED
  BY <1>8, <1>9, <1>10, <1>11, <1>12, <1>13, <1>14 DEF OrderInv

LEMMA CloseParticipantOrder ==
    ASSUME SeatInv, OrderInv, NEW r \in Requests, CloseParticipant(r)
    PROVE  OrderInv'
<1>1. PICK p : p = req[r].who
  OBVIOUS
<1>2. /\ At(r, "close") /\ UNCHANGED <<members, queue, blocked, entries>>
      /\ participant' = [participant EXCEPT ![p] = IF @ = "live" THEN "left" ELSE @]
      /\ Goto(r, "count")
  BY <1>1 DEF CloseParticipant, redis
<1>3. /\ FlowOK /\ SeatedOK /\ RowsOK /\ RequestsOK /\ Moves(r, "count")
      /\ p \in Profiles /\ participant \in [Profiles -> RowState]
  BY <1>1, <1>2, GotoMoves DEF OrderInv, SeatInv, RequestsOK, DataOK, At
<1>4. p \notin members /\ req[r].kind \in {"leave", "kick"}
  BY <1>1, <1>2, <1>3, KindsAt DEF SeatedOK, At
<1>5. /\ \A s \in Requests \ {r} : req'[s] = req[s]
      /\ req'[r].kind = req[r].kind /\ req'[r].stage = "count" /\ req'[r].who = p
      /\ req'[r].next = req[r].next
  BY <1>1, <1>3 DEF Moves, Becomes
<1>6. participant'[p] # "live" /\ \A q \in Profiles \ {p} : participant'[q] = participant[q]
  BY <1>2, <1>3
<1>7. SeatedOK'
  <2>1. ASSUME NEW s \in Requests, req[s].stage = "create"
        PROVE  participant'[req[s].who] # "left"
    <3>1. req[s].who \in Profiles /\ req[s].who # p
      BY <1>3, <1>4, <2>1 DEF RequestsOK, At, SeatedOK, Persisting
    <3> QED
      BY <1>3, <1>6, <2>1, <3>1 DEF SeatedOK
  <2> QED
    BY <1>2, <1>3, <1>4, <1>5, <2>1 DEF SeatedOK, Persisting
<1>8. RowsOK'
  <2>1. RowFollows(p)'
    <3>1. RowFollows(p)
      BY <1>3 DEF RowsOK, RowFollows
    <3>2. \A s \in Requests : req[s].stage = "mirror" => req'[s] = req[s]
      BY <1>2, <1>5 DEF At
    <3> QED
      BY <1>2, <1>4, <1>6, <3>1, <3>2 DEF RowFollows
  <2>2. \A q \in Profiles \ {p} :
              /\ q \in members' <=> q \in members
              /\ participant'[q] = participant[q]
              /\ entries'[q] = entries[q]
              /\ Contains(queue', q) => Contains(queue, q)
    BY <1>2, <1>6
  <2> QED
    BY <1>1, <1>3, <1>5, <2>1, <2>2, RowsKept
<1>9. Admits(r) => Admits(r)'
  BY <1>2, <1>4, <1>5 DEF Admits, Vacated
<1>10. "count" \in StagesOf[req[r].kind]
  BY <1>4 DEF StagesOf
<1> QED
  BY <1>2, <1>3, <1>7, <1>8, <1>9, <1>10, StillMoves

LEMMA ExpireBlockOrder ==
    ASSUME SeatInv, OrderInv, NEW p \in Profiles, ExpireBlock(p)
    PROVE  OrderInv'
<1>1. UNCHANGED <<members, queue, participant, entries, req>> /\ blocked' \subseteq blocked
  BY DEF ExpireBlock, postgres
<1>2. FlowOK' /\ AloneOK' /\ SeatedOK'
  BY <1>1 DEF OrderInv, FlowOK, AloneOK, SeatedOK, Vacated
<1>3. LineOK' /\ BlockOK'
  BY <1>1 DEF OrderInv, LineOK, BlockOK, OutOfLine
<1>4. RowsOK' /\ FreeOK'
  BY <1>1 DEF OrderInv, RowsOK, FreeOK, Full, Admits, Vacated
<1> QED
  BY <1>2, <1>3, <1>4 DEF OrderInv

LEMMA ReceiveOrder ==
    ASSUME SeatInv, OrderInv, NEW r \in Requests, NEW kind \in DOMAIN FirstStage,
           NEW p \in Profiles, OrderlyArrival(kind, p), Receive(r, kind, p)
    PROVE  OrderInv'
<1>1. PICK stage : stage = FirstStage[kind]
  OBVIOUS
<1>2. /\ At(r, "idle") /\ UNCHANGED <<members, queue, blocked, participant, entries>>
      /\ Becomes(r, kind, stage, p, NoProfile)
  BY <1>1, ReceiveBecomes DEF Receive, redis, postgres
<1>3. /\ kind \in {"join", "enqueue", "leave", "cancel", "kick"}
      /\ stage \in StagesOf[kind] /\ stage \in {"check", "vacate", "unline", "authorize"}
  BY <1>1 DEF FirstStage, StagesOf
<1>4. /\ FlowOK /\ AloneOK /\ LineOK /\ SeatedOK /\ RowsOK /\ FreeOK /\ BlockOK /\ RequestsOK
      /\ DataOK /\ Bystander(r) /\ ~Admits(r)
  BY <1>2 DEF OrderInv, SeatInv, At, Vacated, Admits, Bystander, Persisting
<1>5. /\ kind \in {"leave", "kick"} => \A s \in Requests : req[s].kind \notin Removal
      /\ kind \in {"enqueue", "kick"} => ~Contains(queue, p)
      /\ \A s \in Requests : req[s].who = p => kind = "join" /\ req[s].kind = "join"
  BY DEF OrderlyArrival, Removal
<1>6. /\ \A s \in Requests \ {r} : req'[s] = req[s]
      /\ req'[r].kind = kind /\ req'[r].stage = stage /\ req'[r].who = p
  BY <1>2 DEF Becomes
<1>7. FlowOK'
  <2>1. kind # "none" /\ kind # "admit"
    BY <1>3
  <2> QED
    BY <1>2, <1>3, <1>4, <1>5, <2>1, FlowKept DEF Removal
<1>8. AloneOK'
  BY <1>4, <1>5, <1>6 DEF AloneOK
<1>9. LineOK'
  <2>1. ASSUME NEW s \in Requests, OutOfLine(s)' PROVE ~Contains(queue', req'[s].who)
    <3>1. CASE s = r
      BY <1>2, <1>3, <1>5, <1>6, <2>1, <3>1 DEF OutOfLine
    <3>2. CASE s # r
      BY <1>2, <1>4, <1>6, <2>1, <3>2 DEF OutOfLine, LineOK
    <3> QED
      BY <3>1, <3>2
  <2> QED
    BY <1>2, <1>4, <2>1 DEF LineOK
<1>10. SeatedOK'
  BY <1>2, <1>3, <1>4, SeatedKept DEF Persisting
<1>11. RowsOK'
  BY <1>2, <1>4, <1>6, BystanderRows
<1>12. FreeOK'
  BY <1>2, <1>4, <1>6, AdmitsKept, FreeKept
<1>13. BlockOK'
  <2>1. NoProfile \notin blocked /\ blocked' \subseteq blocked
    BY <1>2, <1>4, NoProfileAssumption DEF DataOK
  <2> QED
    BY <1>2, <1>3, <1>4, <2>1, BlockKept
<1> QED
  BY <1>7, <1>8, <1>9, <1>10, <1>11, <1>12, <1>13 DEF OrderInv

-----------------------------------------------------------------------------
(* Those who are seated at first have their rows, and nobody waits.        *)
LEMMA InitOrder == Init => OrderInv
<1> SUFFICES ASSUME Init PROVE OrderInv
  OBVIOUS
<1>1. /\ members = Seated /\ queue = <<>> /\ blocked = {}
      /\ participant = [p \in Profiles |-> IF p \in Seated THEN "live" ELSE "none"]
      /\ \A r \in Requests : /\ req[r].kind = "none" /\ req[r].stage = "idle"
                             /\ req[r].who = NoProfile /\ req[r].next = NoProfile
  BY DEF Init, Idle
<1>2. IsInjective(queue) /\ \A p : ~Contains(queue, p)
  BY <1>1 DEF IsInjective, Contains
<1>3. FlowOK /\ AloneOK
  BY <1>1 DEF FlowOK, AloneOK, StagesOf, Removal
<1>4. LineOK /\ SeatedOK
  BY <1>1, <1>2 DEF LineOK, SeatedOK, OutOfLine, Persisting
<1>5. RowsOK
  BY <1>1, <1>2 DEF RowsOK
<1>6. FreeOK /\ BlockOK
  BY <1>1 DEF FreeOK, BlockOK
<1> QED
  BY <1>3, <1>4, <1>5, <1>6 DEF OrderInv

LEMMA StepOrder ==
    ASSUME SeatInv, OrderInv, NEW r \in Requests, Step(r)
    PROVE  OrderInv'
BY AssertNotBlockedOrder, TryJoinRoomOrder, EnqueueWaitingOrder, MirrorEntryOrder,
   FindParticipantOrder, CreateParticipantOrder, ReviveParticipantOrder, LeaveLineOrder,
   ResolveEntryOrder, CountMembersOrder, IndexActivityOrder, AuthorizeKickOrder,
   BlockProfileOrder, LeaveAndPromoteOrder, CloseParticipantOrder DEF Step

(* Orderly arrivals are arrivals.                                          *)
LEMMA OrderlyIsNext == [OrderlyNext]_vars => [Next]_vars
BY DEF OrderlyNext, Next

LEMMA OrderlyInv == SeatInv /\ OrderInv /\ [OrderlyNext]_vars => SeatInv' /\ OrderInv'
<1> SUFFICES ASSUME SeatInv, OrderInv, [OrderlyNext]_vars PROVE SeatInv' /\ OrderInv'
  OBVIOUS
<1>1. SeatInv'
  BY OrderlyIsNext, NextInv
<1>2. ASSUME NEW r \in Requests, NEW kind \in DOMAIN FirstStage, NEW p \in Profiles,
             OrderlyArrival(kind, p), Receive(r, kind, p)
      PROVE  OrderInv'
  BY <1>2, ReceiveOrder
<1>3. ASSUME NEW r \in Requests, Step(r) PROVE OrderInv'
  BY <1>3, StepOrder
<1>4. ASSUME NEW p \in Profiles, ExpireBlock(p) PROVE OrderInv'
  BY <1>4, ExpireBlockOrder
<1>5. ASSUME UNCHANGED vars PROVE OrderInv'
  <2>1. UNCHANGED <<members, queue, blocked, participant, entries, req>>
    BY <1>5 DEF vars, redis, postgres
  <2>2. FlowOK' /\ AloneOK' /\ SeatedOK'
    BY <2>1 DEF OrderInv, FlowOK, AloneOK, SeatedOK, Vacated
  <2>3. LineOK' /\ BlockOK'
    BY <2>1 DEF OrderInv, LineOK, BlockOK, OutOfLine
  <2>4. RowsOK' /\ FreeOK'
    BY <2>1 DEF OrderInv, RowsOK, FreeOK, Full, Admits, Vacated
  <2> QED
    BY <2>2, <2>3, <2>4 DEF OrderInv
<1>6. OrderInv'
  BY <1>2, <1>3, <1>4, <1>5 DEF OrderlyNext
<1> QED
  BY <1>1, <1>6

LEMMA AlwaysOrderly == OrderlySpec => [](SeatInv /\ OrderInv)
<1>1. Init => SeatInv /\ OrderInv
  BY InitSeatInv, InitOrder
<1> QED
  BY <1>1, OrderlyInv, PTL DEF OrderlySpec

(* With one removal at a time, a room at rest has no free seat that        *)
(* somebody waits for: leaveAndPromote reads the head, the admission seats *)
(* it, and whoever overtakes it takes the seat himself.                    *)
THEOREM WaiterIsAdmitted == OrderlySpec => []NextWaiterAdmitted
<1>1. OrderInv => NextWaiterAdmitted
  BY DEF OrderInv, FreeOK, Admits, Vacated, NextWaiterAdmitted, AtRest, InFlight, At
<1> QED
  BY <1>1, AlwaysOrderly, PTL

(* With a profile's requests one after the other, what Postgres says at    *)
(* rest is what Redis says: who is seated has a live Participant row, and  *)
(* who stands in line has the WAITING entry.                               *)
THEOREM RowsFollowSeats == OrderlySpec => []RowsMatchSeats
<1>1. SeatInv /\ OrderInv => RowsMatchSeats
  <2> SUFFICES ASSUME SeatInv, OrderInv, AtRest PROVE RowsMatchSeats
    BY DEF RowsMatchSeats
  <2>1. \A r \in Requests : req[r].stage = "idle"
    BY DEF AtRest, InFlight, At
  <2>2. RowsOK /\ members \subseteq Profiles
    BY DEF OrderInv, SeatInv, DataOK
  <2>3. ASSUME NEW p \in Profiles
        PROVE  /\ p \in members <=> participant[p] = "live"
               /\ Contains(queue, p) => "WAITING" \in entries[p]
    BY <2>1, <2>2 DEF RowsOK, Persisting
  <2> QED
    BY <2>2, <2>3 DEF RowsMatchSeats
<1> QED
  BY <1>1, AlwaysOrderly, PTL

(* A kick that has set cr:block and the requests that arrive after it: no  *)
(* script seats a profile while the key lives, an admission included.      *)
THEOREM KickedIsKeptOut == OrderlySpec => KickedStaysOut
<1>1. SeatInv /\ OrderInv /\ [OrderlyNext]_vars
         => [\A p \in members' \ members : p \notin blocked]_vars
  <2> SUFFICES ASSUME SeatInv, OrderInv, [OrderlyNext]_vars,
                      NEW p \in members' \ members
               PROVE  p \notin blocked
    OBVIOUS
  <2>1. BlockOK
    BY DEF OrderInv
  <2>2. ASSUME NEW r \in Requests, Step(r) PROVE p \notin blocked
    <3>1. CASE TryJoinRoom(r)
      BY <2>1, <3>1 DEF TryJoinRoom, BlockOK, At
    <3>2. CASE EnqueueWaiting(r)
      BY <2>1, <3>2 DEF EnqueueWaiting, BlockOK, At
    <3>3. CASE members' \subseteq members
      BY <3>3
    <3>4. \/ TryJoinRoom(r) \/ EnqueueWaiting(r) \/ members' \subseteq members
      BY <2>2 DEF Step, AssertNotBlocked, MirrorEntry, FindParticipant, CreateParticipant,
         ReviveParticipant, LeaveLine, ResolveEntry, CountMembers, IndexActivity,
         AuthorizeKick, BlockProfile, LeaveAndPromote, CloseParticipant, redis
    <3> QED
      BY <3>1, <3>2, <3>3, <3>4
  <2>3. ASSUME UNCHANGED members PROVE p \notin blocked
    BY <2>3
  <2>4. \/ \E r \in Requests : Step(r)
        \/ UNCHANGED members
    BY DEF OrderlyNext, Receive, ExpireBlock, vars, redis
  <2> QED
    BY <2>2, <2>3, <2>4
<1> QED
  BY <1>1, AlwaysOrderly, PTL DEF OrderlySpec, KickedStaysOut

=============================================================================
