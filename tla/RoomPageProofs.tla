--------------------------- MODULE RoomPageProofs ---------------------------
(***************************************************************************)
(* What holds of RoomPage for any profiles, any capacity, any seats and    *)
(* line at first, and any number of moves, troubles and visits.            *)
(***************************************************************************)
EXTENDS RoomPage, FiniteSetTheorems, SequenceTheorems, TLAPS

-----------------------------------------------------------------------------
(* The line.                                                               *)

(* ZREM of one who waits: those before him stay, the others move up.       *)
LEMMA WithoutShift ==
    ASSUME NEW S, NEW s \in Seq(S), NEW p, Contains(s, p)
    PROVE  \E k \in 1 .. Len(s) :
              /\ s[k] = p
              /\ Without(s, p) \in Seq(S) /\ Len(Without(s, p)) = Len(s) - 1
              /\ \A i \in 1 .. Len(s) - 1 :
                    Without(s, p)[i] = IF i <= k - 1 THEN s[i] ELSE s[i + 1]
<1>0. /\ Len(s) \in Nat /\ DOMAIN s = 1 .. Len(s)
      /\ \A i \in 1 .. Len(s) : s[i] \in S
  BY LenProperties
<1>1. PICK k \in 1 .. Len(s) : k = CHOOSE i \in DOMAIN s : s[i] = p
  BY <1>0 DEF Contains
<1>2. s[k] = p
  BY <1>0, <1>1 DEF Contains
<1> DEFINE a == SubSeq(s, 1, k - 1)
           b == SubSeq(s, k + 1, Len(s))
           t == a \o b
<1>3. Without(s, p) = t
  BY <1>1 DEF Without, RemoveAt
<1>4. /\ a \in Seq(S) /\ Len(a) = k - 1 /\ \A i \in 1 .. k - 1 : a[i] = s[i]
  <2>1. 1 \in Int /\ k - 1 \in Int /\ \A i \in 1 .. k - 1 : s[i] \in S
    BY <1>0
  <2>2. /\ a \in Seq(S) /\ Len(a) = IF 1 <= k - 1 THEN k - 1 - 1 + 1 ELSE 0
        /\ \A i \in 1 .. k - 1 - 1 + 1 : a[i] = s[1 + i - 1]
    BY <2>1, SubSeqProperties
  <2> HIDE DEF a
  <2> QED
    BY <1>0, <2>2
<1>5. /\ b \in Seq(S) /\ Len(b) = Len(s) - k
      /\ \A i \in 1 .. Len(s) - k : b[i] = s[k + i]
  <2>1. k + 1 \in Int /\ Len(s) \in Int /\ \A i \in k + 1 .. Len(s) : s[i] \in S
    BY <1>0
  <2>2. /\ b \in Seq(S)
        /\ Len(b) = IF k + 1 <= Len(s) THEN Len(s) - (k + 1) + 1 ELSE 0
        /\ \A i \in 1 .. Len(s) - (k + 1) + 1 : b[i] = s[k + 1 + i - 1]
    BY <2>1, SubSeqProperties
  <2> HIDE DEF b
  <2>3. Len(b) = Len(s) - k
    <3>1. \A n \in Nat : \A j \in 1 .. n :
             (IF j + 1 <= n THEN n - (j + 1) + 1 ELSE 0) = n - j
      OBVIOUS
    <3> QED
      BY <1>0, <2>2, <3>1
  <2>4. \A i \in 1 .. Len(s) - k : i \in 1 .. Len(s) - (k + 1) + 1 /\ k + 1 + i - 1 = k + i
    BY <1>0
  <2> QED
    BY <2>2, <2>3, <2>4
<1> HIDE DEF a, b
<1>6. /\ t \in Seq(S) /\ Len(t) = Len(a) + Len(b)
      /\ \A i \in 1 .. Len(a) + Len(b) : t[i] = IF i <= Len(a) THEN a[i] ELSE b[i - Len(a)]
  BY <1>4, <1>5, ConcatProperties
<1> HIDE DEF t
<1>7. Len(t) = Len(s) - 1
  BY <1>0, <1>4, <1>5, <1>6
<1>8. ASSUME NEW i \in 1 .. Len(s) - 1
      PROVE  t[i] = IF i <= k - 1 THEN s[i] ELSE s[i + 1]
  <2>1. t[i] = IF i <= k - 1 THEN a[i] ELSE b[i - (k - 1)]
    BY <1>0, <1>4, <1>5, <1>6
  <2>2. i <= k - 1 => a[i] = s[i]
    BY <1>0, <1>4
  <2>3. ~(i <= k - 1) => i - (k - 1) \in 1 .. Len(s) - k /\ k + (i - (k - 1)) = i + 1
    BY <1>0
  <2> QED
    BY <1>5, <2>1, <2>2, <2>3
<1> QED
  BY <1>2, <1>3, <1>6, <1>7, <1>8

(* Who is left in line is a profile.                                       *)
LEMMA WithoutType ==
    ASSUME NEW S, NEW s \in Seq(S), NEW p
    PROVE  Without(s, p) \in Seq(S)
<1>1. CASE Contains(s, p)
  BY <1>1, WithoutShift
<1>2. CASE ~Contains(s, p)
  BY <1>2 DEF Without
<1> QED
  BY <1>1, <1>2

(* The rank of one in line is where he stands, and nobody stands twice.    *)
LEMMA RankIs ==
    ASSUME NEW S, NEW s \in Seq(S), NEW p, Contains(s, p)
    PROVE  RankIn(s, p) \in 1 .. Len(s) /\ s[RankIn(s, p)] = p
<1>1. DOMAIN s = 1 .. Len(s)
  BY LenProperties
<1>2. \E i \in DOMAIN s : s[i] = p
  BY <1>1 DEF Contains
<1>3. PICK k : k = CHOOSE i \in DOMAIN s : s[i] = p
  OBVIOUS
<1>4. k \in DOMAIN s /\ s[k] = p
  BY <1>2, <1>3
<1> QED
  BY <1>1, <1>3, <1>4 DEF RankIn

(* Where one stands is his rank, in a line in which nobody stands twice.   *)
LEMMA RankOnly ==
    ASSUME NEW S, NEW s \in Seq(S), IsInjective(s), NEW p, NEW i \in 1 .. Len(s), s[i] = p
    PROVE  Contains(s, p) /\ RankIn(s, p) = i
<1>1. Contains(s, p)
  BY DEF Contains
<1>2. DOMAIN s = 1 .. Len(s)
  BY LenProperties
<1> QED
  BY <1>1, <1>2, RankIs DEF IsInjective

(* Who is taken out is gone; the others stay, and move up at most.         *)
LEMMA WithoutOnce ==
    ASSUME NEW S, NEW s \in Seq(S), IsInjective(s), NEW p
    PROVE  /\ IsInjective(Without(s, p))
           /\ ~Contains(Without(s, p), p)
           /\ \A q : q # p => (Contains(Without(s, p), q) <=> Contains(s, q))
           /\ \A q : Contains(Without(s, p), q) =>
                        RankIn(Without(s, p), q) <= RankIn(s, q)
<1>0. /\ Len(s) \in Nat /\ DOMAIN s = 1 .. Len(s)
      /\ \A i, j \in 1 .. Len(s) : s[i] = s[j] => i = j
  BY LenProperties DEF IsInjective
<1>1. CASE ~Contains(s, p)
  <2>1. Without(s, p) = s
    BY <1>1 DEF Without
  <2>2. \A q : Contains(s, q) => RankIn(s, q) \in 1 .. Len(s)
    BY RankIs
  <2> QED
    BY <1>0, <1>1, <2>1, <2>2
<1>2. CASE Contains(s, p)
  <2>1. PICK k \in 1 .. Len(s) :
              /\ s[k] = p
              /\ Without(s, p) \in Seq(S) /\ Len(Without(s, p)) = Len(s) - 1
              /\ \A i \in 1 .. Len(s) - 1 :
                    Without(s, p)[i] = IF i <= k - 1 THEN s[i] ELSE s[i + 1]
    BY <1>2, WithoutShift
  <2>2. PICK t : t = Without(s, p)
    OBVIOUS
  <2>3. /\ t \in Seq(S) /\ Len(t) = Len(s) - 1 /\ DOMAIN t = 1 .. Len(s) - 1
        /\ \A i \in 1 .. Len(s) - 1 : t[i] = IF i <= k - 1 THEN s[i] ELSE s[i + 1]
    BY <2>1, <2>2, LenProperties
  <2>4. IsInjective(t)
    BY <1>0, <2>3 DEF IsInjective
  <2>5. ASSUME NEW q, NEW i \in 1 .. Len(s) - 1, t[i] = q
        PROVE  q # p /\ \E j \in 1 .. Len(s) : s[j] = q /\ i <= j
    <3>1. CASE i <= k - 1
      <4>1. i \in 1 .. Len(s) /\ s[i] = q /\ i # k
        BY <1>0, <2>3, <2>5, <3>1
      <4> QED
        BY <1>0, <2>1, <4>1
    <3>2. CASE ~(i <= k - 1)
      <4>1. i + 1 \in 1 .. Len(s) /\ s[i + 1] = q /\ i + 1 # k /\ i <= i + 1
        BY <1>0, <2>3, <2>5, <3>2
      <4> QED
        BY <1>0, <2>1, <4>1
    <3> QED
      BY <3>1, <3>2
  <2>6. ASSUME NEW q, q # p, NEW j \in 1 .. Len(s), s[j] = q
        PROVE  \E i \in 1 .. Len(s) - 1 : t[i] = q
    <3>1. j # k
      BY <2>1, <2>6
    <3>2. CASE j < k
      <4>1. j \in 1 .. Len(s) - 1 /\ j <= k - 1
        BY <1>0, <3>2
      <4> QED
        BY <2>3, <2>6, <4>1
    <3>3. CASE j > k
      <4>1. j - 1 \in 1 .. Len(s) - 1 /\ ~(j - 1 <= k - 1) /\ (j - 1) + 1 = j
        BY <1>0, <3>3
      <4>2. t[j - 1] = q
        BY <2>3, <2>6, <4>1
      <4> QED
        BY <4>1, <4>2
    <3> QED
      BY <1>0, <3>1, <3>2, <3>3
  <2>7. \A q : Contains(t, q) <=> \E i \in 1 .. Len(s) - 1 : t[i] = q
    BY <2>3 DEF Contains
  <2>8. ASSUME NEW q, Contains(t, q) PROVE RankIn(t, q) <= RankIn(s, q)
    <3>1. RankIn(t, q) \in 1 .. Len(s) - 1 /\ t[RankIn(t, q)] = q
      BY <2>3, <2>8, RankIs
    <3>2. PICK j \in 1 .. Len(s) : s[j] = q /\ RankIn(t, q) <= j
      BY <2>5, <3>1
    <3>3. RankIn(s, q) = j
      BY <3>2, RankOnly
    <3> QED
      BY <3>2, <3>3
  <2>9. ~Contains(t, p)
    BY <2>5, <2>7
  <2>10. \A q : q # p => (Contains(t, q) <=> Contains(s, q))
    BY <2>5, <2>6, <2>7 DEF Contains
  <2> QED
    BY <2>2, <2>4, <2>8, <2>9, <2>10
<1> QED
  BY <1>1, <1>2

(* A newcomer takes the last place, and moves nobody.                      *)
LEMMA AppendOnce ==
    ASSUME NEW S, NEW s \in Seq(S), IsInjective(s), NEW p \in S, ~Contains(s, p)
    PROVE  /\ IsInjective(Append(s, p))
           /\ Contains(Append(s, p), p)
           /\ \A q : q # p => (Contains(Append(s, p), q) <=> Contains(s, q))
           /\ \A q : Contains(s, q) => RankIn(Append(s, p), q) = RankIn(s, q)
<1>0. /\ Len(s) \in Nat /\ DOMAIN s = 1 .. Len(s)
      /\ \A i, j \in 1 .. Len(s) : s[i] = s[j] => i = j
      /\ \A i \in 1 .. Len(s) : s[i] # p
  BY LenProperties DEF IsInjective, Contains
<1>1. PICK t : t = Append(s, p)
  OBVIOUS
<1>2. /\ t \in Seq(S) /\ Len(t) = Len(s) + 1 /\ DOMAIN t = 1 .. Len(s) + 1
      /\ \A i \in 1 .. Len(s) : t[i] = s[i]
      /\ t[Len(s) + 1] = p
  BY <1>1, AppendProperties, LenProperties
<1>3. \A i \in 1 .. Len(s) + 1 : i \in 1 .. Len(s) \/ i = Len(s) + 1
  BY <1>0
<1>4. IsInjective(t)
  BY <1>0, <1>2, <1>3 DEF IsInjective
<1>5. Contains(t, p)
  <2>1. Len(s) + 1 \in 1 .. Len(t)
    BY <1>0, <1>2
  <2> QED
    BY <1>2, <2>1 DEF Contains
<1>6. \A i \in 1 .. Len(s) : i \in 1 .. Len(t)
  BY <1>0, <1>2
<1>7. \A q : q # p => (Contains(t, q) <=> Contains(s, q))
  BY <1>2, <1>3, <1>6 DEF Contains
<1>8. ASSUME NEW q, Contains(s, q) PROVE RankIn(t, q) = RankIn(s, q)
  <2>1. RankIn(s, q) \in 1 .. Len(s) /\ s[RankIn(s, q)] = q
    BY <1>8, RankIs
  <2>2. RankIn(s, q) \in 1 .. Len(t) /\ t[RankIn(s, q)] = q
    BY <1>2, <1>6, <2>1
  <2> QED
    BY <1>2, <1>4, <2>2, RankOnly
<1> QED
  BY <1>1, <1>4, <1>5, <1>7, <1>8

(* No more stand in line than there are profiles.                          *)
LEMMA RankType ==
    ASSUME NEW s \in Seq(Profiles), IsInjective(s), NEW p
    PROVE  RankIn(s, p) \in Places0 /\ (Contains(s, p) <=> RankIn(s, p) \in Places1)
<1>1. /\ Len(s) \in Nat /\ s \in [1 .. Len(s) -> Profiles]
  BY LenProperties
<1>2. s \in Injection(1 .. Len(s), Profiles)
  BY <1>1 DEF Injection
<1>3. Cardinality(1 .. Len(s)) <= Cardinality(Profiles)
  BY <1>2, FS_Injection, SeatsAssumption
<1>4. Cardinality(1 .. Len(s)) = Len(s)
  <2>1. 1 \in Int /\ Len(s) \in Int
    BY <1>1
  <2>2. Cardinality(1 .. Len(s)) = IF 1 > Len(s) THEN 0 ELSE Len(s) - 1 + 1
    BY <2>1, FS_Interval
  <2> QED
    BY <1>1, <2>2
<1>5. Cardinality(Profiles) \in Nat
  BY FS_CardinalityType, SeatsAssumption
<1>6. CASE Contains(s, p)
  <2>1. RankIn(s, p) \in 1 .. Len(s)
    BY <1>6, RankIs
  <2>2. RankIn(s, p) \in Places1
    BY <1>1, <1>3, <1>4, <1>5, <2>1 DEF Places1
  <2> QED
    BY <1>6, <2>2 DEF Places0
<1>7. CASE ~Contains(s, p)
  BY <1>7 DEF RankIn, Places0, Places1
<1> QED
  BY <1>6, <1>7

(* Who may have a request in flight: each profile, and the moderator.      *)
Slots == Profiles \cup {Staff}
(* The types, and a line in which nobody stands twice.                     *)
Typed == TypeOK /\ IsInjective(queue)

(* A page, field by field.                                                 *)
Fields(r, open, room, fetch, read, invalid, attempted, full, place, shown, kept, missed) ==
    /\ r \in Page
    /\ r.open = open /\ r.room = room /\ r.fetch = fetch /\ r.read = read
    /\ r.invalid = invalid /\ r.attempted = attempted /\ r.full = full /\ r.place = place
    /\ r.shown = shown /\ r.kept = kept /\ r.missed = missed

(* A profile's own parts of the state.                                     *)
LEMMA SlotTypes ==
    ASSUME Typed, NEW p \in Profiles
    PROVE  /\ p \in Slots /\ p # Staff /\ page[p] \in Page /\ call[p] \in Call
           /\ up[p] \in Seq({"JOIN_ROOM", "LEAVE_ROOM"}) /\ down[p] \in Seq(Event)
  BY SlotsAssumption DEF Typed, TypeOK, Slots

(* The fields of a page.                                                   *)
LEMMA PageTypes ==
    ASSUME NEW r \in Page
    PROVE  /\ r.open \in BOOLEAN /\ r.room \in View /\ r.fetch \in {"none", "sent", "read"}
           /\ r.read \in View /\ r.invalid \in BOOLEAN /\ r.attempted \in BOOLEAN
           /\ r.full \in BOOLEAN /\ r.place \in Places0 /\ r.shown \in SUBSET Profiles
           /\ r.kept \in BOOLEAN /\ r.missed \in BOOLEAN
           /\ r.room.seat \in {"unknown", "no", "yes"} /\ r.room.rank \in Places0
           /\ r.read.seat \in {"unknown", "no", "yes"} /\ r.read.rank \in Places0
  BY DEF Page, View

(* What is unknown of a room, and that nothing else is.                    *)
LEMMA ViewTypes ==
    /\ Unknown \in View /\ Unknown.seat = "unknown" /\ Unknown.rank = 0 /\ 0 \in Places0
    /\ \A v \in View : v.seat = "unknown" /\ v.rank = 0 => v = Unknown
<1>1. 0 \in Places0
  BY DEF Places0
<1> QED
  BY <1>1 DEF View, Unknown

(* A profile that has no request in flight.                                *)
LEMMA NoCallType ==
    /\ NoCall \in Call /\ NoCall.kind = "none" /\ NoCall.stage = "idle"
    /\ NoCall.next = NoProfile /\ NoCall.rank = 0 /\ NoCall.answer = "none"
  BY ViewTypes DEF Call, NoCall

(* A step of one page.                                                     *)
LEMMA PageStep ==
    ASSUME Typed, NEW p \in Profiles, NEW r \in Page, page' = [page EXCEPT ![p] = r]
    PROVE  /\ page' \in [Profiles -> Page] /\ page'[p] = r
           /\ \A q \in Profiles \ {p} : page'[q] = page[q]
<1>1. page \in [Profiles -> Page]
  BY DEF Typed, TypeOK
<1> QED
  BY <1>1

(* A step of one request.                                                  *)
LEMMA CallStep ==
    ASSUME Typed, NEW s \in Slots, NEW r \in Call, call' = [call EXCEPT ![s] = r]
    PROVE  /\ call' \in [Slots -> Call] /\ call'[s] = r
           /\ \A t \in Slots \ {s} : call'[t] = call[t]
<1>1. call \in [Slots -> Call]
  BY DEF Typed, TypeOK, Slots
<1> QED
  BY <1>1

-----------------------------------------------------------------------------
(* What the steps make of a page.                                          *)

(* Page p becomes the one with these fields; the others stay.              *)
PageIs(p, open, room, fetch, read, invalid, attempted, full, place, shown, kept, missed) ==
    /\ page' \in [Profiles -> Page] /\ \A q \in Profiles \ {p} : page'[q] = page[q]
    /\ Fields(page'[p], open, room, fetch, read, invalid, attempted, full, place, shown, kept,
              missed)

(* The server answers the room query: what it reads is on its way.         *)
LEMMA ReadRoomIs ==
    ASSUME Typed, NEW p \in Profiles, ReadRoom(p)
    PROVE  PageIs(p, page[p].open, page[p].room, "read",
             [seat |-> IF p \in members THEN "yes" ELSE "no", rank |-> RankIn(queue, p)],
             page[p].invalid, page[p].attempted, page[p].full, page[p].place, page[p].shown,
             page[p].kept, page[p].missed)
<1>1. PICK v : v = [seat |-> IF p \in members THEN "yes" ELSE "no", rank |-> RankIn(queue, p)]
  OBVIOUS
<1>2. v \in View
  BY <1>1, RankType DEF View, Typed, TypeOK
<1>3. page[p] \in Page
  BY SlotTypes
<1>4. PICK r : r = [page[p] EXCEPT !.fetch = "read", !.read = v]
  OBVIOUS
<1>5. Fields(r, page[p].open, page[p].room, "read", v, page[p].invalid, page[p].attempted,
             page[p].full, page[p].place, page[p].shown, page[p].kept, page[p].missed)
  BY <1>2, <1>3, <1>4 DEF Page, Fields
<1>6. page' = [page EXCEPT ![p] = r]
  BY <1>1, <1>4 DEF ReadRoom
<1>7. r \in Page
  BY <1>5 DEF Fields
<1> QED
  BY <1>1, <1>5, <1>6, <1>7, PageStep DEF PageIs

(* The page shows what was read.                                           *)
LEMMA ShowRoomIs ==
    ASSUME Typed, NEW p \in Profiles, ShowRoom(p)
    PROVE  PageIs(p, page[p].open, page[p].read, "none", Unknown, FALSE, page[p].attempted,
             page[p].full, page[p].place, page[p].shown, page[p].kept, page[p].missed)
<1>1. page[p] \in Page
  BY SlotTypes
<1>2. PICK r : r = [page[p] EXCEPT !.fetch = "none", !.room = page[p].read,
                                   !.read = Unknown, !.invalid = FALSE]
  OBVIOUS
<1>3. Fields(r, page[p].open, page[p].read, "none", Unknown, FALSE, page[p].attempted,
             page[p].full, page[p].place, page[p].shown, page[p].kept, page[p].missed)
  BY <1>1, <1>2, ViewTypes DEF Page, Fields
<1>4. page' = [page EXCEPT ![p] = r]
  BY <1>2 DEF ShowRoom
<1>5. r \in Page
  BY <1>3 DEF Fields
<1> QED
  BY <1>3, <1>4, <1>5, PageStep DEF PageIs

(* A page nobody has opened.                                               *)
LEMMA ClosedType ==
    Fields(Closed, FALSE, Unknown, "none", Unknown, FALSE, FALSE, FALSE, 0, {}, FALSE, FALSE)
  BY ViewTypes DEF Closed, Page, Fields

(* Open: a fresh page, or one that starts from the cache.                  *)
LEMMA OpenIs ==
    ASSUME Typed, NEW p \in Profiles, Open(p)
    PROVE  \/ /\ PageIs(p, TRUE, Unknown, "sent", Unknown, FALSE, FALSE, FALSE, 0, {}, FALSE,
                        p \notin connected)
              /\ UNCHANGED up
           \/ /\ page[p].room # Unknown
              /\ \E fetch \in {"none", "sent"} :
                    /\ fetch = "none" => ~page[p].invalid
                    /\ PageIs(p, TRUE, page[p].room, fetch, Unknown, FALSE, FALSE, FALSE, 0, {},
                              TRUE, page[p].missed \/ p \notin connected)
              /\ IF Seat(p) /\ p \in connected THEN Emit(p, "JOIN_ROOM") ELSE UNCHANGED up
<1>0. page[p] \in Page /\ Closed \in Page
  BY SlotTypes, ClosedType DEF Fields
<1>1. CASE /\ page' = [page EXCEPT ![p] =
                [Closed EXCEPT !.open = TRUE, !.fetch = "sent", !.missed = p \notin connected]]
           /\ UNCHANGED up
  <2>1. PICK m : m = (p \notin connected)
    OBVIOUS
  <2>2. m \in BOOLEAN
    BY <2>1
  <2>3. PICK r : r = [Closed EXCEPT !.open = TRUE, !.fetch = "sent", !.missed = m]
    OBVIOUS
  <2>4. Fields(r, TRUE, Unknown, "sent", Unknown, FALSE, FALSE, FALSE, 0, {}, FALSE, m)
    BY <1>0, <2>2, <2>3, ClosedType DEF Page, Fields
  <2>5. page' = [page EXCEPT ![p] = r] /\ r \in Page
    BY <1>1, <2>1, <2>3, <2>4 DEF Fields
  <2> QED
    BY <1>1, <2>1, <2>4, <2>5, PageStep DEF PageIs
<1>2. CASE /\ page[p].room # Unknown
           /\ \E fetch \in {"sent", IF page[p].invalid THEN "sent" ELSE "none"} :
               page' = [page EXCEPT ![p] =
                 [Closed EXCEPT !.open = TRUE, !.room = page[p].room, !.fetch = fetch,
                    !.kept = TRUE, !.missed = page[p].missed \/ p \notin connected]]
           /\ IF Seat(p) /\ p \in connected THEN Emit(p, "JOIN_ROOM") ELSE UNCHANGED up
  <2>1. PICK m : m = (page[p].missed \/ p \notin connected)
    OBVIOUS
  <2>2. m \in BOOLEAN
    BY <2>1
  <2>3. PICK fetch \in {"sent", IF page[p].invalid THEN "sent" ELSE "none"} :
           page' = [page EXCEPT ![p] =
                 [Closed EXCEPT !.open = TRUE, !.room = page[p].room, !.fetch = fetch,
                    !.kept = TRUE, !.missed = m]]
    BY <1>2, <2>1
  <2>4. fetch \in {"none", "sent"} /\ (fetch = "none" => ~page[p].invalid)
    BY <2>3
  <2>5. PICK r : r = [Closed EXCEPT !.open = TRUE, !.room = page[p].room, !.fetch = fetch,
                    !.kept = TRUE, !.missed = m]
    OBVIOUS
  <2>6. Fields(r, TRUE, page[p].room, fetch, Unknown, FALSE, FALSE, FALSE, 0, {}, TRUE, m)
    <3>1. page[p].room \in View
      BY <1>0, PageTypes
    <3> QED
      BY <1>0, <2>2, <2>4, <2>5, <3>1, ClosedType DEF Page, Fields
  <2>7. page' = [page EXCEPT ![p] = r] /\ r \in Page
    BY <2>3, <2>5, <2>6 DEF Fields
  <2> QED
    BY <1>2, <2>1, <2>4, <2>6, <2>7, PageStep DEF PageIs
<1> QED
  BY <1>1, <1>2 DEF Open

(* A page closed over pg: what its query holds stays in the cache.         *)
LEMMA ShutIs ==
    ASSUME Typed, NEW p \in Profiles, NEW pg \in Page, Shut(p, pg)
    PROVE  PageIs(p, FALSE, pg.room, pg.fetch, pg.read, pg.invalid, FALSE, FALSE, 0, {}, FALSE,
                  pg.missed)
<1>1. Closed \in Page
  BY ClosedType DEF Fields
<1>2. PICK r : r = [Closed EXCEPT !.room = pg.room, !.fetch = pg.fetch, !.read = pg.read,
                        !.invalid = pg.invalid, !.missed = pg.missed]
  OBVIOUS
<1>3. Fields(r, FALSE, pg.room, pg.fetch, pg.read, pg.invalid, FALSE, FALSE, 0, {}, FALSE,
             pg.missed)
  <2>1. /\ pg.room \in View /\ pg.fetch \in {"none", "sent", "read"} /\ pg.read \in View
        /\ pg.invalid \in BOOLEAN /\ pg.missed \in BOOLEAN
    BY PageTypes
  <2> QED
    BY <1>1, <1>2, <2>1, ClosedType DEF Page, Fields
<1>4. page' = [page EXCEPT ![p] = r] /\ r \in Page
  BY <1>2, <1>3 DEF Shut, Fields
<1> QED
  BY <1>3, <1>4, PageStep DEF PageIs

(* The auto-join is tried once.                                            *)
LEMMA AutoJoinIs ==
    ASSUME Typed, NEW p \in Profiles, AutoJoin(p)
    PROVE  PageIs(p, page[p].open, page[p].room, page[p].fetch, page[p].read, page[p].invalid,
             TRUE, page[p].full, page[p].place, page[p].shown, page[p].kept, page[p].missed)
<1>1. page[p] \in Page
  BY SlotTypes
<1>2. PICK r : r = [page[p] EXCEPT !.attempted = TRUE]
  OBVIOUS
<1>3. Fields(r, page[p].open, page[p].room, page[p].fetch, page[p].read, page[p].invalid,
             TRUE, page[p].full, page[p].place, page[p].shown, page[p].kept, page[p].missed)
  BY <1>1, <1>2 DEF Page, Fields
<1>4. page' = [page EXCEPT ![p] = r] /\ r \in Page
  BY <1>2, <1>3 DEF AutoJoin, Fields
<1> QED
  BY <1>3, <1>4, PageStep DEF PageIs

(* A lost connection.                                                      *)
LEMMA DropIs ==
    ASSUME Typed, NEW p \in Profiles, Drop(p)
    PROVE  PageIs(p, page[p].open, page[p].room, page[p].fetch, page[p].read, page[p].invalid,
             page[p].attempted, page[p].full, page[p].place, page[p].shown, page[p].kept, TRUE)
<1>1. page[p] \in Page
  BY SlotTypes
<1>2. PICK r : r = [page[p] EXCEPT !.missed = TRUE]
  OBVIOUS
<1>3. Fields(r, page[p].open, page[p].room, page[p].fetch, page[p].read, page[p].invalid,
             page[p].attempted, page[p].full, page[p].place, page[p].shown, page[p].kept, TRUE)
  BY <1>1, <1>2 DEF Page, Fields
<1>4. page' = [page EXCEPT ![p] = r] /\ r \in Page
  BY <1>2, <1>3 DEF Drop, Fields
<1> QED
  BY <1>3, <1>4, PageStep DEF PageIs

(* invalidateQueries starts a new request, unless the page is closed or    *)
(* its first is under way.                                                 *)
Again(r) == r.open /\ ~(r.room = Unknown /\ r.fetch # "none")

(* An invalidated query is read again, now or when it is looked at.        *)
LEMMA InvalidatedIs ==
    ASSUME NEW r \in Page
    PROVE  Fields(Invalidated(r), r.open, r.room, IF Again(r) THEN "sent" ELSE r.fetch,
             IF Again(r) THEN Unknown ELSE r.read, IF r.open THEN r.invalid ELSE TRUE,
             r.attempted, r.full, r.place, r.shown, r.kept, r.missed)
<1>1. CASE ~r.open
  <2>1. Invalidated(r) = [r EXCEPT !.invalid = TRUE]
    BY <1>1 DEF Invalidated
  <2> QED
    BY <1>1, <2>1 DEF Again, Fields, Page
<1>2. CASE r.open /\ ~Again(r)
  <2>1. Invalidated(r) = r
    BY <1>2 DEF Invalidated, Again
  <2> QED
    BY <1>2, <2>1 DEF Fields, Page
<1>3. CASE Again(r)
  <2>1. Invalidated(r) = [r EXCEPT !.fetch = "sent", !.read = Unknown] /\ r.open
    BY <1>3 DEF Invalidated, Again
  <2> QED
    BY <1>3, <2>1, ViewTypes DEF Fields, Page
<1> QED
  BY <1>1, <1>2, <1>3

(* The answer of the auto-join: a seat, the full dialog, or nothing.       *)
LEMMA JoinAnsweredIs ==
    ASSUME Typed, NEW p \in Profiles, JoinAnswered(p)
    PROVE  /\ call[p].answer = "seated" =>
                PageIs(p, page[p].open, page[p].room,
                  IF Again(page[p]) THEN "sent" ELSE page[p].fetch,
                  IF Again(page[p]) THEN Unknown ELSE page[p].read,
                  IF page[p].open THEN page[p].invalid ELSE TRUE, page[p].attempted,
                  page[p].full, page[p].place, page[p].shown, page[p].kept, page[p].missed)
           /\ call[p].answer = "full" /\ page[p].open =>
                PageIs(p, page[p].open, page[p].room, page[p].fetch, page[p].read,
                  page[p].invalid, page[p].attempted, TRUE,
                  IF call[p].rank # 0 THEN call[p].rank ELSE page[p].place, page[p].shown,
                  page[p].kept, page[p].missed)
           /\ call[p].answer # "seated" /\ ~(call[p].answer = "full" /\ page[p].open) =>
                page' = page
<1>1. page[p] \in Page /\ call[p] \in Call /\ page \in [Profiles -> Page]
  BY SlotTypes DEF Typed, TypeOK
<1>2. ASSUME call[p].answer = "seated"
      PROVE  page' = [page EXCEPT ![p] = Invalidated(page[p])]
  BY <1>2 DEF JoinAnswered
<1>3. ASSUME call[p].answer = "full", page[p].open
      PROVE  PageIs(p, page[p].open, page[p].room, page[p].fetch, page[p].read,
                  page[p].invalid, page[p].attempted, TRUE,
                  IF call[p].rank # 0 THEN call[p].rank ELSE page[p].place, page[p].shown,
                  page[p].kept, page[p].missed)
  <2>1. PICK n : n = IF call[p].rank # 0 THEN call[p].rank ELSE page[p].place
    OBVIOUS
  <2>2. n \in Places0
    BY <1>1, <2>1 DEF Call, Page
  <2>3. PICK r : r = [page[p] EXCEPT !.full = TRUE, !.place = n]
    OBVIOUS
  <2>4. Fields(r, page[p].open, page[p].room, page[p].fetch, page[p].read,
                  page[p].invalid, page[p].attempted, TRUE, n, page[p].shown,
                  page[p].kept, page[p].missed)
    BY <1>1, <2>2, <2>3 DEF Page, Fields
  <2>5. page' = [page EXCEPT ![p] = r] /\ r \in Page
    BY <1>3, <2>1, <2>3, <2>4 DEF JoinAnswered, Fields
  <2> QED
    BY <2>1, <2>4, <2>5, PageStep DEF PageIs
<1>4. ASSUME call[p].answer # "seated", ~(call[p].answer = "full" /\ page[p].open)
      PROVE  page' = page
  <2>1. page' = [page EXCEPT ![p] = page[p]]
    BY <1>4 DEF JoinAnswered
  <2> QED
    BY <1>1, <2>1
<1>5. call[p].answer = "seated" =>
        /\ Fields(Invalidated(page[p]), page[p].open, page[p].room,
                  IF Again(page[p]) THEN "sent" ELSE page[p].fetch,
                  IF Again(page[p]) THEN Unknown ELSE page[p].read,
                  IF page[p].open THEN page[p].invalid ELSE TRUE, page[p].attempted,
                  page[p].full, page[p].place, page[p].shown, page[p].kept, page[p].missed)
        /\ Invalidated(page[p]) \in Page
  BY <1>1, InvalidatedIs DEF Fields
<1> QED
  BY <1>2, <1>3, <1>4, <1>5, PageStep DEF PageIs

(* The answer of the queue request: a seat, a place, or nothing.           *)
LEMMA JoinQueueAnsweredIs ==
    ASSUME Typed, NEW p \in Profiles, JoinQueueAnswered(p)
    PROVE  /\ call[p].answer = "seated" =>
                PageIs(p, page[p].open, page[p].room,
                  IF Again(page[p]) THEN "sent" ELSE page[p].fetch,
                  IF Again(page[p]) THEN Unknown ELSE page[p].read,
                  IF page[p].open THEN page[p].invalid ELSE TRUE, page[p].attempted,
                  FALSE, page[p].place, page[p].shown, page[p].kept, page[p].missed)
           /\ call[p].answer = "waiting" /\ page[p].open =>
                PageIs(p, page[p].open, page[p].room, page[p].fetch, page[p].read,
                  page[p].invalid, page[p].attempted, page[p].full,
                  call[p].rank, page[p].shown, page[p].kept, page[p].missed)
           /\ call[p].answer # "seated" /\ ~(call[p].answer = "waiting" /\ page[p].open) =>
                page' = page
<1>1. page[p] \in Page /\ call[p] \in Call /\ page \in [Profiles -> Page]
  BY SlotTypes DEF Typed, TypeOK
<1>2. PICK pg : pg = [page[p] EXCEPT !.full = FALSE]
  OBVIOUS
<1>3. Fields(pg, page[p].open, page[p].room, page[p].fetch, page[p].read,
             page[p].invalid, page[p].attempted, FALSE, page[p].place, page[p].shown,
             page[p].kept, page[p].missed)
  BY <1>1, <1>2 DEF Page, Fields
<1>4. Again(pg) <=> Again(page[p])
  BY <1>3 DEF Again, Fields
<1>5. Fields(Invalidated(pg), page[p].open, page[p].room,
                  IF Again(page[p]) THEN "sent" ELSE page[p].fetch,
                  IF Again(page[p]) THEN Unknown ELSE page[p].read,
                  IF page[p].open THEN page[p].invalid ELSE TRUE, page[p].attempted,
                  FALSE, page[p].place, page[p].shown, page[p].kept, page[p].missed)
  <2>1. pg \in Page
    BY <1>3 DEF Fields
  <2>2. Fields(Invalidated(pg), pg.open, pg.room, IF Again(pg) THEN "sent" ELSE pg.fetch,
             IF Again(pg) THEN Unknown ELSE pg.read, IF pg.open THEN pg.invalid ELSE TRUE,
             pg.attempted, pg.full, pg.place, pg.shown, pg.kept, pg.missed)
    BY <2>1, InvalidatedIs
  <2> QED
    BY <1>3, <1>4, <2>2 DEF Fields
<1>6. ASSUME call[p].answer = "seated"
      PROVE  page' = [page EXCEPT ![p] = Invalidated(pg)] /\ Invalidated(pg) \in Page
  BY <1>2, <1>5, <1>6 DEF JoinQueueAnswered, Fields
<1>7. ASSUME call[p].answer = "waiting", page[p].open
      PROVE  PageIs(p, page[p].open, page[p].room, page[p].fetch, page[p].read,
                  page[p].invalid, page[p].attempted, page[p].full,
                  call[p].rank, page[p].shown, page[p].kept, page[p].missed)
  <2>1. call[p].rank \in Places0
    BY <1>1 DEF Call
  <2>2. PICK r : r = [page[p] EXCEPT !.place = call[p].rank]
    OBVIOUS
  <2>3. Fields(r, page[p].open, page[p].room, page[p].fetch, page[p].read,
                  page[p].invalid, page[p].attempted, page[p].full,
                  call[p].rank, page[p].shown, page[p].kept, page[p].missed)
    BY <1>1, <2>1, <2>2 DEF Page, Fields
  <2>4. page' = [page EXCEPT ![p] = r] /\ r \in Page
    BY <1>7, <2>2, <2>3 DEF JoinQueueAnswered, Fields
  <2> QED
    BY <2>3, <2>4, PageStep DEF PageIs
<1>8. ASSUME call[p].answer # "seated", ~(call[p].answer = "waiting" /\ page[p].open)
      PROVE  page' = page
  <2>1. page' = [page EXCEPT ![p] = page[p]]
    BY <1>8 DEF JoinQueueAnswered
  <2> QED
    BY <1>1, <2>1
<1> QED
  BY <1>5, <1>6, <1>7, <1>8, PageStep DEF PageIs

(* A page that goes keeps the query's data, its request and what may have  *)
(* passed it by.                                                           *)
LEMMA ClosesIs ==
    ASSUME Typed, NEW p \in Profiles, Close(p) \/ LeaveQueueAnswered(p) \/ LeaveAnswered(p)
    PROVE  /\ \E again \in BOOLEAN :
                /\ again => LeaveAnswered(p) /\ Again(page[p])
                /\ PageIs(p, FALSE, page[p].room, IF again THEN "sent" ELSE page[p].fetch,
                     IF again THEN Unknown ELSE page[p].read, page'[p].invalid, FALSE, FALSE, 0,
                     {}, FALSE, page[p].missed)
           /\ down' = [down EXCEPT ![p] = <<>>]
           /\ IF ShowsChat(p) THEN Emit(p, "LEAVE_ROOM") ELSE UNCHANGED up
<1>0. page[p] \in Page
  BY SlotTypes
<1>1. CASE Close(p)
  <2>1. Shut(p, page[p])
    BY <1>1 DEF Close
  <2>2. PageIs(p, FALSE, page[p].room, page[p].fetch, page[p].read, page[p].invalid, FALSE,
               FALSE, 0, {}, FALSE, page[p].missed)
    BY <1>0, <2>1, ShutIs
  <2>3. PageIs(p, FALSE, page[p].room, IF FALSE THEN "sent" ELSE page[p].fetch,
                     IF FALSE THEN Unknown ELSE page[p].read, page'[p].invalid, FALSE, FALSE, 0,
                     {}, FALSE, page[p].missed)
    BY <2>2 DEF PageIs, Fields
  <2> QED
    BY <2>1, <2>3 DEF Shut, ShowsChat, Seat
<1>2. CASE LeaveQueueAnswered(p)
  <2>1. PICK pg : pg = [page[p] EXCEPT !.place = 0]
    OBVIOUS
  <2>2. /\ pg \in Page /\ pg.open = page[p].open /\ pg.room = page[p].room
        /\ pg.fetch = page[p].fetch /\ pg.read = page[p].read /\ pg.missed = page[p].missed
    BY <1>0, <2>1, ViewTypes DEF Page
  <2>3. Shut(p, pg)
    BY <1>2, <2>1 DEF LeaveQueueAnswered
  <2>4. PageIs(p, FALSE, pg.room, pg.fetch, pg.read, pg.invalid, FALSE,
               FALSE, 0, {}, FALSE, pg.missed)
    BY <2>2, <2>3, ShutIs
  <2>5. PageIs(p, FALSE, page[p].room, IF FALSE THEN "sent" ELSE page[p].fetch,
                     IF FALSE THEN Unknown ELSE page[p].read, page'[p].invalid, FALSE, FALSE, 0,
                     {}, FALSE, page[p].missed)
    BY <2>2, <2>4 DEF PageIs, Fields
  <2> QED
    BY <2>2, <2>3, <2>5 DEF Shut, ShowsChat, Seat
<1>3. CASE LeaveAnswered(p)
  <2>1. PICK pg : pg = Invalidated(page[p])
    OBVIOUS
  <2>2. Fields(pg, page[p].open, page[p].room, IF Again(page[p]) THEN "sent" ELSE page[p].fetch,
             IF Again(page[p]) THEN Unknown ELSE page[p].read,
             IF page[p].open THEN page[p].invalid ELSE TRUE,
             page[p].attempted, page[p].full, page[p].place, page[p].shown, page[p].kept,
             page[p].missed)
    BY <1>0, <2>1, InvalidatedIs
  <2>3. pg \in Page
    BY <2>2 DEF Fields
  <2>4. Shut(p, pg)
    BY <1>3, <2>1 DEF LeaveAnswered
  <2>5. PageIs(p, FALSE, pg.room, pg.fetch, pg.read, pg.invalid, FALSE,
               FALSE, 0, {}, FALSE, pg.missed)
    BY <2>3, <2>4, ShutIs
  <2>6. PICK again \in BOOLEAN : again <=> Again(page[p])
    OBVIOUS
  <2>7. PageIs(p, FALSE, page[p].room, IF again THEN "sent" ELSE page[p].fetch,
                     IF again THEN Unknown ELSE page[p].read, page'[p].invalid, FALSE, FALSE, 0,
                     {}, FALSE, page[p].missed)
    BY <2>2, <2>5, <2>6 DEF PageIs, Fields
  <2>8. IF ShowsChat(p) THEN Emit(p, "LEAVE_ROOM") ELSE UNCHANGED up
    BY <2>2, <2>4 DEF Shut, ShowsChat, Seat, Fields
  <2> QED
    BY <1>3, <2>4, <2>6, <2>7, <2>8 DEF Shut
<1> QED
  BY <1>1, <1>2, <1>3

-----------------------------------------------------------------------------
(* What the steps make of a request.                                       *)

(* Request s becomes the one with these fields; the others stay.           *)
CallIs(s, kind, stage, next, rank, answer) ==
    /\ call' \in [Slots -> Call] /\ \A t \in Slots \ {s} : call'[t] = call[t]
    /\ call'[s].kind = kind /\ call'[s].stage = stage /\ call'[s].next = next
    /\ call'[s].rank = rank /\ call'[s].answer = answer

(* A request is sent, with the place the page knows of.                    *)
LEMMA RequestIs ==
    ASSUME Typed, NEW p \in Profiles, NEW kind \in {"join", "enqueue", "cancel", "leave"},
           Request(p, kind)
    PROVE  call[p] = NoCall /\ CallIs(p, kind, "sent", NoProfile, page[p].room.rank, "none")
<1>1. page[p].room.rank \in Places0 /\ p \in Slots
  BY SlotTypes, PageTypes
<1>2. PICK r : r = [NoCall EXCEPT !.kind = kind, !.stage = "sent", !.rank = page[p].room.rank]
  OBVIOUS
<1>3. /\ r \in Call /\ r.kind = kind /\ r.stage = "sent" /\ r.next = NoProfile
      /\ r.rank = page[p].room.rank /\ r.answer = "none"
  BY <1>1, <1>2, NoCallType DEF Call
<1>4. call' = [call EXCEPT ![p] = r] /\ call[p] = NoCall
  BY <1>2 DEF Request
<1> QED
  BY <1>1, <1>3, <1>4, CallStep DEF CallIs

(* A request is answered; the moderator's has nobody to hear it.           *)
LEMMA ReplyIs ==
    ASSUME Typed, NEW s \in Slots, NEW answer \in {"seated", "full", "refused", "done"},
           Reply(s, answer)
    PROVE  /\ s = Staff => CallIs(s, "none", "idle", NoProfile, 0, "none") /\ call'[s] = NoCall
           /\ s # Staff => CallIs(s, call[s].kind, "answer", call[s].next, call[s].rank, answer)
<1>1. call[s] \in Call
  BY DEF Typed, TypeOK, Slots
<1>2. CASE s = Staff
  BY <1>2, NoCallType, CallStep DEF Reply, CallIs
<1>3. CASE s # Staff
  <2>1. PICK r : r = [call[s] EXCEPT !.stage = "answer", !.answer = answer]
    OBVIOUS
  <2>2. /\ r \in Call /\ r.kind = call[s].kind /\ r.stage = "answer" /\ r.next = call[s].next
        /\ r.rank = call[s].rank /\ r.answer = answer
    BY <1>1, <2>1 DEF Call
  <2>3. call' = [call EXCEPT ![s] = r]
    BY <1>3, <2>1 DEF Reply
  <2> QED
    BY <1>3, <2>2, <2>3, CallStep DEF CallIs
<1> QED
  BY <1>2, <1>3

(* A handler goes on to tell the line.                                     *)
LEMMA ToIs ==
    ASSUME Typed, NEW s \in Slots, To(s, "tell")
    PROVE  CallIs(s, call[s].kind, "tell", call[s].next, call[s].rank, call[s].answer)
<1>1. call[s] \in Call
  BY DEF Typed, TypeOK, Slots
<1>2. PICK r : r = [call[s] EXCEPT !.stage = "tell"]
  OBVIOUS
<1>3. /\ r \in Call /\ r.kind = call[s].kind /\ r.stage = "tell" /\ r.next = call[s].next
      /\ r.rank = call[s].rank /\ r.answer = call[s].answer
  BY <1>1, <1>2 DEF Call
<1>4. call' = [call EXCEPT ![s] = r]
  BY <1>2 DEF To
<1> QED
  BY <1>3, <1>4, CallStep DEF CallIs

(* A handler takes the head of the line for admission.                     *)
LEMMA PromoteIs ==
    ASSUME Typed, NEW s \in Slots, queue # <<>>,
           call' = [call EXCEPT ![s].stage = "admit", ![s].next = Head(queue)]
    PROVE  /\ CallIs(s, call[s].kind, "admit", Head(queue), call[s].rank, call[s].answer)
           /\ Head(queue) \in Profiles /\ Contains(queue, Head(queue))
<1>1. call[s] \in Call /\ queue \in Seq(Profiles)
  BY DEF Typed, TypeOK, Slots
<1>2. Head(queue) \in Profiles /\ Contains(queue, Head(queue))
  <2>1. Len(queue) \in Nat \ {0} /\ Head(queue) = queue[1] /\ 1 \in 1 .. Len(queue)
    BY <1>1, EmptySeq
  <2> QED
    BY <1>1, <2>1 DEF Contains
<1>3. PICK r : r = [call[s] EXCEPT !.stage = "admit", !.next = Head(queue)]
  OBVIOUS
<1>4. /\ r \in Call /\ r.kind = call[s].kind /\ r.stage = "admit" /\ r.next = Head(queue)
      /\ r.rank = call[s].rank /\ r.answer = call[s].answer
  BY <1>1, <1>2, <1>3 DEF Call
<1>5. call' = [call EXCEPT ![s] = r]
  BY <1>3
<1> QED
  BY <1>2, <1>4, <1>5, CallStep DEF CallIs

(* The page has dealt with the answer.                                     *)
LEMMA DoneIs ==
    ASSUME Typed, NEW p \in Profiles, Done(p)
    PROVE  CallIs(p, "none", "idle", NoProfile, 0, "none") /\ call'[p] = NoCall
<1>1. p \in Slots
  BY SlotTypes
<1> QED
  BY <1>1, NoCallType, CallStep DEF Done, CallIs

(* enqueueWaiting adds who does not wait yet, and answers the place.       *)
LEMMA EnqueueIs ==
    ASSUME Typed, NEW p \in Profiles,
           queue' = IF Contains(queue, p) THEN queue ELSE Append(queue, p),
           call' = [call EXCEPT ![p].stage = "answer", ![p].answer = "waiting",
                                ![p].rank = RankIn(queue', p)]
    PROVE  /\ CallIs(p, call[p].kind, "answer", call[p].next, RankIn(queue', p), "waiting")
           /\ queue' \in Seq(Profiles) /\ IsInjective(queue') /\ Contains(queue', p)
           /\ \A q \in Profiles \ {p} : Contains(queue', q) <=> Contains(queue, q)
           /\ \A q \in Profiles : Contains(queue, q) => RankIn(queue', q) = RankIn(queue, q)
<1>1. call[p] \in Call /\ p \in Slots /\ queue \in Seq(Profiles) /\ IsInjective(queue)
  BY SlotTypes DEF Typed, TypeOK
<1>2. PICK line : line = queue'
  OBVIOUS
<1>3. /\ line \in Seq(Profiles) /\ IsInjective(line) /\ Contains(line, p)
      /\ \A q \in Profiles \ {p} : Contains(line, q) <=> Contains(queue, q)
      /\ \A q \in Profiles : Contains(queue, q) => RankIn(line, q) = RankIn(queue, q)
  <2>1. CASE Contains(queue, p)
    BY <1>1, <1>2, <2>1
  <2>2. CASE ~Contains(queue, p)
    <3>1. line = Append(queue, p) /\ line \in Seq(Profiles)
      BY <1>1, <1>2, <2>2
    <3> QED
      BY <1>1, <2>2, <3>1, AppendOnce
  <2> QED
    BY <2>1, <2>2
<1>4. PICK n : n = RankIn(line, p)
  OBVIOUS
<1>5. n \in Places0
  BY <1>3, <1>4, RankType
<1>6. PICK r : r = [call[p] EXCEPT !.stage = "answer", !.answer = "waiting", !.rank = n]
  OBVIOUS
<1>7. /\ r \in Call /\ r.kind = call[p].kind /\ r.stage = "answer" /\ r.next = call[p].next
      /\ r.rank = n /\ r.answer = "waiting"
  BY <1>1, <1>5, <1>6 DEF Call
<1>8. call' = [call EXCEPT ![p] = r]
  BY <1>2, <1>4, <1>6
<1>9. CallIs(p, call[p].kind, "answer", call[p].next, n, "waiting")
  BY <1>1, <1>7, <1>8, CallStep DEF CallIs
<1>10. RankIn(queue', p) = n
  BY <1>2, <1>4
<1> QED
  BY <1>2, <1>3, <1>9, <1>10

-----------------------------------------------------------------------------
(* Events on their way.                                                    *)

(* The four events.                                                        *)
LEMMA EventTypes ==
    /\ \A e \in Event : e.type \in {"member", "admitted", "waiting", "presence"}
    /\ \A e \in Event : e.type = "waiting" => e.position \in Places1
    /\ \A e \in Event : e.type = "presence" => e.profiles \in SUBSET Profiles
    /\ [type |-> "member"] \in Event /\ [type |-> "admitted"] \in Event
    /\ \A n \in Places1 : [type |-> "waiting", position |-> n] \in Event
    /\ \A d \in SUBSET Profiles : [type |-> "presence", profiles |-> d] \in Event
  BY DEF Event

(* An event of that type is on its way in s.                               *)
HasIn(s, type) == \E i \in 1 .. Len(s) : s[i].type = type

(* No place on its way is smaller than n.                                  *)
AtLeast(s, n) == \A i \in 1 .. Len(s) : s[i].type = "waiting" => n <= s[i].position

(* A page that shows d and hears s shows who is online.                    *)
Ends(s, d, who) ==
    /\ \A k \in 1 .. Len(s) :
          s[k].type = "presence" /\ (\A j \in k + 1 .. Len(s) : s[j].type # "presence")
            => s[k].profiles = who
    /\ ~HasIn(s, "presence") => d = who

(* Nothing on its way.                                                     *)
LEMMA NoEvents ==
    ASSUME NEW n, NEW d
    PROVE /\ \A type : ~HasIn(<<>>, type)
          /\ AtLeast(<<>>, n) /\ Ends(<<>>, d, d)
<1>1. Len(<<>>) = 0 /\ 1 .. 0 = {}
  OBVIOUS
<1> QED
  BY <1>1 DEF HasIn, AtLeast, Ends

(* What one more event changes.                                            *)
LEMMA OneMore ==
    ASSUME NEW s \in Seq(Event), NEW e \in Event
    PROVE  /\ s \o <<e>> \in Seq(Event)
           /\ \A type : HasIn(s \o <<e>>, type) <=> HasIn(s, type) \/ e.type = type
           /\ \A n : AtLeast(s \o <<e>>, n) <=>
                        AtLeast(s, n) /\ (e.type = "waiting" => n <= e.position)
           /\ \A d, who : IF e.type = "presence" THEN Ends(s \o <<e>>, d, who) <=> e.profiles = who
                          ELSE Ends(s \o <<e>>, d, who) <=> Ends(s, d, who)
<1>1. PICK t : t = s \o <<e>>
  OBVIOUS
<1>2. /\ t \in Seq(Event) /\ Len(s) \in Nat /\ Len(t) = Len(s) + 1
      /\ \A i \in 1 .. Len(s) : t[i] = s[i]
      /\ t[Len(s) + 1] = e
  <2>1. t = Append(s, e)
    BY <1>1, AppendIsConcat
  <2> QED
    BY <2>1, AppendProperties, LenProperties
<1>3. /\ \A i \in 1 .. Len(t) : i \in 1 .. Len(s) \/ i = Len(s) + 1
      /\ \A i \in 1 .. Len(s) : i \in 1 .. Len(t)
      /\ Len(s) + 1 \in 1 .. Len(t)
  BY <1>2
<1>4. ASSUME NEW type PROVE HasIn(t, type) <=> HasIn(s, type) \/ e.type = type
  BY <1>2, <1>3 DEF HasIn
<1>5. ASSUME NEW n
      PROVE  AtLeast(t, n) <=> AtLeast(s, n) /\ (e.type = "waiting" => n <= e.position)
  BY <1>2, <1>3 DEF AtLeast
<1>6. ASSUME NEW d, NEW who, e.type = "presence" PROVE Ends(t, d, who) <=> e.profiles = who
  <2>1. HasIn(t, "presence")
    BY <1>4, <1>6
  <2>2. ASSUME NEW k \in 1 .. Len(t), \A j \in k + 1 .. Len(t) : t[j].type # "presence"
        PROVE  k = Len(s) + 1
    <3>1. ASSUME k \in 1 .. Len(s) PROVE FALSE
      <4>1. Len(s) + 1 \in k + 1 .. Len(t)
        BY <1>2, <3>1
      <4> QED
        BY <1>2, <1>6, <2>2, <4>1
    <3> QED
      BY <1>3, <3>1
  <2>3. \A j \in Len(s) + 1 + 1 .. Len(t) : t[j].type # "presence"
    BY <1>2
  <2> QED
    BY <1>2, <1>3, <1>6, <2>1, <2>2, <2>3 DEF Ends
<1>7. ASSUME NEW d, NEW who, e.type # "presence" PROVE Ends(t, d, who) <=> Ends(s, d, who)
  <2>1. HasIn(t, "presence") <=> HasIn(s, "presence")
    BY <1>4, <1>7
  <2>2. ASSUME NEW k \in 1 .. Len(s)
        PROVE  /\ t[k] = s[k]
               /\ (\A j \in k + 1 .. Len(t) : t[j].type # "presence")
                    <=> (\A j \in k + 1 .. Len(s) : s[j].type # "presence")
    <3>1. /\ \A j \in k + 1 .. Len(t) : j \in k + 1 .. Len(s) \/ j = Len(s) + 1
          /\ \A j \in k + 1 .. Len(s) : j \in k + 1 .. Len(t) /\ j \in 1 .. Len(s)
      BY <1>2
    <3> QED
      BY <1>2, <1>7, <3>1
  <2>3. t[Len(s) + 1].type # "presence"
    BY <1>2, <1>7
  <2> QED
    BY <1>3, <2>1, <2>2, <2>3 DEF Ends
<1> QED
  BY <1>1, <1>2, <1>4, <1>5, <1>6, <1>7

(* What is left when the first event has been heard.                       *)
LEMMA OneLess ==
    ASSUME NEW s \in Seq(Event), s # <<>>
    PROVE  /\ Head(s) \in Event /\ Tail(s) \in Seq(Event)
           /\ \A type : HasIn(s, type) <=> Head(s).type = type \/ HasIn(Tail(s), type)
           /\ \A n : AtLeast(s, n) => AtLeast(Tail(s), n)
                                      /\ (Head(s).type = "waiting" => n <= Head(s).position)
           /\ \A d, who : Ends(s, d, who) =>
                IF Head(s).type = "presence" THEN Ends(Tail(s), Head(s).profiles, who)
                ELSE Ends(Tail(s), d, who)
<1>1. PICK t : t = Tail(s)
  OBVIOUS
<1>2. /\ Len(s) \in Nat \ {0} /\ Head(s) \in Event /\ Head(s) = s[1]
      /\ t \in Seq(Event) /\ Len(t) = Len(s) - 1
      /\ \A i \in 1 .. Len(t) : t[i] = s[i + 1]
  BY <1>1, EmptySeq, HeadTailProperties
<1>3. /\ \A i \in 1 .. Len(s) : i = 1 \/ (i - 1 \in 1 .. Len(t) /\ i - 1 + 1 = i)
      /\ \A i \in 1 .. Len(t) : i + 1 \in 1 .. Len(s)
      /\ 1 \in 1 .. Len(s)
  BY <1>2
<1>4. ASSUME NEW type PROVE HasIn(s, type) <=> Head(s).type = type \/ HasIn(t, type)
  <2>1. ASSUME HasIn(s, type) PROVE Head(s).type = type \/ HasIn(t, type)
    <3>1. PICK i \in 1 .. Len(s) : s[i].type = type
      BY <2>1 DEF HasIn
    <3>2. CASE i = 1
      BY <1>2, <3>1, <3>2
    <3>3. CASE i - 1 \in 1 .. Len(t) /\ i - 1 + 1 = i
      <4>1. t[i - 1] = s[i]
        BY <1>2, <3>3
      <4> QED
        BY <3>1, <3>3, <4>1 DEF HasIn
    <3> QED
      BY <1>3, <3>2, <3>3
  <2>2. ASSUME Head(s).type = type PROVE HasIn(s, type)
    BY <1>2, <1>3, <2>2 DEF HasIn
  <2>3. ASSUME HasIn(t, type) PROVE HasIn(s, type)
    BY <1>2, <1>3, <2>3 DEF HasIn
  <2> QED
    BY <2>1, <2>2, <2>3
<1>5. ASSUME NEW n, AtLeast(s, n)
      PROVE  AtLeast(t, n) /\ (Head(s).type = "waiting" => n <= Head(s).position)
  BY <1>2, <1>3, <1>5 DEF AtLeast
<1>6. ASSUME NEW d, NEW who, Ends(s, d, who)
      PROVE  IF Head(s).type = "presence" THEN Ends(t, Head(s).profiles, who)
             ELSE Ends(t, d, who)
  <2>1. ASSUME NEW k \in 1 .. Len(t), t[k].type = "presence",
               \A j \in k + 1 .. Len(t) : t[j].type # "presence"
        PROVE  t[k].profiles = who
    <3>1. k + 1 \in 1 .. Len(s) /\ s[k + 1] = t[k]
      BY <1>2, <1>3
    <3>2. ASSUME NEW j \in k + 1 + 1 .. Len(s) PROVE s[j].type # "presence"
      <4>1. j - 1 \in k + 1 .. Len(t) /\ j - 1 \in 1 .. Len(t) /\ j - 1 + 1 = j
        BY <1>2
      <4>2. t[j - 1] = s[j]
        BY <1>2, <4>1
      <4> QED
        BY <2>1, <4>1, <4>2
    <3> QED
      BY <1>6, <2>1, <3>1, <3>2 DEF Ends
  <2>2. ASSUME ~HasIn(t, "presence")
        PROVE  IF Head(s).type = "presence" THEN Head(s).profiles = who ELSE d = who
    <3>1. ASSUME Head(s).type = "presence" PROVE Head(s).profiles = who
      <4>1. ASSUME NEW j \in 1 + 1 .. Len(s) PROVE s[j].type # "presence"
        <5>1. j - 1 \in 1 .. Len(t) /\ j - 1 + 1 = j
          BY <1>2
        <5>2. t[j - 1] = s[j]
          BY <1>2, <5>1
        <5> QED
          BY <2>2, <5>1, <5>2 DEF HasIn
      <4>2. s[1].type = "presence" /\ 1 \in 1 .. Len(s)
        BY <1>2, <1>3, <3>1
      <4>3. s[1].profiles = who
        BY <1>6, <4>1, <4>2 DEF Ends
      <4> QED
        BY <1>2, <4>3
    <3>2. ASSUME Head(s).type # "presence" PROVE d = who
      <4>1. ~HasIn(s, "presence")
        BY <1>4, <2>2, <3>2
      <4> QED
        BY <1>6, <4>1 DEF Ends
    <3> QED
      BY <3>1, <3>2
  <2> QED
    BY <2>1, <2>2 DEF Ends
<1> QED
  BY <1>1, <1>2, <1>4, <1>5, <1>6

(* An event goes to who listens.                                           *)
LEMMA AddIs ==
    ASSUME NEW p, NEW told, NEW e
    PROVE  Add(p, told, e) = IF told /\ p \in Listening THEN <<e>> ELSE <<>>
  BY DEF Add

(* An event to all in a group.                                             *)
LEMMA OneToAll ==
    ASSUME Typed, NEW e \in Event, NEW group \in SUBSET Profiles,
           down' = [p \in Profiles |-> down[p] \o Add(p, p \in group, e)]
    PROVE  /\ down' \in [Profiles -> Seq(Event)]
           /\ \A p \in Profiles : down'[p] = IF p \in group /\ p \in Listening
                                             THEN down[p] \o <<e>> ELSE down[p]
<1>1. \A p \in Profiles : down'[p] = IF p \in group /\ p \in Listening
                                     THEN down[p] \o <<e>> ELSE down[p]
  <2> TAKE p \in Profiles
  <2>1. down'[p] = down[p] \o Add(p, p \in group, e) /\ down[p] \in Seq(Event)
    BY SlotTypes
  <2>2. CASE p \in group /\ p \in Listening
    BY <2>1, <2>2, AddIs
  <2>3. CASE ~(p \in group /\ p \in Listening)
    <3>1. down'[p] = down[p] \o <<>>
      BY <2>1, <2>3, AddIs
    <3> QED
      BY <2>1, <2>3, <3>1, ConcatEmptySeq
  <2> QED
    BY <2>2, <2>3
<1>2. \A p \in Profiles : down'[p] \in Seq(Event)
  BY <1>1, SlotTypes, OneMore
<1>3. down' \in [Profiles -> Seq(Event)]
  <2>1. DOMAIN down' = Profiles /\ down' = [p \in Profiles |-> down'[p]]
    OBVIOUS
  <2> QED
    BY <1>2, <2>1
<1> QED
  BY <1>1, <1>3

(* An event to the room's channel.                                         *)
LEMMA ToRoomIs ==
    ASSUME Typed, NEW e \in Event, down' = ToRoom(e)
    PROVE  /\ down' \in [Profiles -> Seq(Event)]
           /\ \A p \in Profiles : down'[p] = IF p \in inRoom /\ p \in Listening
                                             THEN down[p] \o <<e>> ELSE down[p]
<1>1. inRoom \in SUBSET Profiles
  BY DEF Typed, TypeOK
<1> QED
  BY <1>1, OneToAll DEF ToRoom

(* The online list goes to the room's channel.                             *)
LEMMA EmitPresenceIs ==
    ASSUME Typed, EmitPresence, inRoom' \in SUBSET Profiles, online' \in SUBSET Profiles
    PROVE  /\ down' \in [Profiles -> Seq(Event)]
           /\ \E e \in Event :
                /\ e.type = "presence" /\ e.profiles = online'
                /\ \A p \in Profiles : down'[p] = IF p \in inRoom' /\ p \in Listening
                                                  THEN down[p] \o <<e>> ELSE down[p]
<1>1. PICK group, who : group = inRoom' /\ who = online'
  OBVIOUS
<1>2. PICK e : e = [type |-> "presence", profiles |-> who]
  OBVIOUS
<1>3. e \in Event /\ e.type = "presence" /\ e.profiles = who
  BY <1>1, <1>2, EventTypes
<1>4. down' = [p \in Profiles |-> down[p] \o Add(p, p \in group, e)]
  BY <1>1, <1>2 DEF EmitPresence
<1>5. group \in SUBSET Profiles
  BY <1>1
<1>6. /\ down' \in [Profiles -> Seq(Event)]
      /\ \A p \in Profiles : down'[p] = IF p \in group /\ p \in Listening
                                        THEN down[p] \o <<e>> ELSE down[p]
  BY <1>3, <1>4, <1>5, OneToAll
<1> QED
  BY <1>1, <1>3, <1>6

(* Who hears something more is listening; places told are the real ones.   *)
LEMMA TellIs ==
    ASSUME Typed, NEW s \in Slots, Tell(s)
    PROVE  /\ down' \in [Profiles -> Seq(Event)]
           /\ \A p \in Profiles :
                /\ p \notin Listening => down'[p] = down[p]
                /\ \A type : HasIn(down[p], type) => HasIn(down'[p], type)
                /\ p \in Listening /\ p = call[s].next => HasIn(down'[p], "admitted")
                /\ HasIn(down'[p], "waiting") => HasIn(down[p], "waiting") \/ Contains(queue, p)
                /\ AtLeast(down[p], RankIn(queue, p)) => AtLeast(down'[p], RankIn(queue, p))
                /\ \A d, who : Ends(down[p], d, who) => Ends(down'[p], d, who)
<1> DEFINE X(t, p) ==
             /\ t \in Seq(Event)
             /\ p \notin Listening => t = down[p]
             /\ \A type : HasIn(down[p], type) => HasIn(t, type)
             /\ HasIn(t, "waiting") => HasIn(down[p], "waiting") \/ Contains(queue, p)
             /\ AtLeast(down[p], RankIn(queue, p)) => AtLeast(t, RankIn(queue, p))
             /\ \A d, who : Ends(down[p], d, who) => Ends(t, d, who)
<1>0. queue \in Seq(Profiles) /\ IsInjective(queue)
  BY DEF Typed, TypeOK
<1>1. ASSUME NEW p \in Profiles
      PROVE  X(down'[p], p) /\ (p \in Listening /\ p = call[s].next => HasIn(down'[p], "admitted"))
  <2>1. down[p] \in Seq(Event) /\ X(down[p], p)
    BY SlotTypes
  <2>2. ASSUME NEW t \in Seq(Event), X(t, p), NEW told, NEW e \in Event,
               e.type # "presence",
               e.type # "waiting" \/ (e.position = RankIn(queue, p) /\ Contains(queue, p))
        PROVE  /\ X(t \o Add(p, told, e), p)
               /\ \A type : HasIn(t, type) => HasIn(t \o Add(p, told, e), type)
               /\ told /\ p \in Listening => HasIn(t \o Add(p, told, e), e.type)
    <3>1. CASE told /\ p \in Listening
      <4>1. PICK u : u = t \o <<e>>
        OBVIOUS
      <4>2. Add(p, told, e) = <<e>>
        BY <3>1, AddIs
      <4>3. RankIn(queue, p) \in Nat
        <5>1. Cardinality(Profiles) \in Nat
          BY FS_CardinalityType, SeatsAssumption
        <5> QED
          BY <1>0, <5>1, RankType DEF Places0, Places1
      <4>4. /\ u \in Seq(Event)
            /\ \A type : HasIn(u, type) <=> HasIn(t, type) \/ e.type = type
            /\ \A n : AtLeast(u, n) <=> AtLeast(t, n) /\ (e.type = "waiting" => n <= e.position)
            /\ \A d, who : e.type # "presence" => (Ends(u, d, who) <=> Ends(t, d, who))
        BY <4>1, OneMore
      <4>5. e.type # "presence" /\ (e.type = "waiting" => RankIn(queue, p) <= e.position)
        BY <2>2, <4>3
      <4>6. \A d, who : Ends(down[p], d, who) => Ends(u, d, who)
        BY <2>2, <4>4, <4>5
      <4>7. X(u, p)
        BY <2>2, <3>1, <4>4, <4>5, <4>6
      <4> QED
        BY <3>1, <4>1, <4>2, <4>4, <4>7
    <3>2. CASE ~(told /\ p \in Listening)
      <4>1. t \o Add(p, told, e) = t
        BY <3>2, AddIs, ConcatEmptySeq
      <4> QED
        BY <2>2, <3>2, <4>1
    <3> QED
      BY <3>1, <3>2
  <2> HIDE DEF X
  <2>3. PICK a, b, c : /\ a = [type |-> "admitted"] /\ b = [type |-> "member"]
                       /\ c = [type |-> "waiting", position |-> RankIn(queue, p)]
    OBVIOUS
  <2>4. /\ a \in Event /\ b \in Event /\ a.type = "admitted" /\ b.type = "member"
        /\ a.type # "presence" /\ a.type # "waiting" /\ b.type # "presence" /\ b.type # "waiting"
        /\ c.type = "waiting" /\ c.type # "presence" /\ c.position = RankIn(queue, p)
        /\ Contains(queue, p) => c \in Event
    BY <1>0, <2>3, EventTypes, RankType
  <2> DEFINE A == Add(p, p = call[s].next, a)
             B == Add(p, p \in inRoom /\ call[s].kind # "cancel", b)
             C == Add(p, Contains(queue, p), c)
  <2>5. down'[p] = down[p] \o A \o B \o C
    BY <2>3 DEF Tell
  <2>10. ASSUME NEW t, X(t, p) PROVE t \in Seq(Event)
    BY <2>10 DEF X
  <2>6. /\ X(down[p] \o A, p)
        /\ p \in Listening /\ p = call[s].next => HasIn(down[p] \o A, "admitted")
    <3>1. /\ X(down[p] \o Add(p, p = call[s].next, a), p)
          /\ p = call[s].next /\ p \in Listening =>
               HasIn(down[p] \o Add(p, p = call[s].next, a), a.type)
      BY <2>1, <2>2, <2>4, Zenon
    <3> QED
      BY <2>4, <3>1
  <2> HIDE DEF A
  <2>7. /\ X(down[p] \o A \o B, p)
        /\ p \in Listening /\ p = call[s].next => HasIn(down[p] \o A \o B, "admitted")
    <3>1. down[p] \o A \in Seq(Event)
      BY <2>6, <2>10
    <3> QED
      BY <2>2, <2>4, <2>6, <3>1, Zenon
  <2> HIDE DEF B
  <2>8. CASE Contains(queue, p)
    <3>1. down[p] \o A \o B \in Seq(Event)
      BY <2>7, <2>10
    <3>2. c \in Event
      BY <2>4, <2>8
    <3>3. /\ X(down[p] \o A \o B \o C, p)
          /\ HasIn(down[p] \o A \o B, "admitted") => HasIn(down[p] \o A \o B \o C, "admitted")
      BY <2>2, <2>4, <2>7, <2>8, <3>1, <3>2, Zenon
    <3> QED
      BY <2>5, <2>7, <3>3
  <2>9. CASE ~Contains(queue, p)
    <3>1. down'[p] = down[p] \o A \o B
      BY <2>5, <2>7, <2>9, <2>10, AddIs, ConcatEmptySeq
    <3> QED
      BY <2>7, <3>1
  <2> QED
    BY <2>8, <2>9
<1>2. down' \in [Profiles -> Seq(Event)]
  <2>1. down' = [p \in Profiles |-> down'[p]]
    BY DEF Tell
  <2> QED
    BY <1>1, <2>1 DEF X
<1> QED
  BY <1>1, <1>2 DEF X

(* What a page makes of the event e, with rest after it.                   *)
HeardIs(p, e, rest) ==
    /\ e = Head(down[p]) /\ rest = Tail(down[p]) /\ down[p] # <<>>
    /\ down' \in [Profiles -> Seq(Event)] /\ down'[p] = rest
    /\ \A q \in Profiles \ {p} : down'[q] = down[q]
    /\ e.type \in {"member", "presence"} /\ ~ShowsChat(p) => page' = page
    /\ e.type = "member" /\ ShowsChat(p) =>
         PageIs(p, page[p].open, page[p].room,
           IF Again(page[p]) THEN "sent" ELSE page[p].fetch,
           IF Again(page[p]) THEN Unknown ELSE page[p].read,
           IF page[p].open THEN page[p].invalid ELSE TRUE, page[p].attempted,
           page[p].full, page[p].place, page[p].shown, page[p].kept, page[p].missed)
    /\ e.type = "presence" /\ ShowsChat(p) =>
         PageIs(p, page[p].open, page[p].room, page[p].fetch, page[p].read,
           page[p].invalid, page[p].attempted, page[p].full, page[p].place, e.profiles,
           page[p].kept, page[p].missed)
    /\ e.type = "waiting" =>
         PageIs(p, page[p].open, page[p].room, page[p].fetch, page[p].read,
           page[p].invalid, page[p].attempted, page[p].full, e.position, page[p].shown,
           page[p].kept, page[p].missed)
    /\ e.type = "admitted" =>
         PageIs(p, page[p].open, page[p].room,
           IF Again(page[p]) THEN "sent" ELSE page[p].fetch,
           IF Again(page[p]) THEN Unknown ELSE page[p].read,
           IF page[p].open THEN page[p].invalid ELSE TRUE, page[p].attempted,
           FALSE, 0, page[p].shown, page[p].kept, page[p].missed)

(* A page hears the first event on its way.                                *)
LEMMA HearIs ==
    ASSUME Typed, NEW p \in Profiles, Hear(p)
    PROVE  \E e \in Event, rest \in Seq(Event) : HeardIs(p, e, rest)
<1>0. page[p] \in Page /\ down[p] \in Seq(Event) /\ down[p] # <<>> /\ page \in [Profiles -> Page]
  BY SlotTypes DEF Hear, Typed, TypeOK
<1>1. PICK e, rest : e = Head(down[p]) /\ rest = Tail(down[p])
  OBVIOUS
<1>2. e \in Event /\ rest \in Seq(Event)
  BY <1>0, <1>1, OneLess
<1>3. /\ down' \in [Profiles -> Seq(Event)] /\ down'[p] = rest
      /\ \A q \in Profiles \ {p} : down'[q] = down[q]
  BY <1>1, <1>2 DEF Hear, Typed, TypeOK
<1>4. page' = [page EXCEPT ![p] = Heard(p, e)]
  BY <1>1 DEF Hear
<1>5. e.type \in {"member", "admitted", "waiting", "presence"}
  BY <1>2, EventTypes
<1>6. ASSUME e.type \in {"member", "presence"}, ~ShowsChat(p) PROVE page' = page
  <2>1. Heard(p, e) = page[p]
    BY <1>6 DEF Heard
  <2> QED
    BY <1>0, <1>4, <2>1
<1>7. ASSUME e.type = "member", ShowsChat(p)
      PROVE  PageIs(p, page[p].open, page[p].room,
                    IF Again(page[p]) THEN "sent" ELSE page[p].fetch,
                    IF Again(page[p]) THEN Unknown ELSE page[p].read,
                    IF page[p].open THEN page[p].invalid ELSE TRUE, page[p].attempted,
                    page[p].full, page[p].place, page[p].shown, page[p].kept, page[p].missed)
  <2>1. PICK r : r = Invalidated(page[p])
    OBVIOUS
  <2>2. Fields(r, page[p].open, page[p].room,
                    IF Again(page[p]) THEN "sent" ELSE page[p].fetch,
                    IF Again(page[p]) THEN Unknown ELSE page[p].read,
                    IF page[p].open THEN page[p].invalid ELSE TRUE, page[p].attempted,
                    page[p].full, page[p].place, page[p].shown, page[p].kept, page[p].missed)
    BY <1>0, <2>1, InvalidatedIs
  <2>3. page' = [page EXCEPT ![p] = r] /\ r \in Page
    BY <1>4, <1>7, <2>1, <2>2 DEF Heard, Fields
  <2> QED
    BY <2>2, <2>3, PageStep DEF PageIs
<1>8. ASSUME e.type = "presence", ShowsChat(p)
      PROVE  PageIs(p, page[p].open, page[p].room, page[p].fetch, page[p].read,
                    page[p].invalid, page[p].attempted, page[p].full, page[p].place, e.profiles,
                    page[p].kept, page[p].missed)
  <2>1. PICK r : r = [page[p] EXCEPT !.shown = e.profiles]
    OBVIOUS
  <2>2. e.profiles \in SUBSET Profiles
    BY <1>2, <1>8, EventTypes
  <2>3. Fields(r, page[p].open, page[p].room, page[p].fetch, page[p].read,
                    page[p].invalid, page[p].attempted, page[p].full, page[p].place, e.profiles,
                    page[p].kept, page[p].missed)
    BY <1>0, <2>1, <2>2 DEF Page, Fields
  <2>4. page' = [page EXCEPT ![p] = r] /\ r \in Page
    BY <1>4, <1>8, <2>1, <2>3 DEF Heard, Fields
  <2> QED
    BY <2>3, <2>4, PageStep DEF PageIs
<1>9. ASSUME e.type = "waiting"
      PROVE  PageIs(p, page[p].open, page[p].room, page[p].fetch, page[p].read,
                    page[p].invalid, page[p].attempted, page[p].full, e.position, page[p].shown,
                    page[p].kept, page[p].missed)
  <2>1. PICK r : r = [page[p] EXCEPT !.place = e.position]
    OBVIOUS
  <2>2. e.position \in Places0
    BY <1>2, <1>9, EventTypes DEF Places0
  <2>3. Fields(r, page[p].open, page[p].room, page[p].fetch, page[p].read,
                    page[p].invalid, page[p].attempted, page[p].full, e.position, page[p].shown,
                    page[p].kept, page[p].missed)
    BY <1>0, <2>1, <2>2 DEF Page, Fields
  <2>4. page' = [page EXCEPT ![p] = r] /\ r \in Page
    BY <1>4, <1>9, <2>1, <2>3 DEF Heard, Fields
  <2> QED
    BY <2>3, <2>4, PageStep DEF PageIs
<1>10. ASSUME e.type = "admitted"
       PROVE  PageIs(p, page[p].open, page[p].room,
                    IF Again(page[p]) THEN "sent" ELSE page[p].fetch,
                    IF Again(page[p]) THEN Unknown ELSE page[p].read,
                    IF page[p].open THEN page[p].invalid ELSE TRUE, page[p].attempted,
                    FALSE, 0, page[p].shown, page[p].kept, page[p].missed)
  <2>1. PICK pg : pg = [page[p] EXCEPT !.full = FALSE, !.place = 0]
    OBVIOUS
  <2>2. Fields(pg, page[p].open, page[p].room, page[p].fetch, page[p].read,
             page[p].invalid, page[p].attempted, FALSE, 0, page[p].shown,
             page[p].kept, page[p].missed)
    BY <1>0, <2>1, ViewTypes DEF Page, Fields
  <2>3. pg \in Page /\ (Again(pg) <=> Again(page[p]))
    BY <2>2 DEF Again, Fields
  <2>4. PICK r : r = Invalidated(pg)
    OBVIOUS
  <2>5. Fields(r, pg.open, pg.room, IF Again(pg) THEN "sent" ELSE pg.fetch,
             IF Again(pg) THEN Unknown ELSE pg.read, IF pg.open THEN pg.invalid ELSE TRUE,
             pg.attempted, pg.full, pg.place, pg.shown, pg.kept, pg.missed)
    BY <2>3, <2>4, InvalidatedIs
  <2>6. Fields(r, page[p].open, page[p].room,
                    IF Again(page[p]) THEN "sent" ELSE page[p].fetch,
                    IF Again(page[p]) THEN Unknown ELSE page[p].read,
                    IF page[p].open THEN page[p].invalid ELSE TRUE, page[p].attempted,
                    FALSE, 0, page[p].shown, page[p].kept, page[p].missed)
    BY <2>2, <2>3, <2>5 DEF Fields
  <2>7. page' = [page EXCEPT ![p] = r] /\ r \in Page
    BY <1>4, <1>10, <2>1, <2>4, <2>6 DEF Heard, Fields
  <2> QED
    BY <2>6, <2>7, PageStep DEF PageIs
<1> QED
  BY <1>0, <1>1, <1>2, <1>3, <1>6, <1>7, <1>8, <1>9, <1>10 DEF HeardIs

(* A page sends a signal by its socket.                                    *)
LEMMA EmitIs ==
    ASSUME Typed, NEW p \in Profiles, NEW what \in {"JOIN_ROOM", "LEAVE_ROOM"}, Emit(p, what)
    PROVE  /\ up' \in [Profiles -> Seq({"JOIN_ROOM", "LEAVE_ROOM"})]
           /\ up'[p] = Append(up[p], what)
           /\ \A q \in Profiles \ {p} : up'[q] = up[q]
<1>1. up \in [Profiles -> Seq({"JOIN_ROOM", "LEAVE_ROOM"})]
  BY DEF Typed, TypeOK
<1>2. Append(up[p], what) \in Seq({"JOIN_ROOM", "LEAVE_ROOM"})
  BY <1>1, AppendProperties
<1> QED
  BY <1>1, <1>2 DEF Emit

(* What is counted for the bounds.                                         *)
LEMMA SpentIs ==
    ASSUME Typed, Move \/ Trouble \/ Visit
    PROVE  spent' \in [{"moves", "troubles", "visits"} -> Nat]
<1>1. PICK n \in {"moves", "troubles", "visits"}, m \in {"moves", "troubles", "visits"} :
        \/ spent' = [spent EXCEPT ![n] = @ + 1]
        \/ spent' = [spent EXCEPT ![n] = @ + 1, ![m] = @ + 1]
  BY DEF Move, Trouble, Visit
<1>2. spent \in [{"moves", "troubles", "visits"} -> Nat]
  BY DEF Typed, TypeOK
<1>3. spent[n] + 1 \in Nat /\ spent[m] + 1 \in Nat /\ spent[m] + 1 + 1 \in Nat
  BY <1>2
<1> QED
  BY <1>1, <1>2, <1>3

(* A handler at work: whom it promotes, and for whose request.             *)
HandlersOK ==
    \A s \in Slots :
        /\ call[s].stage = "admit" => call[s].next \in Profiles
        /\ s # Staff /\ call[s].stage \in {"admit", "tell"} => call[s].kind \in {"cancel", "leave"}

(* Vacate, by a page's own leave or by the moderator's kick.               *)
LEMMA VacateIs ==
    ASSUME Typed, NEW s \in Slots, NEW who \in Profiles, Vacate(s, who)
    PROVE  /\ members' = members \ {who}
           /\ down' \in [Profiles -> Seq(Event)]
           /\ \E e \in Event : e.type = "member" /\
                \A p \in Profiles : down'[p] = IF p \in inRoom /\ p \in Listening
                                               THEN down[p] \o <<e>> ELSE down[p]
           /\ call' \in [Slots -> Call] /\ \A t \in Slots \ {s} : call'[t] = call[t]
           /\ s # Staff => call'[s].kind = call[s].kind /\ call'[s].rank = call[s].rank
                           /\ call'[s].stage # "sent"
           /\ call'[s].stage # "tell"
           /\ call'[s].stage = "admit" => Contains(queue, call'[s].next)
           /\ \A t \in Slots : call[t].stage # "admit" /\ call[t].stage # "tell"
<1>1. PICK e : e = [type |-> "member"]
  OBVIOUS
<1>2. e \in Event /\ e.type = "member" /\ down' = ToRoom(e)
  BY <1>1, EventTypes DEF Vacate
<1>3. CASE queue = <<>> /\ Reply(s, "done")
  BY <1>2, <1>3, ToRoomIs, ReplyIs DEF Vacate, CallIs, Slots
<1>4. CASE queue # <<>> /\ call' = [call EXCEPT ![s].stage = "admit", ![s].next = Head(queue)]
  BY <1>2, <1>4, ToRoomIs, PromoteIs DEF Vacate, CallIs, Slots
<1> QED
  BY <1>3, <1>4 DEF Vacate

(* Seats: the line is what the script leaves.                              *)
LEMMA SeatsIs ==
    ASSUME Typed, NEW p \in Profiles, NEW line, Seats(p, line)
    PROVE  /\ members' = members \cup {p} /\ queue' = line /\ blocked' = blocked
           /\ down' \in [Profiles -> Seq(Event)]
           /\ \E e \in Event : e.type = "member" /\
                \A q \in Profiles : down'[q] = IF q \in inRoom /\ q \in Listening
                                               THEN down[q] \o <<e>> ELSE down[q]
           /\ CallIs(p, call[p].kind, "answer", call[p].next, call[p].rank, "seated")
<1>1. PICK e : e = [type |-> "member"]
  OBVIOUS
<1>2. e \in Event /\ e.type = "member" /\ down' = ToRoom(e)
  BY <1>1, EventTypes DEF Seats
<1>3. p \in Slots /\ p # Staff
  BY SlotTypes
<1>4. CallIs(p, call[p].kind, "answer", call[p].next, call[p].rank, "seated")
  BY <1>3, ReplyIs DEF Seats
<1> QED
  BY <1>2, <1>4, ToRoomIs DEF Seats

(* The line without somebody is a line.                                    *)
LEMMA WithoutLine ==
    ASSUME Typed, NEW p \in Profiles
    PROVE  Without(queue, p) \in Seq(Profiles) /\ IsInjective(Without(queue, p))
  BY WithoutType, WithoutOnce DEF Typed, TypeOK

(* Pages keep the types.                                                   *)
LEMMA PageTyped ==
    ASSUME Typed, NEW p \in Profiles, OfPage(p)
    PROVE  Typed'
<1> USE DEF Typed, TypeOK, server, gateway, wires, history
<1>0. p \in Slots
  BY SlotTypes
<1>1. CASE ReadRoom(p)
  BY <1>1, ReadRoomIs DEF ReadRoom, PageIs
<1>2. CASE ShowRoom(p)
  <2>1. up' \in [Profiles -> Seq({"JOIN_ROOM", "LEAVE_ROOM"})]
    BY <1>2, EmitIs DEF ShowRoom
  <2> QED
    BY <1>2, <2>1, ShowRoomIs DEF ShowRoom, PageIs
<1>3. CASE Open(p)
  <2>1. up' \in [Profiles -> Seq({"JOIN_ROOM", "LEAVE_ROOM"})]
    BY <1>3, EmitIs DEF Open
  <2>2. page' \in [Profiles -> Page]
    BY <1>3, OpenIs DEF PageIs
  <2>3. spent' \in [{"moves", "troubles", "visits"} -> Nat]
    BY <1>3, SpentIs DEF Open
  <2> QED
    BY <1>3, <2>1, <2>2, <2>3 DEF Open
<1>4. CASE Close(p) \/ LeaveQueueAnswered(p) \/ LeaveAnswered(p)
  <2>1. up' \in [Profiles -> Seq({"JOIN_ROOM", "LEAVE_ROOM"})]
    BY <1>4, EmitIs, ClosesIs
  <2>2. page' \in [Profiles -> Page]
    BY <1>4, ClosesIs DEF PageIs
  <2>3. down' \in [Profiles -> Seq(Event)]
    <3>1. down' = [down EXCEPT ![p] = <<>>] /\ <<>> \in Seq(Event)
      BY <1>4, ClosesIs, EmptySeq
    <3> QED
      BY <3>1
  <2>4. call' \in [Slots -> Call]
    BY <1>4, DoneIs DEF Close, LeaveQueueAnswered, LeaveAnswered, CallIs, Slots
  <2>5. UNCHANGED <<server, gateway, connected, history>>
    BY <1>4 DEF Close, LeaveQueueAnswered, LeaveAnswered
  <2> QED
    BY <2>1, <2>2, <2>3, <2>4, <2>5 DEF Slots
<1>5. CASE AutoJoin(p)
  <2>1. Request(p, "join")
    BY <1>5 DEF AutoJoin
  <2>2. call' \in [Slots -> Call]
    BY <2>1, RequestIs DEF CallIs
  <2>3. spent' \in [{"moves", "troubles", "visits"} -> Nat]
    BY <2>1, SpentIs DEF Request
  <2>4. page' \in [Profiles -> Page]
    BY <1>5, AutoJoinIs DEF PageIs
  <2> QED
    BY <1>5, <2>2, <2>3, <2>4 DEF AutoJoin, Slots
<1>6. CASE JoinQueue(p) \/ LeaveQueue(p) \/ LeaveRoom(p)
  <2>1. PICK kind \in {"join", "enqueue", "cancel", "leave"} : Request(p, kind)
    BY <1>6 DEF JoinQueue, LeaveQueue, LeaveRoom
  <2>2. call' \in [Slots -> Call]
    BY <2>1, RequestIs DEF CallIs
  <2>3. spent' \in [{"moves", "troubles", "visits"} -> Nat]
    BY <2>1, SpentIs DEF Request
  <2> QED
    BY <1>6, <2>2, <2>3 DEF JoinQueue, LeaveQueue, LeaveRoom, Slots
<1>7. CASE JoinAnswered(p)
  <2>1. page' \in [Profiles -> Page]
    BY <1>7, JoinAnsweredIs DEF PageIs
  <2>2. call' \in [Slots -> Call]
    BY <1>7, DoneIs DEF JoinAnswered, CallIs
  <2> QED
    BY <1>7, <2>1, <2>2 DEF JoinAnswered, Slots
<1>8. CASE JoinQueueAnswered(p)
  <2>1. page' \in [Profiles -> Page]
    BY <1>8, JoinQueueAnsweredIs DEF PageIs
  <2>2. call' \in [Slots -> Call]
    BY <1>8, DoneIs DEF JoinQueueAnswered, CallIs
  <2> QED
    BY <1>8, <2>1, <2>2 DEF JoinQueueAnswered, Slots
<1>9. CASE Hear(p)
  <2>1. PICK e \in Event :
             /\ down' \in [Profiles -> Seq(Event)]
             /\ page' \in [Profiles -> Page]
    BY <1>9, HearIs, EventTypes DEF HeardIs, PageIs
  <2> QED
    BY <1>9, <2>1 DEF Hear
<1> QED
  BY <1>1, <1>2, <1>3, <1>4, <1>5, <1>6, <1>7, <1>8, <1>9 DEF OfPage

(* So does the server.                                                     *)
LEMMA ServerTyped ==
    ASSUME Typed, NEW p \in Profiles, OfServer(p)
    PROVE  Typed'
<1> USE DEF server, gateway, wires, history
<1>0. p \in Slots /\ p # Staff /\ Staff \in Slots
  BY SlotTypes DEF Slots
<1>1. CASE ServeJoin(p)
  <2>1. CASE p \in blocked /\ Reply(p, "refused") /\ UNCHANGED <<server, down>>
    BY <1>0, <1>1, <2>1, ReplyIs DEF ServeJoin, Typed, TypeOK, CallIs, Slots
  <2>2. CASE p \notin blocked \cup members /\ Full /\ Reply(p, "full") /\ UNCHANGED <<server, down>>
    BY <1>0, <1>1, <2>2, ReplyIs DEF ServeJoin, Typed, TypeOK, CallIs, Slots
  <2>3. ASSUME NEW line \in Seq(Profiles), IsInjective(line), Seats(p, line) PROVE Typed'
    <3>1. /\ members' = members \cup {p} /\ queue' = line /\ blocked' = blocked
          /\ down' \in [Profiles -> Seq(Event)] /\ call' \in [Slots -> Call]
      BY <2>3, SeatsIs DEF CallIs
    <3> QED
      BY <1>1, <2>3, <3>1 DEF ServeJoin, Typed, TypeOK, Slots
  <2>4. queue \in Seq(Profiles) /\ IsInjective(queue)
    BY DEF Typed, TypeOK
  <2>5. CASE Seats(p, queue)
    BY <2>3, <2>4, <2>5
  <2>6. CASE Seats(p, Without(queue, p))
    BY <2>3, <2>6, WithoutLine
  <2> QED
    BY <1>1, <2>1, <2>2, <2>5, <2>6 DEF ServeJoin
<1>2. CASE ServeEnqueue(p)
  <2>1. CASE p \in blocked /\ Reply(p, "refused") /\ UNCHANGED <<server, down, twice>>
    BY <1>0, <1>2, <2>1, ReplyIs DEF ServeEnqueue, Typed, TypeOK, CallIs, Slots
  <2>2. CASE p \in members \ blocked /\ Reply(p, "seated") /\ UNCHANGED <<server, down, twice>>
    BY <1>0, <1>2, <2>2, ReplyIs DEF ServeEnqueue, Typed, TypeOK, CallIs, Slots
  <2>3. CASE Seats(p, queue) /\ twice' = IF Contains(queue, p) THEN twice \cup {p} ELSE twice
    <3>1. /\ members' = members \cup {p} /\ queue' = queue /\ blocked' = blocked
          /\ down' \in [Profiles -> Seq(Event)] /\ call' \in [Slots -> Call]
      BY <2>3, SeatsIs DEF CallIs
    <3> QED
      BY <1>2, <2>3, <3>1 DEF ServeEnqueue, Typed, TypeOK, Slots
  <2>4. CASE /\ queue' = IF Contains(queue, p) THEN queue ELSE Append(queue, p)
             /\ UNCHANGED <<members, blocked, down, twice>>
             /\ call' = [call EXCEPT ![p].stage = "answer", ![p].answer = "waiting",
                                  ![p].rank = RankIn(queue', p)]
    BY <1>2, <2>4, EnqueueIs DEF ServeEnqueue, Typed, TypeOK, CallIs, Slots
  <2> QED
    BY <1>2, <2>1, <2>2, <2>3, <2>4 DEF ServeEnqueue
<1>3. CASE ServeCancel(p)
  <2>1. CallIs(p, call[p].kind, "tell", call[p].next, call[p].rank, call[p].answer)
    BY <1>0, <1>3, ToIs DEF ServeCancel
  <2> QED
    BY <1>3, <2>1, WithoutLine DEF ServeCancel, Typed, TypeOK, CallIs, Slots
<1>4. CASE ServeLeave(p)
  <2>1. Vacate(p, p)
    BY <1>4 DEF ServeLeave
  <2>2. /\ members' = members \ {p} /\ down' \in [Profiles -> Seq(Event)]
        /\ call' \in [Slots -> Call]
    BY <1>0, <2>1, VacateIs
  <2> QED
    BY <1>4, <2>1, <2>2 DEF ServeLeave, Vacate, Typed, TypeOK, Slots
<1>5. CASE Kick(p)
  <2>1. Vacate(Staff, p)
    BY <1>5 DEF Kick
  <2>2. /\ members' = members \ {p} /\ down' \in [Profiles -> Seq(Event)]
        /\ call' \in [Slots -> Call]
    BY <1>0, <2>1, VacateIs
  <2>3. spent' \in [{"moves", "troubles", "visits"} -> Nat]
    BY <1>5, SpentIs DEF Kick
  <2> QED
    BY <1>5, <2>1, <2>2, <2>3 DEF Kick, Vacate, Typed, TypeOK, Slots
<1> QED
  BY <1>1, <1>2, <1>3, <1>4, <1>5 DEF OfServer

(* So does a handler that goes on behind its request.                      *)
LEMMA HandlerTyped ==
    ASSUME Typed, HandlersOK, NEW s \in Slots, OfHandler(s)
    PROVE  Typed'
<1> USE DEF server, gateway, wires, history
<1>1. CASE Admit(s)
  <2>1. call' \in [Slots -> Call]
    BY <1>1, ReplyIs, ToIs DEF Admit, CallIs
  <2>2. members' \in SUBSET Profiles /\ queue' \in Seq(Profiles) /\ IsInjective(queue')
        /\ blocked' = blocked
    <3>1. CASE UNCHANGED server
      BY <3>1 DEF Typed, TypeOK
    <3>2. CASE /\ members' = members \cup {call[s].next}
               /\ queue' = Without(queue, call[s].next)
               /\ UNCHANGED blocked
      <4>1. call[s].next \in Profiles
        BY <1>1 DEF Admit, HandlersOK
      <4> QED
        BY <3>2, <4>1, WithoutLine DEF Typed, TypeOK
    <3> QED
      BY <1>1, <3>1, <3>2 DEF Admit
  <2> QED
    BY <1>1, <2>1, <2>2 DEF Admit, Typed, TypeOK, Slots
<1>2. CASE Tell(s)
  <2>1. call' \in [Slots -> Call]
    BY <1>2, ReplyIs DEF Tell, CallIs
  <2> QED
    BY <1>2, <2>1, TellIs DEF Tell, Typed, TypeOK, Slots
<1> QED
  BY <1>1, <1>2 DEF OfHandler

(* What the server takes from a socket.                                    *)
LEMMA TakenIs ==
    ASSUME Typed, NEW p \in Profiles, up[p] # <<>>, up' = [up EXCEPT ![p] = Tail(@)]
    PROVE  /\ up' \in [Profiles -> Seq({"JOIN_ROOM", "LEAVE_ROOM"})]
           /\ up'[p] = Tail(up[p]) /\ \A q \in Profiles \ {p} : up'[q] = up[q]
<1>1. up \in [Profiles -> Seq({"JOIN_ROOM", "LEAVE_ROOM"})]
  BY DEF Typed, TypeOK
<1>2. Tail(up[p]) \in Seq({"JOIN_ROOM", "LEAVE_ROOM"})
  BY <1>1, HeadTailProperties
<1> QED
  BY <1>1, <1>2

(* So does the gateway.                                                    *)
LEMMA GatewayTyped ==
    ASSUME Typed, NEW p \in Profiles, OfGateway(p)
    PROVE  Typed'
<1> USE DEF server, gateway, wires, history
<1>1. CASE OnJoinRoom(p)
  <2>1. up' \in [Profiles -> Seq({"JOIN_ROOM", "LEAVE_ROOM"})]
    BY <1>1, TakenIs DEF OnJoinRoom
  <2>2. inRoom' \in SUBSET Profiles /\ online' \in SUBSET Profiles
    BY <1>1 DEF OnJoinRoom, Typed, TypeOK
  <2>3. down' \in [Profiles -> Seq(Event)]
    BY <1>1, <2>2, EmitPresenceIs DEF OnJoinRoom, Typed, TypeOK
  <2> QED
    BY <1>1, <2>1, <2>2, <2>3 DEF OnJoinRoom, Typed, TypeOK
<1>2. CASE OnLeaveRoom(p)
  <2>1. up' \in [Profiles -> Seq({"JOIN_ROOM", "LEAVE_ROOM"})]
    BY <1>2, TakenIs DEF OnLeaveRoom
  <2>2. inRoom' \in SUBSET Profiles /\ online' \in SUBSET Profiles
    BY <1>2 DEF OnLeaveRoom, Typed, TypeOK
  <2>3. down' \in [Profiles -> Seq(Event)]
    BY <1>2, <2>2, EmitPresenceIs DEF OnLeaveRoom
  <2> QED
    BY <1>2, <2>1, <2>2, <2>3 DEF OnLeaveRoom, Typed, TypeOK
<1>3. CASE Drop(p)
  <2>1. page' \in [Profiles -> Page]
    BY <1>3, DropIs DEF PageIs
  <2>2. spent' \in [{"moves", "troubles", "visits"} -> Nat]
    BY <1>3, SpentIs DEF Drop
  <2>3. <<>> \in Seq(Event) /\ <<>> \in Seq({"JOIN_ROOM", "LEAVE_ROOM"})
    BY EmptySeq
  <2> QED
    BY <1>3, <2>1, <2>2, <2>3 DEF Drop, Typed, TypeOK
<1>4. CASE Reconnect(p)
  <2>1. up' \in [Profiles -> Seq({"JOIN_ROOM", "LEAVE_ROOM"})]
    BY <1>4, EmitIs DEF Reconnect, Typed, TypeOK
  <2> QED
    BY <1>4, <2>1 DEF Reconnect, Typed, TypeOK
<1> QED
  BY <1>1, <1>2, <1>3, <1>4 DEF OfGateway

(* Pages leave the handlers at work.                                       *)
LEMMA PageHandlers ==
    ASSUME Typed, HandlersOK, NEW p \in Profiles, OfPage(p)
    PROVE  HandlersOK'
<1> USE DEF server, gateway, wires, history
<1>0. p \in Slots /\ p # Staff
  BY SlotTypes
<1>1. CASE call' = call
  BY <1>1 DEF HandlersOK
<1>2. CASE \E kind, stage \in STRING : stage \in {"sent", "idle"} /\
             \E rank : CallIs(p, kind, stage, NoProfile, rank, "none")
  BY <1>0, <1>2 DEF HandlersOK, CallIs
<1>3. CASE ReadRoom(p) \/ ShowRoom(p) \/ Open(p) \/ Close(p) \/ Hear(p)
  BY <1>1, <1>3 DEF ReadRoom, ShowRoom, Open, Close, Hear
<1>4. CASE AutoJoin(p) \/ JoinQueue(p) \/ LeaveQueue(p) \/ LeaveRoom(p)
  <2>1. PICK kind \in {"join", "enqueue", "cancel", "leave"} : Request(p, kind)
    BY <1>4 DEF AutoJoin, JoinQueue, LeaveQueue, LeaveRoom
  <2>2. CallIs(p, kind, "sent", NoProfile, page[p].room.rank, "none")
    BY <2>1, RequestIs
  <2> QED
    BY <1>0, <2>2 DEF HandlersOK, CallIs
<1>5. CASE JoinAnswered(p) \/ JoinQueueAnswered(p) \/ LeaveQueueAnswered(p) \/ LeaveAnswered(p)
  <2>1. CallIs(p, "none", "idle", NoProfile, 0, "none")
    BY <1>5, DoneIs DEF JoinAnswered, JoinQueueAnswered, LeaveQueueAnswered, LeaveAnswered
  <2> QED
    BY <1>0, <2>1 DEF HandlersOK, CallIs
<1> QED
  BY <1>3, <1>4, <1>5 DEF OfPage

(* A request that promotes somebody was a cancel, a leave or a kick.       *)
LEMMA ServerHandlers ==
    ASSUME Typed, HandlersOK, NEW p \in Profiles, OfServer(p)
    PROVE  HandlersOK'
<1>0. p \in Slots /\ p # Staff /\ Staff \in Slots
  BY SlotTypes DEF Slots
<1>1. ASSUME NEW answer, NEW rank, CallIs(p, call[p].kind, "answer", call[p].next, rank, answer)
      PROVE  HandlersOK'
  BY <1>0, <1>1 DEF HandlersOK, CallIs
<1>2. ASSUME NEW answer \in {"seated", "full", "refused", "done"}, Reply(p, answer)
      PROVE  HandlersOK'
  BY <1>0, <1>1, <1>2, ReplyIs
<1>3. ASSUME NEW line, Seats(p, line) PROVE HandlersOK'
  BY <1>1, <1>3, SeatsIs
<1>4. CASE ServeJoin(p)
  BY <1>2, <1>3, <1>4 DEF ServeJoin
<1>5. CASE ServeEnqueue(p)
  <2>1. CASE /\ queue' = IF Contains(queue, p) THEN queue ELSE Append(queue, p)
             /\ call' = [call EXCEPT ![p].stage = "answer", ![p].answer = "waiting",
                                  ![p].rank = RankIn(queue', p)]
    <3>1. PICK n : n = RankIn(queue', p)
      OBVIOUS
    <3>2. CallIs(p, call[p].kind, "answer", call[p].next, n, "waiting")
      BY <2>1, <3>1, EnqueueIs
    <3> QED
      BY <1>1, <3>2
  <2> QED
    BY <1>2, <1>3, <1>5, <2>1 DEF ServeEnqueue
<1>6. CASE ServeCancel(p)
  <2>1. CallIs(p, call[p].kind, "tell", call[p].next, call[p].rank, call[p].answer)
    BY <1>0, <1>6, ToIs DEF ServeCancel
  <2> QED
    BY <1>0, <1>6, <2>1 DEF ServeCancel, HandlersOK, CallIs
<1>7. ASSUME NEW s \in Slots, s # Staff => call[s].kind = "leave",
             NEW who \in Profiles, Vacate(s, who)
      PROVE  HandlersOK'
  <2>1. CASE queue = <<>> /\ Reply(s, "done")
    BY <1>0, <1>7, <2>1, ReplyIs DEF HandlersOK, CallIs
  <2>2. CASE queue # <<>> /\ call' = [call EXCEPT ![s].stage = "admit", ![s].next = Head(queue)]
    <3>1. /\ CallIs(s, call[s].kind, "admit", Head(queue), call[s].rank, call[s].answer)
          /\ Head(queue) \in Profiles
      BY <2>2, PromoteIs
    <3> QED
      BY <1>7, <3>1 DEF HandlersOK, CallIs
  <2> QED
    BY <1>7, <2>1, <2>2 DEF Vacate
<1>8. CASE ServeLeave(p)
  BY <1>0, <1>7, <1>8 DEF ServeLeave
<1>9. CASE Kick(p)
  BY <1>0, <1>7, <1>9 DEF Kick
<1> QED
  BY <1>4, <1>5, <1>6, <1>8, <1>9 DEF OfServer

(* A handler that goes on keeps what it works for.                         *)
LEMMA HandlerHandlers ==
    ASSUME Typed, HandlersOK, NEW s \in Slots, OfHandler(s)
    PROVE  HandlersOK'
<1>1. CASE Reply(s, "done")
  BY <1>1, ReplyIs DEF HandlersOK, CallIs
<1>2. CASE To(s, "tell") /\ call[s].stage = "admit"
  BY <1>2, ToIs DEF HandlersOK, CallIs
<1> QED
  BY <1>1, <1>2 DEF OfHandler, Admit, Tell

(* The pages at first: of one seated, of one in line, of a visitor.        *)
LEMMA InitPage ==
    ASSUME Init, NEW p \in Profiles
    PROVE  /\ p \in Seated =>
                Fields(page[p], TRUE, [seat |-> "yes", rank |-> 0], "none", Unknown, FALSE, TRUE,
                       FALSE, 0, Seated, FALSE, FALSE)
           /\ p \notin Seated /\ Contains(Waiting, p) =>
                Fields(page[p], TRUE, [seat |-> "no", rank |-> 0], "none", Unknown, FALSE, TRUE,
                       TRUE, RankIn(Waiting, p), {}, FALSE, FALSE)
           /\ p \notin Seated /\ ~Contains(Waiting, p) =>
                Fields(page[p], FALSE, Unknown, "none", Unknown, FALSE, FALSE, FALSE, 0, {},
                       FALSE, FALSE)
<1>0. Waiting \in Seq(Profiles) /\ IsInjective(Waiting)
  BY SeatsAssumption, SeqMonotonic
<1>1. Closed \in Page
  BY ClosedType DEF Fields
<1>2. ASSUME p \in Seated
      PROVE  Fields(page[p], TRUE, [seat |-> "yes", rank |-> 0], "none", Unknown, FALSE, TRUE,
                    FALSE, 0, Seated, FALSE, FALSE)
  <2>1. PICK v : v = [seat |-> "yes", rank |-> 0]
    OBVIOUS
  <2>2. v \in View /\ v = [Unknown EXCEPT !.seat = "yes"]
    BY <2>1, ViewTypes DEF View, Unknown
  <2>3. page[p] = [Closed EXCEPT !.open = TRUE, !.room = v, !.attempted = TRUE, !.shown = Seated]
    <3>1. page[p] = [Closed EXCEPT !.open = TRUE, !.room.seat = "yes", !.attempted = TRUE,
                                   !.shown = Seated]
      BY <1>2 DEF Init
    <3>2. Closed.room = Unknown
      BY ClosedType DEF Fields
    <3> QED
      BY <2>2, <3>1, <3>2
  <2>4. Seated \in SUBSET Profiles
    BY SeatsAssumption
  <2> QED
    BY <1>1, <2>1, <2>2, <2>3, <2>4, ClosedType DEF Page, Fields
<1>3. ASSUME p \notin Seated, Contains(Waiting, p)
      PROVE  Fields(page[p], TRUE, [seat |-> "no", rank |-> 0], "none", Unknown, FALSE, TRUE,
                    TRUE, RankIn(Waiting, p), {}, FALSE, FALSE)
  <2>1. PICK v : v = [seat |-> "no", rank |-> 0]
    OBVIOUS
  <2>2. v \in View /\ v = [Unknown EXCEPT !.seat = "no"]
    BY <2>1, ViewTypes DEF View, Unknown
  <2>3. PICK n : n = RankIn(Waiting, p)
    OBVIOUS
  <2>4. n \in Places0
    BY <1>0, <2>3, RankType
  <2>5. page[p] = [Closed EXCEPT !.open = TRUE, !.room = v, !.attempted = TRUE, !.full = TRUE,
                                 !.place = n]
    <3>1. page[p] = [Closed EXCEPT !.open = TRUE, !.room.seat = "no", !.attempted = TRUE,
                                   !.full = TRUE, !.place = n]
      BY <1>3, <2>3 DEF Init
    <3>2. Closed.room = Unknown
      BY ClosedType DEF Fields
    <3> QED
      BY <2>2, <3>1, <3>2
  <2> QED
    BY <1>1, <2>1, <2>2, <2>3, <2>4, <2>5, ClosedType DEF Page, Fields
<1>4. ASSUME p \notin Seated, ~Contains(Waiting, p) PROVE page[p] = Closed
  BY <1>4 DEF Init
<1> QED
  BY <1>2, <1>3, <1>4, ClosedType

(* The types hold at first.                                                *)
LEMMA TypedInit ==
    ASSUME Init
    PROVE  Typed /\ HandlersOK
<1>0. Waiting \in Seq(Profiles) /\ IsInjective(Waiting)
  BY SeatsAssumption, SeqMonotonic
<1>1. call \in [Slots -> Call] /\ HandlersOK
  BY NoCallType DEF Init, Slots, HandlersOK
<1>2. \A p \in Profiles : page[p] \in Page
  BY InitPage DEF Fields
<1>3. page \in [Profiles -> Page]
  BY <1>2 DEF Init
<1>4. {members, blocked, online, inRoom, connected, dropped, twice} \subseteq SUBSET Profiles
  BY SeatsAssumption DEF Init
<1>5. /\ up \in [Profiles -> Seq({"JOIN_ROOM", "LEAVE_ROOM"})]
      /\ down \in [Profiles -> Seq(Event)]
  BY EmptySeq DEF Init
<1>6. spent \in [{"moves", "troubles", "visits"} -> Nat]
  <2>1. /\ DOMAIN spent = {"moves", "troubles", "visits"}
        /\ spent["moves"] = 0 /\ spent["troubles"] = 0 /\ spent["visits"] = 0
    BY DEF Init
  <2>2. spent = [n \in DOMAIN spent |-> spent[n]]
    BY DEF Init
  <2> QED
    BY <2>1, <2>2
<1> QED
  BY <1>0, <1>1, <1>3, <1>4, <1>5, <1>6 DEF Init, Typed, TypeOK, Slots

(* Every step keeps the types.                                             *)
LEMMA TypedStep ==
    ASSUME Typed, HandlersOK, [Next]_vars
    PROVE  Typed' /\ HandlersOK'
<1>1. CASE UNCHANGED vars
  BY <1>1 DEF vars, server, gateway, wires, history, Typed, TypeOK, HandlersOK
<1>2. ASSUME NEW p \in Profiles, OfGateway(p) PROVE Typed' /\ HandlersOK'
  <2>1. call' = call
    BY <1>2 DEF OfGateway, OnJoinRoom, OnLeaveRoom, Drop, Reconnect
  <2> QED
    BY <1>2, <2>1, GatewayTyped DEF HandlersOK
<1> QED
  BY <1>1, <1>2, PageTyped, ServerTyped, HandlerTyped, PageHandlers, ServerHandlers,
     HandlerHandlers DEF Next, Slots

-----------------------------------------------------------------------------
(* What others do to p: his page, his line, his events.                    *)

(* p stands in line; a handler is about to admit him; one is about to tell *)
(* him so.                                                                 *)
Waits(p) == Contains(queue, p)
Promoted(p) == \E s \in Slots : call[s].stage = "admit" /\ call[s].next = p
Told(p) == \E s \in Slots : call[s].stage = "tell" /\ call[s].next = p

(* What a step that is not p's own leaves of p, and what it may add: the   *)
(* events it sends.  A request of p that the server goes on with has been  *)
(* taken already.                                                          *)
Untouched(p) ==
    /\ page'[p] = page[p] /\ up'[p] = up[p]
    /\ p \in members' <=> p \in members
    /\ p \in blocked' <=> p \in blocked
    /\ p \in inRoom' <=> p \in inRoom
    /\ p \in connected' <=> p \in connected
    /\ p \in twice' <=> p \in twice
    /\ call'[p].kind = call[p].kind /\ call'[p].rank = call[p].rank
    /\ \/ call'[p].stage = call[p].stage /\ call'[p].answer = call[p].answer
       \/ call[p].kind \in {"cancel", "leave"} /\ call[p].stage # "sent" /\ call'[p].stage # "sent"

(* The line and the promotions, as they look to p.                         *)
Passed(p) ==
    /\ Waits(p)' <=> Waits(p)
    /\ Waits(p) => RankIn(queue', p) <= RankIn(queue, p)
    /\ Promoted(p)' => Promoted(p) \/ Waits(p)
    /\ Told(p) /\ p \in Listening => Told(p)' \/ HasIn(down'[p], "admitted")

(* What it hears more.                                                     *)
MoreHeard(p) ==
    /\ p \notin Listening => down'[p] = down[p]
    /\ \A type : HasIn(down[p], type) => HasIn(down'[p], type)
    /\ HasIn(down'[p], "waiting") => HasIn(down[p], "waiting") \/ Waits(p)
    /\ Waits(p) /\ AtLeast(down[p], RankIn(queue, p)) => AtLeast(down'[p], RankIn(queue', p))
    /\ p \in inRoom' /\ p \in Listening =>
         \A d : Ends(down[p], d, online) => Ends(down'[p], d, online')

(* The rank of p is 0 exactly when he is not in line.                      *)
LEMMA SameLine ==
    ASSUME Typed, NEW p \in Profiles
    PROVE  RankIn(queue, p) \in Nat /\ (Waits(p) <=> RankIn(queue, p) # 0)
<1>1. Cardinality(Profiles) \in Nat
  BY FS_CardinalityType, SeatsAssumption
<1>2. RankIn(queue, p) \in Places0 /\ (Contains(queue, p) <=> RankIn(queue, p) \in Places1)
  BY RankType DEF Typed, TypeOK
<1> QED
  BY <1>1, <1>2 DEF Places0, Places1, Waits

(* A place that is far enough is, when the line moves up, still.           *)
LEMMA AtLeastLess ==
    ASSUME NEW s \in Seq(Event), NEW n \in Nat, NEW m \in Nat, m <= n, AtLeast(s, n)
    PROVE  AtLeast(s, m)
<1>1. ASSUME NEW i \in 1 .. Len(s), s[i].type = "waiting" PROVE m <= s[i].position
  <2>1. s[i] \in Event
    BY ElementOfSeq
  <2>2. s[i].position \in Nat
    <3>1. Cardinality(Profiles) \in Nat
      BY FS_CardinalityType, SeatsAssumption
    <3> QED
      BY <1>1, <2>1, <3>1, EventTypes DEF Places1
  <2>3. n <= s[i].position
    BY <1>1 DEF AtLeast
  <2> QED
    BY <2>2, <2>3
<1> QED
  BY <1>1 DEF AtLeast

(* One event for those in the room that is no place, and is the online     *)
(* list whenever that has changed.                                         *)
LEMMA HeardOne ==
    ASSUME Typed, NEW p \in Profiles, NEW e \in Event, NEW told \in BOOLEAN,
           down'[p] = IF told /\ p \in Listening THEN down[p] \o <<e>> ELSE down[p],
           e.type # "waiting", p \in inRoom' => told,
           e.type = "presence" => e.profiles = online',
           e.type # "presence" => online' = online,
           Waits(p) => RankIn(queue', p) \in Nat /\ RankIn(queue', p) <= RankIn(queue, p)
    PROVE  MoreHeard(p)
<1>1. down[p] \in Seq(Event) /\ RankIn(queue, p) \in Nat
  BY SlotTypes, SameLine
<1>2. CASE told /\ p \in Listening
  <2>1. PICK t : t = down'[p]
    OBVIOUS
  <2>2. /\ t \in Seq(Event)
        /\ \A type : HasIn(t, type) <=> HasIn(down[p], type) \/ e.type = type
        /\ \A n : AtLeast(t, n) <=> AtLeast(down[p], n)
        /\ \A d, who : IF e.type = "presence" THEN Ends(t, d, who) <=> e.profiles = who
                          ELSE Ends(t, d, who) <=> Ends(down[p], d, who)
    <3>1. t = down[p] \o <<e>>
      BY <1>2, <2>1
    <3> QED
      BY <1>1, <3>1, OneMore
  <2>3. Waits(p) /\ AtLeast(down[p], RankIn(queue, p)) => AtLeast(t, RankIn(queue', p))
    BY <1>1, <2>2, AtLeastLess
  <2>4. \A d : Ends(down[p], d, online) => Ends(t, d, online')
    BY <2>2
  <2> QED
    BY <1>2, <2>1, <2>2, <2>3, <2>4 DEF MoreHeard
<1>3. CASE ~(told /\ p \in Listening)
  <2>1. down'[p] = down[p]
    BY <1>3
  <2>2. Waits(p) /\ AtLeast(down[p], RankIn(queue, p)) => AtLeast(down[p], RankIn(queue', p))
    BY <1>1, AtLeastLess
  <2> QED
    BY <1>3, <2>1, <2>2 DEF MoreHeard
<1> QED
  BY <1>2, <1>3

(* Another page's doings.                                                  *)
LEMMA OtherPage ==
    ASSUME Typed, HandlersOK, NEW p \in Profiles, NEW q \in Profiles, p # q, OfPage(q)
    PROVE  Untouched(p) /\ Passed(p) /\ MoreHeard(p)
<1>0. p \in Slots /\ q \in Slots /\ q # Staff /\ p # Staff
  BY SlotTypes
<1>1. /\ UNCHANGED <<server, gateway, connected, twice>>
  BY DEF OfPage, ReadRoom, ShowRoom, Open, Close, AutoJoin, JoinQueue, LeaveQueue, LeaveRoom,
         JoinAnswered, JoinQueueAnswered, LeaveQueueAnswered, LeaveAnswered, Hear, wires, history
<1>2. /\ \A t \in Slots \ {q} : call'[t] = call[t]
      /\ call[q].stage # "tell" \/ call' = call
      /\ call'[q].stage # "admit" \/ call' = call
  <2>1. CASE ReadRoom(q) \/ ShowRoom(q) \/ Open(q) \/ Close(q) \/ Hear(q)
    BY <2>1 DEF ReadRoom, ShowRoom, Open, Close, Hear
  <2>2. CASE AutoJoin(q) \/ JoinQueue(q) \/ LeaveQueue(q) \/ LeaveRoom(q)
    <3>1. PICK kind \in {"join", "enqueue", "cancel", "leave"} : Request(q, kind)
      BY <2>2 DEF AutoJoin, JoinQueue, LeaveQueue, LeaveRoom
    <3> QED
      BY <3>1, RequestIs, NoCallType DEF CallIs
  <2>3. CASE JoinAnswered(q) \/ JoinQueueAnswered(q) \/ LeaveQueueAnswered(q) \/ LeaveAnswered(q)
    BY <2>3, DoneIs DEF JoinAnswered, JoinQueueAnswered, LeaveQueueAnswered, LeaveAnswered, CallIs,
       Answered
  <2> QED
    BY <2>1, <2>2, <2>3 DEF OfPage
<1>3. page'[p] = page[p]
  <2>1. CASE ReadRoom(q)
    BY <2>1, ReadRoomIs DEF PageIs
  <2>2. CASE ShowRoom(q)
    BY <2>2, ShowRoomIs DEF PageIs
  <2>3. CASE Open(q)
    BY <2>3, OpenIs DEF PageIs
  <2>4. CASE Close(q) \/ LeaveQueueAnswered(q) \/ LeaveAnswered(q)
    BY <2>4, ClosesIs DEF PageIs
  <2>5. CASE AutoJoin(q)
    BY <2>5, AutoJoinIs DEF PageIs
  <2>6. CASE JoinQueue(q) \/ LeaveQueue(q) \/ LeaveRoom(q)
    BY <2>6 DEF JoinQueue, LeaveQueue, LeaveRoom
  <2>7. CASE JoinAnswered(q)
    BY <2>7, JoinAnsweredIs DEF PageIs
  <2>8. CASE JoinQueueAnswered(q)
    BY <2>8, JoinQueueAnsweredIs DEF PageIs
  <2>9. CASE Hear(q)
    <3>1. page \in [Profiles -> Page] /\ page' = [page EXCEPT ![q] = Heard(q, Head(down[q]))]
      BY <2>9 DEF Hear, Typed, TypeOK
    <3> QED
      BY <3>1
  <2> QED
    BY <2>1, <2>2, <2>3, <2>4, <2>5, <2>6, <2>7, <2>8, <2>9 DEF OfPage
<1>4. up'[p] = up[p]
  <2>1. CASE ShowRoom(q)
    BY <2>1, EmitIs DEF ShowRoom
  <2>2. CASE Open(q)
    BY <2>2, EmitIs DEF Open
  <2>3. CASE Close(q) \/ LeaveQueueAnswered(q) \/ LeaveAnswered(q)
    BY <2>3, ClosesIs, EmitIs
  <2>4. CASE UNCHANGED up
    BY <2>4
  <2> QED
    BY <2>1, <2>2, <2>3, <2>4 DEF OfPage, ReadRoom, AutoJoin, JoinQueue, LeaveQueue, LeaveRoom,
       JoinAnswered, JoinQueueAnswered, Hear, wires
<1>5. down'[p] = down[p]
  <2>1. CASE Close(q) \/ LeaveQueueAnswered(q) \/ LeaveAnswered(q)
    BY <2>1, ClosesIs DEF Typed, TypeOK
  <2>2. CASE Hear(q)
    BY <2>2 DEF Hear, Typed, TypeOK
  <2>3. CASE UNCHANGED down
    BY <2>3
  <2> QED
    BY <2>1, <2>2, <2>3 DEF OfPage, ReadRoom, ShowRoom, Open, AutoJoin, JoinQueue, LeaveQueue,
       LeaveRoom, JoinAnswered, JoinQueueAnswered, wires
<1>6. Untouched(p)
  BY <1>0, <1>1, <1>2, <1>3, <1>4 DEF Untouched, server, gateway
<1>7. Passed(p)
  <2>1. Promoted(p)' => Promoted(p)
    BY <1>0, <1>2 DEF Promoted
  <2>2. Told(p) => Told(p)'
    BY <1>0, <1>2 DEF Told
  <2>3. queue' = queue /\ RankIn(queue, p) \in Nat
    BY <1>1, SameLine DEF server
  <2> QED
    BY <2>1, <2>2, <2>3 DEF Passed, Waits
<1>8. MoreHeard(p)
  BY <1>1, <1>5 DEF MoreHeard, server, gateway
<1> QED
  BY <1>6, <1>7, <1>8

(* The line without another, or with another at its end.                   *)
LEMMA LineWithout ==
    ASSUME Typed, NEW p \in Profiles, NEW q, p # q, queue' = Without(queue, q)
    PROVE  (Waits(p)' <=> Waits(p)) /\ (Waits(p) => RankIn(queue', p) \in Nat
                                                    /\ RankIn(queue', p) <= RankIn(queue, p))
<1>1. queue \in Seq(Profiles) /\ IsInjective(queue)
  BY DEF Typed, TypeOK
<1>2. Contains(Without(queue, q), p) <=> Contains(queue, p)
  BY <1>1, WithoutOnce
<1>3. Contains(queue, p) => RankIn(Without(queue, q), p) <= RankIn(queue, p)
  BY <1>1, <1>2, WithoutOnce
<1>4. Contains(queue, p) => RankIn(Without(queue, q), p) \in Nat
  <2>1. ASSUME Contains(Without(queue, q), p)
        PROVE  RankIn(Without(queue, q), p) \in 1 .. Len(Without(queue, q))
    BY <1>1, <2>1, WithoutType, RankIs
  <2> QED
    BY <1>2, <2>1
<1> QED
  BY <1>2, <1>3, <1>4 DEF Waits

(* The server at work for another profile.                                 *)
LEMMA OtherServer ==
    ASSUME Typed, HandlersOK, NEW p \in Profiles, NEW q \in Profiles, p # q, OfServer(q)
    PROVE  Untouched(p) /\ Passed(p) /\ MoreHeard(p)
<1>0. /\ p \in Slots /\ q \in Slots /\ q # Staff /\ p # Staff /\ Staff \in Slots
      /\ RankIn(queue, p) \in Nat /\ down[p] \in Seq(Event)
  BY SlotTypes, SameLine DEF Slots
<1>1. UNCHANGED <<gateway, connected, up, page>>
  BY DEF OfServer, ServeJoin, ServeEnqueue, ServeCancel, ServeLeave, Kick, Vacate, wires
<1>2. /\ p \in members' <=> p \in members
      /\ p \in blocked' <=> p \in blocked
      /\ p \in twice' <=> p \in twice
  <2>1. CASE ServeJoin(q)
    BY <2>1 DEF ServeJoin, Seats, server, history
  <2>2. CASE ServeEnqueue(q)
    BY <2>2 DEF ServeEnqueue, Seats, server
  <2>3. CASE ServeCancel(q)
    BY <2>3 DEF ServeCancel, history
  <2>4. CASE ServeLeave(q)
    BY <2>4 DEF ServeLeave, Vacate, history
  <2>5. CASE Kick(q)
    BY <2>5 DEF Kick, Vacate
  <2> QED
    BY <2>1, <2>2, <2>3, <2>4, <2>5 DEF OfServer
<1>3. Waits(p)' <=> Waits(p)
  <2>1. CASE UNCHANGED queue
    BY <2>1 DEF Waits
  <2>2. CASE queue' = Without(queue, q)
    BY <2>2, LineWithout
  <2>3. CASE queue' = IF Contains(queue, q) THEN queue ELSE Append(queue, q)
    <3>1. CASE Contains(queue, q)
      BY <2>3, <3>1 DEF Waits
    <3>2. CASE ~Contains(queue, q)
      <4>1. Contains(Append(queue, q), p) <=> Contains(queue, p)
        BY <3>2, AppendOnce DEF Typed, TypeOK
      <4> QED
        BY <2>3, <3>2, <4>1 DEF Waits
    <3> QED
      BY <3>1, <3>2
  <2> QED
    BY <2>1, <2>2, <2>3 DEF OfServer, ServeJoin, ServeEnqueue, ServeCancel, ServeLeave,
           Kick, Vacate,
       Seats, server
<1>4. Waits(p) => RankIn(queue', p) \in Nat /\ RankIn(queue', p) <= RankIn(queue, p)
  <2>1. CASE UNCHANGED queue
    BY <1>0, <2>1
  <2>2. CASE queue' = Without(queue, q)
    BY <2>2, LineWithout
  <2>3. CASE queue' = IF Contains(queue, q) THEN queue ELSE Append(queue, q)
    <3>1. CASE Contains(queue, q)
      BY <1>0, <2>3, <3>1
    <3>2. CASE ~Contains(queue, q)
      <4>1. Contains(queue, p) => RankIn(Append(queue, q), p) = RankIn(queue, p)
        BY <3>2, AppendOnce DEF Typed, TypeOK
      <4> QED
        BY <1>0, <2>3, <3>2, <4>1 DEF Waits
    <3> QED
      BY <3>1, <3>2
  <2> QED
    BY <2>1, <2>2, <2>3 DEF OfServer, ServeJoin, ServeEnqueue, ServeCancel, ServeLeave,
           Kick, Vacate,
       Seats, server
<1>5. /\ call'[p] = call[p]
      /\ Promoted(p)' => Promoted(p) \/ Waits(p)
      /\ Told(p) => Told(p)'
  <2>1. ASSUME NEW answer \in {"seated", "full", "refused", "done"}, Reply(q, answer),
               call[q].stage = "sent"
        PROVE  /\ call'[p] = call[p]
               /\ Promoted(p)' => Promoted(p) \/ Waits(p)
               /\ Told(p) => Told(p)'
    BY <1>0, <2>1, ReplyIs DEF CallIs, Promoted, Told
  <2>2. CASE ServeJoin(q)
    <3>1. PICK answer \in {"seated", "full", "refused", "done"} : Reply(q, answer)
      BY <2>2 DEF ServeJoin, Seats
    <3> QED
      BY <2>1, <2>2, <3>1 DEF ServeJoin
  <2>3. CASE ServeEnqueue(q)
    <3>1. CASE \E answer \in {"seated", "full", "refused", "done"} : Reply(q, answer)
      BY <2>1, <2>3, <3>1 DEF ServeEnqueue
    <3>2. CASE /\ queue' = IF Contains(queue, q) THEN queue ELSE Append(queue, q)
               /\ call' = [call EXCEPT ![q].stage = "answer", ![q].answer = "waiting",
                                  ![q].rank = RankIn(queue', q)]
      <4>1. PICK n : n = RankIn(queue', q)
        OBVIOUS
      <4>2. CallIs(q, call[q].kind, "answer", call[q].next, n, "waiting")
        BY <3>2, <4>1, EnqueueIs
      <4> QED
        BY <1>0, <2>3, <4>2 DEF ServeEnqueue, CallIs, Promoted, Told
    <3> QED
      BY <2>3, <3>1, <3>2 DEF ServeEnqueue, Seats
  <2>4. CASE ServeCancel(q)
    <3>1. CallIs(q, call[q].kind, "tell", call[q].next, call[q].rank, call[q].answer)
      BY <1>0, <2>4, ToIs DEF ServeCancel
    <3> QED
      BY <1>0, <2>4, <3>1 DEF ServeCancel, CallIs, Promoted, Told
  <2>5. CASE ServeLeave(q) \/ Kick(q)
    <3>1. PICK s \in {q, Staff} : Vacate(s, q)
      BY <2>5 DEF ServeLeave, Kick
    <3>2. /\ \A t \in Slots \ {s} : call'[t] = call[t]
          /\ \A t \in Slots : call[t].stage # "admit" /\ call[t].stage # "tell"
      BY <1>0, <3>1, VacateIs
    <3>3. ~Told(p)
      BY <3>2 DEF Told
    <3>4. Promoted(p)' => Waits(p)
      <4>1. ASSUME Promoted(p)' PROVE Waits(p)
        <5>1. PICK t \in Slots : call'[t].stage = "admit" /\ call'[t].next = p
          BY <4>1 DEF Promoted
        <5>2. t = s
          BY <3>2, <5>1
        <5> QED
          BY <1>0, <3>1, <5>1, <5>2, VacateIs DEF Waits
      <4> QED
        BY <4>1
    <3> QED
      BY <1>0, <3>2, <3>3, <3>4
  <2> QED
    BY <2>2, <2>3, <2>4, <2>5 DEF OfServer
<1>6. MoreHeard(p)
  <2>1. CASE UNCHANGED down
    BY <1>0, <1>1, <1>4, <2>1, AtLeastLess DEF MoreHeard, gateway
  <2>2. CASE \E e \in Event : e.type = "member" /\
               down'[p] = IF p \in inRoom /\ p \in Listening THEN down[p] \o <<e>> ELSE down[p]
    <3>1. PICK e \in Event : e.type = "member" /\
               down'[p] = IF p \in inRoom /\ p \in Listening THEN down[p] \o <<e>> ELSE down[p]
      BY <2>2
    <3>2. PICK told \in BOOLEAN : told <=> p \in inRoom
      OBVIOUS
    <3>3. down'[p] = IF told /\ p \in Listening THEN down[p] \o <<e>> ELSE down[p]
      BY <3>1, <3>2
    <3>4. e.type # "waiting" /\ e.type # "presence" /\ online' = online /\ (p \in inRoom' => told)
      BY <1>1, <3>1, <3>2 DEF gateway
    <3> QED
      BY <1>4, <3>3, <3>4, HeardOne
  <2>3. CASE \E line : Seats(q, line)
    BY <2>2, <2>3, SeatsIs
  <2>4. CASE ServeLeave(q) \/ Kick(q)
    <3>1. PICK s \in {q, Staff} : Vacate(s, q)
      BY <2>4 DEF ServeLeave, Kick
    <3> QED
      BY <1>0, <2>2, <3>1, VacateIs
  <2> QED
    BY <2>1, <2>3, <2>4 DEF OfServer, ServeJoin, ServeEnqueue, ServeCancel, wires
<1> QED
  BY <1>1, <1>2, <1>3, <1>4, <1>5, <1>6 DEF Untouched, Passed, gateway

(* The gateway, and another's socket.                                      *)
LEMMA OtherGateway ==
    ASSUME Typed, HandlersOK, NEW p \in Profiles, NEW q \in Profiles, p # q, OfGateway(q)
    PROVE  Untouched(p) /\ Passed(p) /\ MoreHeard(p)
<1>0. /\ p \in Slots /\ p # Staff /\ RankIn(queue, p) \in Nat /\ down[p] \in Seq(Event)
      /\ inRoom' \in SUBSET Profiles /\ online' \in SUBSET Profiles
  <2>1. Typed'
    BY GatewayTyped
  <2> QED
    BY <2>1, SlotTypes, SameLine DEF Typed, TypeOK
<1>1. /\ UNCHANGED <<server, call, twice>>
      /\ p \in inRoom' <=> p \in inRoom
      /\ p \in connected' <=> p \in connected
  BY DEF OfGateway, OnJoinRoom, OnLeaveRoom, Drop, Reconnect, history, gateway
<1>2. page'[p] = page[p]
  <2>1. CASE Drop(q)
    BY <2>1, DropIs DEF PageIs
  <2> QED
    BY <2>1 DEF OfGateway, OnJoinRoom, OnLeaveRoom, Reconnect
<1>3. up'[p] = up[p]
  <2>1. CASE OnJoinRoom(q) \/ OnLeaveRoom(q)
    BY <2>1, TakenIs DEF OnJoinRoom, OnLeaveRoom
  <2>2. CASE Drop(q)
    BY <2>2 DEF Drop, Typed, TypeOK
  <2>3. CASE Reconnect(q)
    BY <2>3, EmitIs DEF Reconnect
  <2> QED
    BY <2>1, <2>2, <2>3 DEF OfGateway
<1>4. MoreHeard(p)
  <2>1. CASE EmitPresence
    <3>1. PICK e \in Event :
            /\ e.type = "presence" /\ e.profiles = online'
            /\ down'[p] = IF p \in inRoom' /\ p \in Listening THEN down[p] \o <<e>> ELSE down[p]
      BY <1>0, <2>1, EmitPresenceIs
    <3>2. PICK told \in BOOLEAN : told <=> p \in inRoom'
      OBVIOUS
    <3>3. down'[p] = IF told /\ p \in Listening THEN down[p] \o <<e>> ELSE down[p]
      BY <3>1, <3>2
    <3>4. e.type # "waiting" /\ e.type = "presence"
      BY <3>1
    <3>5. queue' = queue
      BY <1>1 DEF server
    <3> QED
      BY <1>0, <3>1, <3>2, <3>3, <3>4, <3>5, HeardOne
  <2>2. CASE down'[p] = down[p] /\ online' = online
    BY <1>1, <2>2 DEF MoreHeard, server
  <2> QED
    BY <2>1, <2>2 DEF OfGateway, OnJoinRoom, OnLeaveRoom, Drop, Reconnect, gateway, Typed, TypeOK
<1> QED
  BY <1>0, <1>1, <1>2, <1>3, <1>4 DEF Untouched, Passed, server, Waits, Promoted, Told

(* A handler at work, when it is not p who is taken out of the line.       *)
Enters(s, p) ==
    /\ call[s].stage = "admit" /\ call[s].next = p /\ p \notin members /\ ~Full
    /\ Admit(s)

(* A handler at work, unless it takes p out of the line.                   *)
LEMMA OtherHandler ==
    ASSUME Typed, HandlersOK, NEW p \in Profiles, NEW s \in Slots, OfHandler(s), ~Enters(s, p)
    PROVE  Untouched(p) /\ Passed(p) /\ MoreHeard(p)
<1>0. /\ p \in Slots /\ p # Staff /\ RankIn(queue, p) \in Nat /\ down[p] \in Seq(Event)
      /\ call[s].stage \in {"admit", "tell"}
      /\ p = s => call[p].kind \in {"cancel", "leave"}
  BY SlotTypes, SameLine DEF OfHandler, Admit, Tell, HandlersOK
<1>1. /\ UNCHANGED <<gateway, connected, up, page, history, blocked>>
  BY DEF OfHandler, Admit, Tell, server, wires
<1>2. /\ call'[p].kind = call[p].kind /\ call'[p].rank = call[p].rank
      /\ \/ call'[p].stage = call[p].stage /\ call'[p].answer = call[p].answer
         \/ call[p].kind \in {"cancel", "leave"} /\ call[p].stage # "sent"
            /\ call'[p].stage # "sent"
      /\ Promoted(p)' => Promoted(p)
  <2>1. CASE Reply(s, "done")
    BY <1>0, <2>1, ReplyIs DEF CallIs, Promoted
  <2>2. CASE To(s, "tell")
    BY <1>0, <2>2, ToIs DEF CallIs, Promoted
  <2> QED
    BY <2>1, <2>2 DEF OfHandler, Admit, Tell
<1>3. CASE Admit(s)
  <2>1. PICK q : q = call[s].next
    OBVIOUS
  <2>2. Told(p) => Told(p)'
    <3>1. \A t \in Slots \ {s} : call'[t] = call[t]
      BY <1>3, ReplyIs, ToIs DEF Admit, CallIs
    <3> QED
      BY <1>3, <3>1 DEF Admit, Told
  <2>3. down' = down /\ online' = online /\ inRoom' = inRoom
    BY <1>1, <1>3 DEF Admit, wires, gateway
  <2>4. CASE UNCHANGED server
    <3>1. MoreHeard(p)
      BY <2>3, <2>4 DEF MoreHeard, server
    <3> QED
      BY <1>0, <1>1, <1>2, <2>2, <2>4, <3>1
         DEF Untouched, Passed, server, Waits, gateway, history
  <2>5. CASE /\ q \notin members /\ ~Full
             /\ members' = members \cup {q} /\ queue' = Without(queue, q)
    <3>1. p # q
      BY <1>3, <2>1, <2>5 DEF Enters, Admit
    <3>2. (Waits(p)' <=> Waits(p)) /\ (Waits(p) => RankIn(queue', p) \in Nat
                                                    /\ RankIn(queue', p) <= RankIn(queue, p))
      BY <2>5, <3>1, LineWithout
    <3>3. MoreHeard(p)
      BY <1>0, <2>3, <3>2, AtLeastLess DEF MoreHeard
    <3> QED
      BY <1>0, <1>1, <1>2, <2>2, <2>5, <3>1, <3>2, <3>3
         DEF Untouched, Passed, server, gateway, history
  <2> QED
    BY <1>3, <2>1, <2>4, <2>5 DEF Admit
<1>4. CASE Tell(s)
  <2>1. UNCHANGED server
    BY <1>4 DEF Tell
  <2>2. Told(p) /\ p \in Listening => Told(p)' \/ HasIn(down'[p], "admitted")
    <3>1. ASSUME Told(p), p \in Listening PROVE Told(p)' \/ HasIn(down'[p], "admitted")
      <4>1. PICK t \in Slots : call[t].stage = "tell" /\ call[t].next = p
        BY <3>1 DEF Told
      <4>2. CASE t = s
        BY <1>4, <3>1, <4>1, <4>2, TellIs
      <4>3. CASE t # s
        <5>1. call'[t] = call[t]
          BY <1>4, <4>1, <4>3, ReplyIs DEF Tell, CallIs
        <5> QED
          BY <4>1, <5>1 DEF Told
      <4> QED
        BY <4>2, <4>3
    <3> QED
      BY <3>1
  <2>3. MoreHeard(p)
    <3>1. queue' = queue /\ online' = online /\ inRoom' = inRoom
      BY <1>1, <2>1 DEF server, gateway
    <3>2. /\ p \notin Listening => down'[p] = down[p]
          /\ \A type : HasIn(down[p], type) => HasIn(down'[p], type)
          /\ HasIn(down'[p], "waiting") => HasIn(down[p], "waiting") \/ Contains(queue, p)
          /\ AtLeast(down[p], RankIn(queue, p)) => AtLeast(down'[p], RankIn(queue, p))
          /\ \A d : Ends(down[p], d, online) => Ends(down'[p], d, online)
      BY <1>4, TellIs
    <3> QED
      BY <3>1, <3>2 DEF MoreHeard, Waits
  <2> QED
    BY <1>0, <1>1, <1>2, <2>1, <2>2, <2>3
       DEF Untouched, Passed, server, Waits, gateway, history
<1> QED
  BY <1>3, <1>4 DEF OfHandler

(* A page, and what it cannot look like.                                   *)
PageOK(p) ==
    LET pg == page[p] IN
    /\ ~pg.open => down[p] = <<>> /\ pg.place = 0 /\ ~pg.attempted /\ ~pg.full
    /\ pg.room.seat = "unknown" => pg.room = Unknown /\ ~pg.attempted
    /\ IF pg.fetch = "read" THEN pg.read.seat # "unknown" ELSE pg.read = Unknown
    /\ pg.open /\ p \notin connected => pg.missed
    /\ p \in inRoom => p \in connected

(* What a socket carries to the server ends where the page is: in the room *)
(* when it shows the chat, and outside when it does not.                   *)
Wire(u, in, shows, here) ==
    /\ in /\ u # <<>> => u[1] = "LEAVE_ROOM"
    /\ \A i \in 1 .. Len(u) : i + 1 \in 1 .. Len(u) /\ u[i + 1] = "JOIN_ROOM" => u[i] = "LEAVE_ROOM"
    /\ ~shows => IF u = <<>> THEN ~in ELSE u[Len(u)] = "LEAVE_ROOM"
    /\ shows /\ here /\ u # <<>> => u[Len(u)] = "JOIN_ROOM"
    /\ ~here => \A i \in 1 .. Len(u) : u[i] = "LEAVE_ROOM"
WireOK(p) == Wire(up[p], p \in inRoom, ShowsChat(p), p \in connected)

(* The online list is who is in the room and who lost a connection, and    *)
(* the last one on its way to a page is the list of now.                   *)
OnlineOK == inRoom \subseteq online /\ online \ dropped \subseteq inRoom
ShownOK(p) ==
    ShowsChat(p) /\ p \in inRoom /\ up[p] = <<>> => Ends(down[p], page[p].shown, online)

(* Nobody waits beside his seat, but those who were given one so; and who  *)
(* is blocked has nothing left, nor is about to be promoted.               *)
RosterOK(p) ==
    p \notin twice =>
       /\ ~(p \in members /\ Waits(p))
       /\ p \in blocked => p \notin members /\ ~Waits(p) /\ ~Promoted(p)

(* A seat that was read and is gone was taken by a kick or given back.     *)
Left(p) == p \in blocked \/ (call[p].kind = "leave" /\ call[p].stage # "sent")
ReadOK(p) == page[p].open /\ page[p].read.seat = "yes" /\ p \notin members => Left(p)

(* A seat that the page does not show yet is being told of.                *)
Granted(p) ==
    /\ call[p].kind \in {"join", "enqueue"}
    /\ call[p].stage = "sent" \/ (call[p].stage = "answer" /\ call[p].answer = "seated")
SeatOK(p) ==
    p \in members \ blocked /\ InTouch(p) =>
      \/ page[p].fetch = "none" /\ Seat(p)
      \/ page[p].fetch = "sent"
      \/ page[p].fetch = "read" /\ (page[p].read.seat = "yes" \/ page[p].room = Unknown)
      \/ page[p].room.seat = "no" /\ ~page[p].attempted
      \/ Granted(p) \/ HasIn(down[p], "admitted") \/ Told(p)

(* Who has lost his seat and does not know it does not get another.        *)
StaleOK(p) ==
    p \notin twice /\ p \notin members /\ (Seat(p) \/ page[p].read.seat = "yes") =>
       /\ ~Waits(p) /\ ~Promoted(p)
       /\ call[p].kind \in {"join", "enqueue"} /\ call[p].stage = "sent" => p \in blocked

(* Who shows the chat and has not been let into the room has no seat.      *)
JoinOK(p) ==
    p \notin twice /\ ShowsChat(p) /\ p \in connected /\ up[p] = <<>> /\ p \notin inRoom
       => p \notin members

(* Who is in the room without a seat is going to find out.                 *)
GoneOK(p) ==
    p \in inRoom /\ p \notin members /\ ShowsChat(p) /\ up[p] = <<>> =>
       \/ page[p].fetch = "sent"
       \/ page[p].fetch = "read" /\ page[p].read.seat = "no"
       \/ HasIn(down[p], "member")
       \/ call[p].kind = "leave" /\ call[p].stage # "sent"

(* Who neither has a seat nor waits, and has not been removed, is not shown *)
(* a place, nor going to be, unless his page started from an old answer.   *)
Outside(p) == p \notin members /\ p \notin blocked /\ ~Waits(p)
Going(p) == call[p].kind \in {"cancel", "leave"}
OutsideOK(p) ==
    LET pg == page[p] IN
    /\ Outside(p) /\ pg.open /\ ~Going(p) =>
         /\ pg.read.rank = 0 /\ ~HasIn(down[p], "waiting")
         /\ pg.full /\ pg.place = 0 => pg.room.rank = 0
         /\ call[p].kind = "join" /\ call[p].rank = 0 => pg.room.rank = 0
         /\ ~pg.full => pg.place = 0
         /\ ~pg.kept => pg.place = 0 /\ pg.room.rank = 0 /\ call[p].rank = 0
    /\ Outside(p) /\ call[p].kind = "enqueue" =>
         pg.room.rank = 0 /\ pg.place = 0 /\ pg.read.rank = 0

(* No place that is shown, stored or on its way is smaller than the real   *)
(* one.                                                                    *)
AtMost(p, n) == n # 0 => RankIn(queue, p) <= n
HonestOK(p) ==
    Waits(p) =>
       /\ AtMost(p, page[p].place) /\ AtMost(p, page[p].room.rank)
       /\ AtMost(p, page[p].read.rank) /\ AtMost(p, call[p].rank)
       /\ AtLeast(down[p], RankIn(queue, p))

-----------------------------------------------------------------------------
(* What others do leaves all this as it is.                                *)

(* What a page shows is its own matter.                                    *)
LEMMA UntouchedViews ==
    ASSUME NEW p \in Profiles, Untouched(p)
    PROVE  (ShowsChat(p)' <=> ShowsChat(p)) /\ (Seat(p)' <=> Seat(p))
           /\ (InTouch(p)' <=> InTouch(p))
  BY DEF Untouched, ShowsChat, Seat, InTouch

(* What others do leaves a page, its wire and its list of who is online    *)
(* right.                                                                  *)
LEMMA OthersPage ==
    ASSUME NEW p \in Profiles, Untouched(p), Passed(p), MoreHeard(p)
    PROVE  /\ PageOK(p) => PageOK(p)'
           /\ WireOK(p) => WireOK(p)'
           /\ PageOK(p) /\ ShownOK(p) => ShownOK(p)'
<1>1. /\ page'[p] = page[p] /\ up'[p] = up[p]
      /\ p \in inRoom' <=> p \in inRoom
      /\ p \in connected' <=> p \in connected
  BY DEF Untouched
<1>2. PageOK(p) => PageOK(p)'
  BY <1>1 DEF PageOK, MoreHeard, Listening
<1>3. WireOK(p) => WireOK(p)'
  BY <1>1 DEF WireOK, Wire, ShowsChat, Seat
<1>4. PageOK(p) /\ ShownOK(p) => ShownOK(p)'
  BY <1>1 DEF PageOK, ShownOK, ShowsChat, Seat, MoreHeard, Listening
<1> QED
  BY <1>2, <1>3, <1>4

(* What others do leaves the conjuncts about the seat.                     *)
LEMMA OthersSeat ==
    ASSUME Typed, NEW p \in Profiles, Untouched(p), Passed(p), MoreHeard(p)
    PROVE  /\ RosterOK(p) => RosterOK(p)'
           /\ ReadOK(p) => ReadOK(p)'
           /\ SeatOK(p) => SeatOK(p)'
           /\ StaleOK(p) => StaleOK(p)'
           /\ JoinOK(p) => JoinOK(p)'
           /\ GoneOK(p) => GoneOK(p)'
<1>1. /\ page'[p] = page[p] /\ up'[p] = up[p]
      /\ p \in inRoom' <=> p \in inRoom
      /\ p \in connected' <=> p \in connected
      /\ p \in members' <=> p \in members
      /\ p \in blocked' <=> p \in blocked
      /\ p \in twice' <=> p \in twice
  BY DEF Untouched
<1>2. /\ ShowsChat(p)' <=> ShowsChat(p)
      /\ Seat(p)' <=> Seat(p)
      /\ InTouch(p)' <=> InTouch(p)
      /\ InTouch(p) => p \in Listening
  BY <1>1 DEF ShowsChat, Seat, InTouch, Listening
<1>3. /\ Waits(p)' <=> Waits(p)
      /\ Promoted(p)' => Promoted(p) \/ Waits(p)
      /\ Told(p) /\ p \in Listening => Told(p)' \/ HasIn(down'[p], "admitted")
      /\ \A type : HasIn(down[p], type) => HasIn(down'[p], type)
  BY DEF Passed, MoreHeard
<1>4. RosterOK(p) => RosterOK(p)'
  BY <1>1, <1>3 DEF RosterOK
<1>5. ReadOK(p) => ReadOK(p)'
  BY <1>1 DEF ReadOK, Left, Untouched
<1>6. SeatOK(p) => SeatOK(p)'
  <2>1. Granted(p) => Granted(p)'
    BY DEF Untouched, Granted
  <2> QED
    BY <1>1, <1>2, <1>3, <2>1 DEF SeatOK
<1>7. StaleOK(p) => StaleOK(p)'
  <2>1. call'[p].kind \in {"join", "enqueue"} /\ call'[p].stage = "sent"
        => call[p].kind \in {"join", "enqueue"} /\ call[p].stage = "sent"
    BY DEF Untouched
  <2> QED
    BY <1>1, <1>2, <1>3, <2>1 DEF StaleOK
<1>8. JoinOK(p) => JoinOK(p)'
  BY <1>1, <1>2 DEF JoinOK
<1>9. GoneOK(p) => GoneOK(p)'
  <2>1. call[p].kind = "leave" /\ call[p].stage # "sent"
        => call'[p].kind = "leave" /\ call'[p].stage # "sent"
    BY DEF Untouched
  <2> QED
    BY <1>1, <1>2, <1>3, <2>1 DEF GoneOK
<1> QED
  BY <1>4, <1>5, <1>6, <1>7, <1>8, <1>9

(* Places are numbers.                                                     *)
LEMMA PlaceTypes ==
    ASSUME Typed, NEW p \in Profiles
    PROVE  /\ page[p].place \in Nat /\ page[p].room.rank \in Nat /\ page[p].read.rank \in Nat
           /\ call[p].rank \in Nat /\ RankIn(queue, p) \in Nat
<1>1. Cardinality(Profiles) \in Nat
  BY FS_CardinalityType, SeatsAssumption
<1>2. \A n \in Places0 : n \in Nat
  BY <1>1 DEF Places0, Places1
<1>3. page[p] \in Page /\ call[p] \in Call
  BY SlotTypes
<1> QED
  BY <1>2, <1>3, PageTypes, SameLine DEF Call

(* What others do leaves the conjuncts about the place in line.            *)
LEMMA OthersPlace ==
    ASSUME Typed, Typed', NEW p \in Profiles, Untouched(p), Passed(p), MoreHeard(p)
    PROVE  /\ OutsideOK(p) => OutsideOK(p)'
           /\ HonestOK(p) => HonestOK(p)'
<1>1. /\ page'[p] = page[p]
      /\ p \in members' <=> p \in members
      /\ p \in blocked' <=> p \in blocked
      /\ call'[p].kind = call[p].kind /\ call'[p].rank = call[p].rank
      /\ Waits(p)' <=> Waits(p)
      /\ HasIn(down'[p], "waiting") => HasIn(down[p], "waiting") \/ Waits(p)
      /\ Waits(p) => RankIn(queue', p) <= RankIn(queue, p)
      /\ Waits(p) /\ AtLeast(down[p], RankIn(queue, p)) => AtLeast(down'[p], RankIn(queue', p))
  BY DEF Untouched, Passed, MoreHeard
<1>2. OutsideOK(p) => OutsideOK(p)'
  <2>1. (Outside(p)' <=> Outside(p)) /\ (Going(p)' <=> Going(p)) /\ (Outside(p) => ~Waits(p))
    BY <1>1 DEF Outside, Going
  <2> QED
    BY <1>1, <2>1 DEF OutsideOK
<1>3. HonestOK(p) => HonestOK(p)'
  <2>1. RankIn(queue', p) \in Nat
    <3>1. Cardinality(Profiles) \in Nat
      BY FS_CardinalityType, SeatsAssumption
    <3>2. RankIn(queue', p) \in Places0
      BY RankType DEF Typed, TypeOK
    <3> QED
      BY <3>1, <3>2 DEF Places0, Places1
  <2>2. ASSUME NEW n \in Nat, Waits(p), AtMost(p, n) PROVE n # 0 => RankIn(queue', p) <= n
    BY <1>1, <2>1, <2>2, PlaceTypes DEF AtMost
  <2> QED
    BY <1>1, <2>2, PlaceTypes DEF HonestOK, AtMost
<1> QED
  BY <1>2, <1>3

-----------------------------------------------------------------------------
(* The wire: the socket's signals and the room's channel.                  *)

(* What a socket sends.                                                    *)
Signal == {"JOIN_ROOM", "LEAVE_ROOM"}

(* What a page sends when the chat comes or goes, with or without a        *)
(* connection.                                                             *)
LEMMA WireSends ==
    ASSUME NEW u \in Seq(Signal), NEW in \in BOOLEAN, NEW here \in BOOLEAN
    PROVE  /\ Wire(u, in, TRUE, here) => Wire(Append(u, "LEAVE_ROOM"), in, FALSE, here)
           /\ Wire(u, in, FALSE, TRUE) => Wire(Append(u, "JOIN_ROOM"), in, TRUE, TRUE)
           /\ Wire(u, in, FALSE, FALSE) => Wire(u, in, TRUE, FALSE)
           /\ Wire(u, FALSE, TRUE, FALSE) => Wire(Append(u, "JOIN_ROOM"), FALSE, TRUE, TRUE)
           /\ Wire(u, FALSE, FALSE, FALSE) => Wire(u, FALSE, FALSE, TRUE)
<1>0. /\ Len(u) \in Nat
      /\ u # <<>> => Len(u) \in 1 .. Len(u) /\ 1 \in 1 .. Len(u)
      /\ u = <<>> => Len(u) = 0
  BY EmptySeq, LenProperties
<1>1. ASSUME NEW e \in Signal
      PROVE  /\ Append(u, e) # <<>> /\ Len(Append(u, e)) = Len(u) + 1
             /\ \A i \in 1 .. Len(u) : Append(u, e)[i] = u[i]
             /\ Append(u, e)[Len(u) + 1] = e
  BY AppendProperties
<1>2. \A i \in 1 .. Len(u) + 1 : i \in 1 .. Len(u) \/ i = Len(u) + 1
  BY <1>0
<1>3. \A i \in 1 .. Len(u) + 1 : i + 1 \in 1 .. Len(u) + 1 =>
          i \in 1 .. Len(u) /\ (i + 1 \in 1 .. Len(u) \/ i = Len(u))
  BY <1>0
<1>4. ASSUME Wire(u, in, TRUE, here) PROVE Wire(Append(u, "LEAVE_ROOM"), in, FALSE, here)
  <2>1. PICK t : t = Append(u, "LEAVE_ROOM")
    OBVIOUS
  <2>2. /\ t # <<>> /\ Len(t) = Len(u) + 1
        /\ \A i \in 1 .. Len(u) : t[i] = u[i]
        /\ t[Len(u) + 1] = "LEAVE_ROOM"
    BY <1>1, <2>1 DEF Signal
  <2>3. Wire(t, in, FALSE, here)
    <3>1. in => t[1] = "LEAVE_ROOM"
      BY <1>0, <1>4, <2>2 DEF Wire
    <3>2. \A i \in 1 .. Len(t) :
            i + 1 \in 1 .. Len(t) /\ t[i + 1] = "JOIN_ROOM" => t[i] = "LEAVE_ROOM"
      BY <1>0, <1>3, <1>4, <2>2 DEF Wire
    <3>3. t[Len(t)] = "LEAVE_ROOM"
      BY <2>2
    <3>4. ~here => \A i \in 1 .. Len(t) : t[i] = "LEAVE_ROOM"
      BY <1>2, <1>4, <2>2 DEF Wire
    <3> QED
      BY <2>2, <3>1, <3>2, <3>3, <3>4 DEF Wire
  <2> QED
    BY <2>1, <2>3
<1>5. ASSUME NEW x \in BOOLEAN, u = <<>> => ~x,
             x /\ u # <<>> => u[1] = "LEAVE_ROOM", u # <<>> => u[Len(u)] = "LEAVE_ROOM",
             \A i \in 1 .. Len(u) :
               i + 1 \in 1 .. Len(u) /\ u[i + 1] = "JOIN_ROOM" => u[i] = "LEAVE_ROOM"
      PROVE  Wire(Append(u, "JOIN_ROOM"), x, TRUE, TRUE)
  <2>1. PICK t : t = Append(u, "JOIN_ROOM")
    OBVIOUS
  <2>2. /\ t # <<>> /\ Len(t) = Len(u) + 1
        /\ \A i \in 1 .. Len(u) : t[i] = u[i]
        /\ t[Len(u) + 1] = "JOIN_ROOM"
    BY <1>1, <2>1 DEF Signal
  <2>3. Wire(t, x, TRUE, TRUE)
    <3>1. x => t[1] = "LEAVE_ROOM"
      BY <1>0, <1>5, <2>2
    <3>2. \A i \in 1 .. Len(t) :
            i + 1 \in 1 .. Len(t) /\ t[i + 1] = "JOIN_ROOM" => t[i] = "LEAVE_ROOM"
      BY <1>0, <1>3, <1>5, <2>2
    <3>3. t[Len(t)] = "JOIN_ROOM"
      BY <2>2
    <3> QED
      BY <2>2, <3>1, <3>2, <3>3 DEF Wire
  <2> QED
    BY <2>1, <2>3
<1>6. ASSUME Wire(u, in, FALSE, TRUE) PROVE Wire(Append(u, "JOIN_ROOM"), in, TRUE, TRUE)
  <2>1. /\ u = <<>> => ~in
        /\ in /\ u # <<>> => u[1] = "LEAVE_ROOM"
        /\ u # <<>> => u[Len(u)] = "LEAVE_ROOM"
        /\ \A i \in 1 .. Len(u) :
             i + 1 \in 1 .. Len(u) /\ u[i + 1] = "JOIN_ROOM" => u[i] = "LEAVE_ROOM"
    BY <1>6 DEF Wire
  <2> QED
    BY <1>5, <2>1
<1>7. ASSUME Wire(u, FALSE, TRUE, FALSE) PROVE Wire(Append(u, "JOIN_ROOM"), FALSE, TRUE, TRUE)
  <2>1. /\ u # <<>> => u[Len(u)] = "LEAVE_ROOM"
        /\ \A i \in 1 .. Len(u) :
             i + 1 \in 1 .. Len(u) /\ u[i + 1] = "JOIN_ROOM" => u[i] = "LEAVE_ROOM"
    BY <1>0, <1>7 DEF Wire
  <2> QED
    BY <1>5, <2>1
<1> QED
  BY <1>4, <1>6, <1>7 DEF Wire

(* What is left when the server has taken the first signal.                *)
LEMMA WireTaken ==
    ASSUME NEW u \in Seq(Signal), u # <<>>, NEW in \in BOOLEAN, NEW shows \in BOOLEAN,
           Wire(u, in, shows, TRUE)
    PROVE  /\ u[1] = "JOIN_ROOM" => ~in /\ \A x \in BOOLEAN : Wire(Tail(u), x, shows, TRUE)
           /\ u[1] = "LEAVE_ROOM" => Wire(Tail(u), FALSE, shows, TRUE)
<1>1. PICK t : t = Tail(u)
  OBVIOUS
<1>a. /\ Len(u) \in Nat \ {0} /\ t \in Seq(Signal) /\ Len(t) = Len(u) - 1
      /\ \A i \in 1 .. Len(t) : t[i] = u[i + 1]
  BY <1>1, EmptySeq, HeadTailProperties
<1>b. Len(t) \in Nat /\ (t = <<>> <=> Len(t) = 0)
  BY <1>a, EmptySeq, LenProperties
<1>2. /\ Len(u) \in Nat \ {0} /\ t \in Seq(Signal) /\ Len(t) = Len(u) - 1
      /\ \A i \in 1 .. Len(t) : t[i] = u[i + 1]
      /\ t # <<>> => Len(t) \in Nat \ {0}
      /\ t = <<>> => Len(u) = 1
  BY <1>a, <1>b
<1>3. /\ \A i \in 1 .. Len(t) : i + 1 \in 1 .. Len(u)
      /\ \A i \in 1 .. Len(t) : i + 1 \in 1 .. Len(t) => i + 1 + 1 \in 1 .. Len(u)
      /\ 1 \in 1 .. Len(u)
      /\ t # <<>> => 1 \in 1 .. Len(t) /\ 2 \in 1 .. Len(u) /\ Len(t) \in 1 .. Len(t)
                     /\ Len(t) + 1 = Len(u) /\ 1 + 1 = 2
  BY <1>2
<1>4. \A i \in 1 .. Len(t) : i + 1 \in 1 .. Len(t) /\ t[i + 1] = "JOIN_ROOM" => t[i] = "LEAVE_ROOM"
  BY <1>2, <1>3 DEF Wire
<1>5. t # <<>> => t[Len(t)] = u[Len(u)] /\ t[1] = u[2] /\ t[1] \in Signal
  BY <1>2, <1>3, ElementOfSeq
<1>6. shows /\ t # <<>> => t[Len(t)] = "JOIN_ROOM"
  BY <1>5 DEF Wire
<1>7. ~shows => u[Len(u)] = "LEAVE_ROOM"
  BY DEF Wire
<1>8. ASSUME u[1] = "JOIN_ROOM" PROVE ~in /\ \A x \in BOOLEAN : Wire(t, x, shows, TRUE)
  <2>1. ~in
    BY <1>8 DEF Wire
  <2>2. t # <<>> => t[1] = "LEAVE_ROOM"
    <3>1. ASSUME t # <<>>, u[2] = "JOIN_ROOM" PROVE FALSE
      <4>1. u[1 + 1] = "JOIN_ROOM" /\ 1 + 1 \in 1 .. Len(u)
        BY <1>3, <3>1
      <4> QED
        BY <1>3, <1>8, <4>1 DEF Wire
    <3> QED
      BY <1>5, <3>1 DEF Signal
  <2>3. ~shows => t # <<>>
    BY <1>2, <1>7, <1>8
  <2> QED
    BY <1>4, <1>5, <1>6, <1>7, <2>1, <2>2, <2>3 DEF Wire
<1>9. ASSUME u[1] = "LEAVE_ROOM" PROVE Wire(t, FALSE, shows, TRUE)
  BY <1>4, <1>5, <1>6, <1>7 DEF Wire
<1> QED
  BY <1>1, <1>8, <1>9

(* The steps that leave p's view of the room, and his socket.              *)
KeepsRoom(p) ==
    /\ page'[p].open = page[p].open /\ page'[p].room = page[p].room /\ up'[p] = up[p]
    /\ UNCHANGED <<online, inRoom, connected, dropped>>

(* Most of what a page does leaves its view of the room and its socket.    *)
LEMMA OwnKeepsRoom ==
    ASSUME Typed, NEW p \in Profiles,
           \/ ReadRoom(p) \/ AutoJoin(p) \/ JoinQueue(p) \/ LeaveQueue(p) \/ LeaveRoom(p)
           \/ JoinAnswered(p) \/ JoinQueueAnswered(p) \/ Hear(p)
    PROVE  KeepsRoom(p)
<1>1. UNCHANGED <<online, inRoom, connected, dropped, up>>
  BY DEF ReadRoom, AutoJoin, JoinQueue, LeaveQueue, LeaveRoom, JoinAnswered, JoinQueueAnswered,
         Hear, gateway, wires, history
<1>2. page'[p].open = page[p].open /\ page'[p].room = page[p].room
  <2>1. CASE ReadRoom(p)
    BY <2>1, ReadRoomIs DEF PageIs, Fields
  <2>2. CASE AutoJoin(p)
    BY <2>2, AutoJoinIs DEF PageIs, Fields
  <2>3. CASE JoinQueue(p) \/ LeaveQueue(p) \/ LeaveRoom(p)
    BY <2>3 DEF JoinQueue, LeaveQueue, LeaveRoom
  <2>4. CASE JoinAnswered(p)
    BY <2>4, JoinAnsweredIs DEF PageIs, Fields
  <2>5. CASE JoinQueueAnswered(p)
    BY <2>5, JoinQueueAnsweredIs DEF PageIs, Fields
  <2>6. CASE Hear(p)
    BY <2>6, HearIs, EventTypes DEF HeardIs, PageIs, Fields
  <2> QED
    BY <2>1, <2>2, <2>3, <2>4, <2>5, <2>6
<1> QED
  BY <1>1, <1>2 DEF KeepsRoom

(* So does what the server does.                                           *)
LEMMA ServerKeepsRoom ==
    ASSUME NEW p \in Profiles, OfServer(p) \/ \E s \in Slots : Admit(s)
    PROVE  KeepsRoom(p) /\ page' = page
  BY DEF KeepsRoom, OfServer, ServeJoin, ServeEnqueue, ServeCancel, ServeLeave, Kick, Vacate,
         Admit, gateway, wires, history

(* Every step of p's own keeps his wire.                                   *)
LEMMA WireStep ==
    ASSUME Typed, HandlersOK, NEW p \in Profiles, PageOK(p), WireOK(p),
           OfPage(p) \/ OfServer(p) \/ OfGateway(p) \/ \E s \in Slots : Admit(s)
    PROVE  WireOK(p)'
<1>0. up[p] \in Seq(Signal) /\ (p \in inRoom => p \in connected)
  BY SlotTypes DEF Signal, PageOK
<1>a. PICK u : u = up[p]
  OBVIOUS
<1>b. PICK v : v = up'[p]
  OBVIOUS
<1>c. PICK in \in BOOLEAN : in <=> p \in inRoom
  OBVIOUS
<1>d. PICK shows \in BOOLEAN : shows <=> ShowsChat(p)
  OBVIOUS
<1>e. PICK here \in BOOLEAN : here <=> p \in connected
  OBVIOUS
<1>f. PICK inN \in BOOLEAN : inN <=> p \in inRoom'
  OBVIOUS
<1>g. PICK showsN \in BOOLEAN : showsN <=> ShowsChat(p)'
  OBVIOUS
<1>h. PICK hereN \in BOOLEAN : hereN <=> p \in connected'
  OBVIOUS
<1>i. Wire(u, in, shows, here) /\ u \in Seq(Signal) /\ (in => here)
  BY <1>0, <1>a, <1>c, <1>d, <1>e DEF WireOK, Wire
<1>j. Wire(v, inN, showsN, hereN) => WireOK(p)'
  BY <1>b, <1>f, <1>g, <1>h DEF WireOK, Wire
<1>k. /\ Wire(u, in, TRUE, here) => Wire(Append(u, "LEAVE_ROOM"), in, FALSE, here)
      /\ Wire(u, in, FALSE, TRUE) => Wire(Append(u, "JOIN_ROOM"), in, TRUE, TRUE)
      /\ Wire(u, in, FALSE, FALSE) => Wire(u, in, TRUE, FALSE)
      /\ Wire(u, FALSE, TRUE, FALSE) => Wire(Append(u, "JOIN_ROOM"), FALSE, TRUE, TRUE)
      /\ Wire(u, FALSE, FALSE, FALSE) => Wire(u, FALSE, FALSE, TRUE)
  BY <1>i, WireSends
<1>l. u # <<>> /\ here =>
        /\ u[1] = "JOIN_ROOM" => ~in /\ \A x \in BOOLEAN : Wire(Tail(u), x, shows, TRUE)
        /\ u[1] = "LEAVE_ROOM" => Wire(Tail(u), FALSE, shows, TRUE)
  <2>1. SUFFICES ASSUME u # <<>>, here
                 PROVE /\ u[1] = "JOIN_ROOM" =>
                            ~in /\ \A x \in BOOLEAN : Wire(Tail(u), x, shows, TRUE)
                       /\ u[1] = "LEAVE_ROOM" => Wire(Tail(u), FALSE, shows, TRUE)
    OBVIOUS
  <2>2. Wire(u, in, shows, TRUE)
    BY <1>i, <2>1
  <2> QED
    BY <1>i, <2>1, <2>2, WireTaken
<1>m. /\ in <=> p \in inRoom
      /\ shows <=> ShowsChat(p)
      /\ here <=> p \in connected
      /\ inN <=> p \in inRoom'
      /\ showsN <=> ShowsChat(p)'
      /\ hereN <=> p \in connected'
      /\ u = up[p] /\ v = up'[p]
  BY <1>a, <1>b, <1>c, <1>d, <1>e, <1>f, <1>g, <1>h
<1>1. CASE KeepsRoom(p)
  BY <1>1 DEF KeepsRoom, WireOK, Wire, ShowsChat, Seat
<1>2. CASE ShowRoom(p)
  <2>1. /\ page'[p].open = page[p].open /\ page'[p].room = page[p].read
        /\ UNCHANGED <<inRoom, connected>>
    BY <1>2, ShowRoomIs DEF ShowRoom, PageIs, Fields, gateway
  <2>2. ShowsChat(p)' <=> page[p].open /\ page[p].read.seat = "yes"
    BY <2>1 DEF ShowsChat, Seat
  <2>3. CASE ~ShowsChat(p) /\ ShowsChat(p)' /\ p \in connected /\ Emit(p, "JOIN_ROOM")
    <3>1. up'[p] = Append(up[p], "JOIN_ROOM")
      BY <2>3, EmitIs
    <3> QED
      BY <1>0, <2>1, <2>3, <3>1, <1>i, <1>j, <1>k, <1>m
  <2>4. CASE ShowsChat(p) /\ ~ShowsChat(p)' /\ Emit(p, "LEAVE_ROOM")
    <3>1. up'[p] = Append(up[p], "LEAVE_ROOM")
      BY <2>4, EmitIs
    <3> QED
      BY <1>0, <2>1, <2>4, <3>1, <1>i, <1>j, <1>k, <1>m
  <2>5. CASE (ShowsChat(p)' <=> ShowsChat(p)) /\ UNCHANGED up
    BY <2>1, <2>5, <1>i, <1>j, <1>m
  <2>6. CASE ShowsChat(p)' /\ ~ShowsChat(p) /\ p \notin connected /\ UNCHANGED up
    BY <1>0, <2>1, <2>6, <1>i, <1>j, <1>k, <1>m
  <2> QED
    BY <1>2, <2>2, <2>3, <2>4, <2>5, <2>6 DEF ShowRoom, ShowsChat
<1>3. CASE Open(p)
  <2>1. ~ShowsChat(p) /\ UNCHANGED <<inRoom, connected>>
    BY <1>3 DEF Open, ShowsChat, gateway
  <2>2. CASE /\ PageIs(p, TRUE, Unknown, "sent", Unknown, FALSE, FALSE, FALSE, 0, {}, FALSE,
                        p \notin connected)
             /\ UNCHANGED up
    <3>1. ~ShowsChat(p)'
      BY <2>2, ViewTypes DEF ShowsChat, Seat, PageIs, Fields
    <3> QED
      BY <2>1, <2>2, <3>1, <1>i, <1>j, <1>m
  <2>3. CASE /\ page'[p].open /\ page'[p].room = page[p].room
             /\ IF Seat(p) /\ p \in connected THEN Emit(p, "JOIN_ROOM") ELSE UNCHANGED up
    <3>1. ShowsChat(p)' <=> Seat(p)
      BY <2>3 DEF ShowsChat, Seat
    <3>2. CASE Seat(p) /\ p \in connected
      <4>1. up'[p] = Append(up[p], "JOIN_ROOM")
        BY <2>3, <3>2, EmitIs
      <4> QED
        BY <1>0, <2>1, <3>1, <3>2, <4>1, <1>i, <1>j, <1>k, <1>m
    <3>3. CASE Seat(p) /\ p \notin connected
      BY <1>0, <2>1, <2>3, <3>1, <3>3, <1>i, <1>j, <1>k, <1>m
    <3>4. CASE ~Seat(p)
      BY <2>1, <2>3, <3>1, <3>4, <1>i, <1>j, <1>m
    <3> QED
      BY <3>2, <3>3, <3>4
  <2> QED
    BY <1>3, <2>2, <2>3, OpenIs DEF PageIs, Fields
<1>4. CASE Close(p) \/ LeaveQueueAnswered(p) \/ LeaveAnswered(p)
  <2>1. UNCHANGED <<inRoom, connected>>
    BY <1>4 DEF Close, LeaveQueueAnswered, LeaveAnswered, gateway
  <2>2. ~ShowsChat(p)'
    <3>1. ~page'[p].open
      BY <1>4, ClosesIs DEF PageIs, Fields
    <3> QED
      BY <3>1 DEF ShowsChat
  <2>3. CASE ShowsChat(p)
    <3>1. up'[p] = Append(up[p], "LEAVE_ROOM")
      BY <1>4, <2>3, ClosesIs, EmitIs
    <3> QED
      BY <1>0, <2>1, <2>2, <2>3, <3>1, <1>i, <1>j, <1>k, <1>m
  <2>4. CASE ~ShowsChat(p)
    <3>1. UNCHANGED up
      BY <1>4, <2>4, ClosesIs
    <3> QED
      BY <2>1, <2>2, <2>4, <3>1, <1>i, <1>j, <1>m
  <2> QED
    BY <2>3, <2>4
<1>5. CASE OnJoinRoom(p) \/ OnLeaveRoom(p)
  <2>1. up[p] # <<>> /\ up'[p] = Tail(up[p]) /\ p \in connected /\ up[p][1] = Head(up[p])
    BY <1>0, <1>5, TakenIs DEF OnJoinRoom, OnLeaveRoom
  <2>2. UNCHANGED <<page, connected>> /\ (ShowsChat(p)' <=> ShowsChat(p))
    BY <1>5 DEF OnJoinRoom, OnLeaveRoom, ShowsChat, Seat
  <2>3. CASE OnJoinRoom(p)
    <3>1. up[p][1] = "JOIN_ROOM"
      BY <2>1, <2>3 DEF OnJoinRoom
    <3> QED
      BY <1>0, <2>1, <2>2, <3>1, <1>i, <1>j, <1>l, <1>m
  <2>4. CASE OnLeaveRoom(p)
    <3>1. up[p][1] = "LEAVE_ROOM" /\ p \notin inRoom'
      BY <2>1, <2>4 DEF OnLeaveRoom
    <3> QED
      BY <1>0, <2>1, <2>2, <3>1, <1>i, <1>j, <1>l, <1>m
  <2> QED
    BY <1>5, <2>3, <2>4
<1>6. CASE Drop(p)
  <2>1. up'[p] = <<>> /\ p \notin inRoom' /\ p \notin connected'
    BY <1>6 DEF Drop, Typed, TypeOK
  <2>2. Len(<<>>) = 0
    BY EmptySeq
  <2> QED
    BY <2>1, <2>2 DEF WireOK, Wire
<1>7. CASE Reconnect(p)
  <2>1. /\ p \notin connected /\ p \in connected' /\ p \notin inRoom /\ UNCHANGED <<inRoom, page>>
        /\ ShowsChat(p)' <=> ShowsChat(p)
    BY <1>0, <1>7 DEF Reconnect, gateway, ShowsChat, Seat
  <2>2. CASE ShowsChat(p)
    <3>1. up'[p] = Append(up[p], "JOIN_ROOM")
      BY <1>7, <2>2, EmitIs DEF Reconnect
    <3> QED
      BY <1>0, <2>1, <2>2, <3>1, <1>i, <1>j, <1>k, <1>m
  <2>3. CASE ~ShowsChat(p)
    <3>1. up' = up
      BY <1>7, <2>3 DEF Reconnect
    <3> QED
      BY <1>0, <2>1, <2>3, <3>1, <1>i, <1>j, <1>k, <1>m
  <2> QED
    BY <2>2, <2>3
<1> QED
  BY <1>1, <1>2, <1>3, <1>4, <1>5, <1>6, <1>7, OwnKeepsRoom, ServerKeepsRoom
     DEF OfPage, OfGateway

-----------------------------------------------------------------------------
(* A page that can be.                                                     *)

(* What the server sends to the room on p's behalf.                        *)
LEMMA ServerHears ==
    ASSUME Typed, NEW p \in Profiles, OfServer(p)
    PROVE  \/ down'[p] = down[p] /\ (p \in members => p \in members')
           \/ \E e \in Event :
                /\ e.type = "member"
                /\ down'[p] = IF p \in inRoom /\ p \in Listening THEN down[p] \o <<e>> ELSE down[p]
<1> DEFINE Tells == \E e \in Event :
              /\ e.type = "member"
              /\ down'[p] = IF p \in inRoom /\ p \in Listening THEN down[p] \o <<e>> ELSE down[p]
<1>1. ASSUME NEW line, Seats(p, line) PROVE Tells
  BY <1>1, SeatsIs
<1>2. ASSUME NEW s \in Slots, Vacate(s, p) PROVE Tells
  BY <1>2, VacateIs
<1>3. CASE ServeJoin(p)
  BY <1>1, <1>3 DEF ServeJoin, server
<1>4. CASE ServeEnqueue(p)
  BY <1>1, <1>4 DEF ServeEnqueue, server
<1>5. CASE ServeCancel(p)
  BY <1>5 DEF ServeCancel, wires
<1>6. CASE ServeLeave(p) \/ Kick(p)
  BY <1>2, <1>6 DEF ServeLeave, Kick, Slots
<1> QED
  BY <1>3, <1>4, <1>5, <1>6 DEF OfServer

(* What a page does keeps it a page that can be.                           *)
LEMMA PageOKOwn ==
    ASSUME Typed, NEW p \in Profiles, PageOK(p), OfPage(p)
    PROVE  PageOK(p)'
<1>1. UNCHANGED <<inRoom, connected>>
  BY DEF OfPage, ReadRoom, ShowRoom, Open, Close, AutoJoin, JoinQueue, LeaveQueue, LeaveRoom,
         JoinAnswered, JoinQueueAnswered, LeaveQueueAnswered, LeaveAnswered, Hear, gateway, wires
<1>2. /\ page[p].open \in BOOLEAN /\ page[p].attempted \in BOOLEAN /\ page[p].full \in BOOLEAN
      /\ page[p].missed \in BOOLEAN
  BY SlotTypes, PageTypes
<1>3. CASE ReadRoom(p)
  <2>1. UNCHANGED down
    BY <1>3 DEF ReadRoom, wires
  <2>2. PICK v : v = [seat |-> IF p \in members THEN "yes" ELSE "no", rank |-> RankIn(queue, p)]
    OBVIOUS
  <2>3. v.seat # "unknown"
    BY <2>2
  <2>4. PageIs(p, page[p].open, page[p].room, "read", v, page[p].invalid, page[p].attempted,
               page[p].full, page[p].place, page[p].shown, page[p].kept, page[p].missed)
    BY <1>3, <2>2, ReadRoomIs
  <2> QED
    BY <1>1, <1>2, <2>1, <2>3, <2>4 DEF PageOK, PageIs, Fields
<1>4. CASE ShowRoom(p)
  <2>1. UNCHANGED down /\ page[p].fetch = "read"
    BY <1>4 DEF ShowRoom
  <2>2. page[p].read.seat # "unknown"
    BY <2>1 DEF PageOK
  <2> QED
    BY <1>1, <1>2, <1>4, <2>1, <2>2, ShowRoomIs DEF PageOK, PageIs, Fields
<1>5. CASE Open(p)
  <2>1. UNCHANGED down
    BY <1>5 DEF Open
  <2>2. CASE PageIs(p, TRUE, Unknown, "sent", Unknown, FALSE, FALSE, FALSE, 0, {}, FALSE,
                    p \notin connected)
    BY <1>1, <2>2, ViewTypes DEF PageOK, PageIs, Fields
  <2>3. ASSUME NEW fetch \in {"none", "sent"},
               PageIs(p, TRUE, page[p].room, fetch, Unknown, FALSE, FALSE, FALSE, 0, {}, TRUE,
                      page[p].missed \/ p \notin connected)
        PROVE  PageOK(p)'
    BY <1>1, <2>3 DEF PageOK, PageIs, Fields
  <2> QED
    BY <1>5, <2>2, <2>3, OpenIs
<1>6. CASE Close(p) \/ LeaveQueueAnswered(p) \/ LeaveAnswered(p)
  <2>1. PICK again \in BOOLEAN :
           PageIs(p, FALSE, page[p].room, IF again THEN "sent" ELSE page[p].fetch,
                  IF again THEN Unknown ELSE page[p].read, page'[p].invalid, FALSE, FALSE, 0,
                  {}, FALSE, page[p].missed)
    BY <1>6, ClosesIs
  <2>2. down'[p] = <<>>
    BY <1>6, ClosesIs DEF Typed, TypeOK
  <2> QED
    BY <1>1, <2>1, <2>2 DEF PageOK, PageIs, Fields
<1>7. CASE AutoJoin(p)
  <2>1. UNCHANGED down /\ page[p].open /\ page[p].room.seat = "no"
    BY <1>7 DEF AutoJoin, wires
  <2> QED
    BY <1>1, <1>7, <2>1, AutoJoinIs DEF PageOK, PageIs, Fields
<1>8. CASE JoinQueue(p) \/ LeaveQueue(p) \/ LeaveRoom(p)
  <2>1. UNCHANGED <<down, page>>
    BY <1>8 DEF JoinQueue, LeaveQueue, LeaveRoom, wires
  <2> QED
    BY <1>1, <2>1 DEF PageOK
<1>9. CASE JoinAnswered(p)
  <2>1. UNCHANGED down
    BY <1>9 DEF JoinAnswered, wires
  <2>2. CASE call[p].answer = "seated"
    BY <1>1, <1>2, <1>9, <2>1, <2>2, JoinAnsweredIs DEF PageOK, PageIs, Fields
  <2>3. CASE call[p].answer = "full" /\ page[p].open
    BY <1>1, <1>2, <1>9, <2>1, <2>3, JoinAnsweredIs DEF PageOK, PageIs, Fields
  <2>4. CASE call[p].answer # "seated" /\ ~(call[p].answer = "full" /\ page[p].open)
    BY <1>1, <1>9, <2>1, <2>4, JoinAnsweredIs DEF PageOK
  <2> QED
    BY <2>2, <2>3, <2>4
<1>10. CASE JoinQueueAnswered(p)
  <2>1. UNCHANGED down
    BY <1>10 DEF JoinQueueAnswered, wires
  <2>2. CASE call[p].answer = "seated"
    BY <1>1, <1>2, <1>10, <2>1, <2>2, JoinQueueAnsweredIs DEF PageOK, PageIs, Fields
  <2>3. CASE call[p].answer = "waiting" /\ page[p].open
    BY <1>1, <1>2, <1>10, <2>1, <2>3, JoinQueueAnsweredIs DEF PageOK, PageIs, Fields
  <2>4. CASE call[p].answer # "seated" /\ ~(call[p].answer = "waiting" /\ page[p].open)
    BY <1>1, <1>10, <2>1, <2>4, JoinQueueAnsweredIs DEF PageOK
  <2> QED
    BY <2>2, <2>3, <2>4
<1>11. CASE Hear(p)
  <2>1. page[p].open
    BY <1>11 DEF Hear, PageOK
  <2>2. PICK e \in Event, rest \in Seq(Event) : HeardIs(p, e, rest)
    BY <1>11, HearIs
  <2>3. CASE e.type \in {"member", "presence"} /\ ~ShowsChat(p)
    BY <1>1, <2>1, <2>2, <2>3 DEF HeardIs, PageOK
  <2>4. CASE e.type = "member" /\ ShowsChat(p)
    BY <1>1, <1>2, <2>1, <2>2, <2>4 DEF HeardIs, PageOK, PageIs, Fields
  <2>5. CASE e.type = "presence" /\ ShowsChat(p)
    BY <1>1, <1>2, <2>1, <2>2, <2>5 DEF HeardIs, PageOK, PageIs, Fields
  <2>6. CASE e.type = "waiting"
    BY <1>1, <1>2, <2>1, <2>2, <2>6 DEF HeardIs, PageOK, PageIs, Fields
  <2>7. CASE e.type = "admitted"
    BY <1>1, <1>2, <2>1, <2>2, <2>7 DEF HeardIs, PageOK, PageIs, Fields
  <2> QED
    BY <2>3, <2>4, <2>5, <2>6, <2>7, EventTypes
<1> QED
  BY <1>3, <1>4, <1>5, <1>6, <1>7, <1>8, <1>9, <1>10, <1>11 DEF OfPage

(* Every step of p's own does.                                             *)
LEMMA PageOKStep ==
    ASSUME Typed, HandlersOK, NEW p \in Profiles, PageOK(p),
           OfPage(p) \/ OfServer(p) \/ OfGateway(p) \/ \E s \in Slots : Admit(s)
    PROVE  PageOK(p)'
<1>1. CASE OfPage(p)
  BY <1>1, PageOKOwn
<1>2. CASE OfServer(p)
  <2>1. KeepsRoom(p) /\ page' = page
    BY <1>2, ServerKeepsRoom
  <2>2. ~page[p].open => down'[p] = down[p]
    BY <1>2, ServerHears DEF Listening
  <2> QED
    BY <2>1, <2>2 DEF PageOK, KeepsRoom
<1>3. CASE \E s \in Slots : Admit(s)
  <2>1. KeepsRoom(p) /\ page' = page /\ down' = down
    BY <1>3, ServerKeepsRoom DEF Admit, wires
  <2> QED
    BY <2>1 DEF PageOK, KeepsRoom
<1>4. CASE OnJoinRoom(p) \/ OnLeaveRoom(p)
  <2>1. UNCHANGED <<page, connected>> /\ p \in connected
    BY <1>4 DEF OnJoinRoom, OnLeaveRoom
  <2>2. ~page[p].open => down'[p] = down[p]
    <3>1. CASE UNCHANGED down
      BY <3>1
    <3>2. CASE EmitPresence
      <4>1. inRoom' \in SUBSET Profiles /\ online' \in SUBSET Profiles
        BY <1>4 DEF OnJoinRoom, OnLeaveRoom, Typed, TypeOK, gateway
      <4> QED
        BY <3>2, <4>1, EmitPresenceIs DEF Listening
    <3> QED
      BY <1>4, <3>1, <3>2 DEF OnJoinRoom, OnLeaveRoom
  <2> QED
    BY <2>1, <2>2 DEF PageOK
<1>5. CASE Drop(p)
  <2>1. p \notin inRoom' /\ down'[p] = <<>>
    BY <1>5 DEF Drop, Typed, TypeOK
  <2> QED
    BY <1>5, <2>1, DropIs DEF PageOK, PageIs, Fields
<1>6. CASE Reconnect(p)
  <2>1. UNCHANGED <<page, inRoom, down>> /\ p \in connected'
    BY <1>6 DEF Reconnect, gateway
  <2> QED
    BY <2>1 DEF PageOK
<1> QED
  BY <1>1, <1>2, <1>3, <1>4, <1>5, <1>6 DEF OfGateway

-----------------------------------------------------------------------------
(* The online set, and what a page's own step leaves.                      *)

(* Every step keeps the online set.                                        *)
LEMMA OnlineStep ==
    ASSUME OnlineOK, [Next]_vars
    PROVE  OnlineOK'
<1>1. CASE UNCHANGED <<online, inRoom, dropped>>
  BY <1>1 DEF OnlineOK
<1>2. ASSUME NEW p \in Profiles, OfPage(p) PROVE UNCHANGED <<online, inRoom, dropped>>
  BY <1>2 DEF OfPage, ReadRoom, ShowRoom, Open, Close, AutoJoin, JoinQueue, LeaveQueue, LeaveRoom,
         JoinAnswered, JoinQueueAnswered, LeaveQueueAnswered, LeaveAnswered, Hear, gateway, history
<1>3. ASSUME NEW p \in Profiles, OfServer(p) PROVE UNCHANGED <<online, inRoom, dropped>>
  BY <1>3, ServerKeepsRoom DEF KeepsRoom
<1>4. ASSUME NEW s \in Slots, OfHandler(s) PROVE UNCHANGED <<online, inRoom, dropped>>
  BY <1>4 DEF OfHandler, Admit, Tell, gateway, history
<1>5. ASSUME NEW p \in Profiles, OfGateway(p) PROVE OnlineOK'
  <2>1. CASE OnJoinRoom(p)
    BY <2>1 DEF OnJoinRoom, OnlineOK, gateway, history
  <2>2. CASE OnLeaveRoom(p)
    BY <2>2 DEF OnLeaveRoom, OnlineOK, history
  <2>3. CASE Drop(p)
    BY <2>3 DEF Drop, OnlineOK
  <2>4. CASE Reconnect(p)
    BY <1>1, <2>4 DEF Reconnect, gateway, history
  <2> QED
    BY <1>5, <2>1, <2>2, <2>3, <2>4 DEF OfGateway
<1>6. CASE UNCHANGED vars
  BY <1>1, <1>6 DEF vars, gateway, history
<1> QED
  BY <1>1, <1>2, <1>3, <1>4, <1>5, <1>6 DEF Next, Slots

(* The request a page makes or takes the answer of promotes nobody.        *)
LEMMA OwnCall ==
    ASSUME Typed, NEW p \in Profiles, OfPage(p)
    PROVE  /\ \/ UNCHANGED call
              \/ /\ call[p] = NoCall
                 /\ \E kind \in {"join", "enqueue", "cancel", "leave"} :
                      CallIs(p, kind, "sent", NoProfile, page[p].room.rank, "none")
              \/ call[p].stage = "answer" /\ CallIs(p, "none", "idle", NoProfile, 0, "none")
           /\ Promoted(p)' => Promoted(p)
           /\ Told(p) => Told(p)'
<1>1. ASSUME NEW kind \in {"join", "enqueue", "cancel", "leave"}, Request(p, kind)
      PROVE  call[p] = NoCall /\ CallIs(p, kind, "sent", NoProfile, page[p].room.rank, "none")
  BY <1>1, RequestIs
<1>2. ASSUME Done(p), Answered(p)
      PROVE  call[p].stage = "answer" /\ CallIs(p, "none", "idle", NoProfile, 0, "none")
  BY <1>2, DoneIs DEF Answered
<1>3. \/ UNCHANGED call
      \/ /\ call[p] = NoCall
         /\ \E kind \in {"join", "enqueue", "cancel", "leave"} :
              CallIs(p, kind, "sent", NoProfile, page[p].room.rank, "none")
      \/ call[p].stage = "answer" /\ CallIs(p, "none", "idle", NoProfile, 0, "none")
  <2>1. CASE ReadRoom(p) \/ ShowRoom(p) \/ Open(p) \/ Close(p) \/ Hear(p)
    BY <2>1 DEF ReadRoom, ShowRoom, Open, Close, Hear
  <2>2. CASE AutoJoin(p)
    BY <1>1, <2>2 DEF AutoJoin
  <2>3. CASE JoinQueue(p)
    BY <1>1, <2>3 DEF JoinQueue
  <2>4. CASE LeaveQueue(p)
    BY <1>1, <2>4 DEF LeaveQueue
  <2>5. CASE LeaveRoom(p)
    BY <1>1, <2>5 DEF LeaveRoom
  <2>6. CASE JoinAnswered(p) \/ JoinQueueAnswered(p) \/ LeaveQueueAnswered(p) \/ LeaveAnswered(p)
    BY <1>2, <2>6 DEF JoinAnswered, JoinQueueAnswered, LeaveQueueAnswered, LeaveAnswered
  <2> QED
    BY <2>1, <2>2, <2>3, <2>4, <2>5, <2>6 DEF OfPage
<1>4. \/ UNCHANGED call
      \/ /\ \A t \in Slots \ {p} : call'[t] = call[t]
         /\ call[p].stage \notin {"admit", "tell"} /\ call'[p].stage \notin {"admit", "tell"}
  BY <1>3, NoCallType DEF CallIs
<1>5. (Promoted(p)' => Promoted(p)) /\ (Told(p) => Told(p)')
  BY <1>4 DEF Promoted, Told
<1> QED
  BY <1>3, <1>5

(* A page changes nothing that the server has.                             *)
LEMMA OwnPageRoom ==
    ASSUME Typed, NEW p \in Profiles, OfPage(p)
    PROVE  /\ UNCHANGED <<members, queue, blocked, online, inRoom, connected, dropped, twice>>
           /\ Waits(p)' <=> Waits(p)
<1>1. UNCHANGED <<members, queue, blocked, online, inRoom, connected, dropped, twice>>
  BY DEF OfPage, ReadRoom, ShowRoom, Open, Close, AutoJoin, JoinQueue, LeaveQueue, LeaveRoom,
         JoinAnswered, JoinQueueAnswered, LeaveQueueAnswered, LeaveAnswered, Hear,
         server, gateway, wires, history
<1> QED
  BY <1>1 DEF Waits

(* What a step does to the data of the page's query.                       *)
Rereads(p) ==
    /\ page'[p].fetch = IF Again(page[p]) THEN "sent" ELSE page[p].fetch
    /\ page'[p].read = IF Again(page[p]) THEN Unknown ELSE page[p].read
(* The data of the query stays as it is.                                   *)
Kept(p) ==
    page'[p].fetch = page[p].fetch /\ page'[p].read = page[p].read

(* The steps of a page that leave its view of the room.                    *)
LEMMA OwnQuery ==
    ASSUME Typed, NEW p \in Profiles,
           \/ JoinQueue(p) \/ LeaveQueue(p) \/ LeaveRoom(p)
           \/ JoinAnswered(p) \/ JoinQueueAnswered(p) \/ Hear(p)
    PROVE  /\ page'[p].kept = page[p].kept /\ page'[p].missed = page[p].missed
           /\ page'[p].attempted = page[p].attempted
           /\ Kept(p) \/ Rereads(p)
<1>1. CASE page' = page
  BY <1>1 DEF Kept
<1>2. CASE JoinQueue(p) \/ LeaveQueue(p) \/ LeaveRoom(p)
  BY <1>1, <1>2 DEF JoinQueue, LeaveQueue, LeaveRoom
<1>3. CASE JoinAnswered(p)
  <2>1. CASE call[p].answer = "seated"
    BY <1>3, <2>1, JoinAnsweredIs DEF PageIs, Fields, Rereads
  <2>2. CASE call[p].answer = "full" /\ page[p].open
    BY <1>3, <2>2, JoinAnsweredIs DEF PageIs, Fields, Kept
  <2> QED
    BY <1>1, <1>3, <2>1, <2>2, JoinAnsweredIs
<1>4. CASE JoinQueueAnswered(p)
  <2>1. CASE call[p].answer = "seated"
    BY <1>4, <2>1, JoinQueueAnsweredIs DEF PageIs, Fields, Rereads
  <2>2. CASE call[p].answer = "waiting" /\ page[p].open
    BY <1>4, <2>2, JoinQueueAnsweredIs DEF PageIs, Fields, Kept
  <2> QED
    BY <1>1, <1>4, <2>1, <2>2, JoinQueueAnsweredIs
<1>5. CASE Hear(p)
  <2>1. PICK e \in Event, rest \in Seq(Event) : HeardIs(p, e, rest)
    BY <1>5, HearIs
  <2>2. CASE e.type \in {"member", "presence"} /\ ~ShowsChat(p)
    BY <1>1, <2>1, <2>2 DEF HeardIs
  <2>3. CASE e.type = "member" /\ ShowsChat(p)
    BY <2>1, <2>3 DEF HeardIs, PageIs, Fields, Rereads
  <2>4. CASE e.type = "presence" /\ ShowsChat(p)
    BY <2>1, <2>4 DEF HeardIs, PageIs, Fields, Kept
  <2>5. CASE e.type = "waiting"
    BY <2>1, <2>5 DEF HeardIs, PageIs, Fields, Kept
  <2>6. CASE e.type = "admitted"
    BY <2>1, <2>6 DEF HeardIs, PageIs, Fields, Rereads
  <2> QED
    BY <2>2, <2>3, <2>4, <2>5, <2>6, EventTypes
<1> QED
  BY <1>2, <1>3, <1>4, <1>5

-----------------------------------------------------------------------------
(* The green dots.                                                         *)

(* Nothing that was to tell a page of its seat is lost on it.              *)
LEMMA OwnNews ==
    ASSUME Typed, NEW p \in Profiles,
           \/ JoinQueue(p) \/ LeaveQueue(p) \/ LeaveRoom(p)
           \/ JoinAnswered(p) \/ JoinQueueAnswered(p) \/ Hear(p)
    PROVE  /\ Granted(p) => Granted(p)' \/ Rereads(p)
           /\ HasIn(down[p], "admitted") => HasIn(down'[p], "admitted") \/ Rereads(p)
           /\ HasIn(down[p], "member") /\ ShowsChat(p) => HasIn(down'[p], "member") \/ Rereads(p)
           /\ \A who : Ends(down[p], page[p].shown, who) /\ ShowsChat(p)
                         => Ends(down'[p], page'[p].shown, who)
<1>1. CASE JoinQueue(p) \/ LeaveQueue(p) \/ LeaveRoom(p)
  <2>1. UNCHANGED <<page, down>> /\ call[p] = NoCall
    BY <1>1 DEF JoinQueue, LeaveQueue, LeaveRoom, wires, Request
  <2> QED
    BY <2>1, NoCallType DEF Granted
<1>2. CASE JoinAnswered(p)
  <2>1. UNCHANGED down /\ call[p].stage = "answer"
    BY <1>2 DEF JoinAnswered, wires, Answered
  <2>2. page'[p].shown = page[p].shown
    <3>1. CASE call[p].answer = "seated"
      BY <1>2, <3>1, JoinAnsweredIs DEF PageIs, Fields
    <3>2. CASE call[p].answer = "full" /\ page[p].open
      BY <1>2, <3>2, JoinAnsweredIs DEF PageIs, Fields
    <3> QED
      BY <1>2, <3>1, <3>2, JoinAnsweredIs
  <2>3. call[p].answer = "seated" => Rereads(p)
    BY <1>2, JoinAnsweredIs DEF PageIs, Fields, Rereads
  <2> QED
    BY <2>1, <2>2, <2>3 DEF Granted
<1>3. CASE JoinQueueAnswered(p)
  <2>1. UNCHANGED down /\ call[p].stage = "answer"
    BY <1>3 DEF JoinQueueAnswered, wires, Answered
  <2>2. page'[p].shown = page[p].shown
    <3>1. CASE call[p].answer = "seated"
      BY <1>3, <3>1, JoinQueueAnsweredIs DEF PageIs, Fields
    <3>2. CASE call[p].answer = "waiting" /\ page[p].open
      BY <1>3, <3>2, JoinQueueAnsweredIs DEF PageIs, Fields
    <3> QED
      BY <1>3, <3>1, <3>2, JoinQueueAnsweredIs
  <2>3. call[p].answer = "seated" => Rereads(p)
    BY <1>3, JoinQueueAnsweredIs DEF PageIs, Fields, Rereads
  <2> QED
    BY <2>1, <2>2, <2>3 DEF Granted
<1>4. CASE Hear(p)
  <2>1. PICK e \in Event, rest \in Seq(Event) : HeardIs(p, e, rest)
    BY <1>4, HearIs
  <2>2. /\ e = Head(down[p]) /\ rest = Tail(down[p]) /\ down[p] # <<>> /\ down'[p] = rest
        /\ e.type \in {"member", "admitted", "waiting", "presence"}
    BY <2>1, EventTypes DEF HeardIs
  <2>3. PICK s : s = down[p]
    OBVIOUS
  <2>4. s \in Seq(Event) /\ s # <<>> /\ e = Head(s) /\ rest = Tail(s)
    BY <2>2, <2>3, SlotTypes
  <2>5. /\ \A type : HasIn(s, type) <=> e.type = type \/ HasIn(rest, type)
        /\ \A d, who : Ends(s, d, who) =>
             IF e.type = "presence" THEN Ends(rest, e.profiles, who) ELSE Ends(rest, d, who)
    BY <2>4, OneLess
  <2>6. Granted(p) => Granted(p)'
    BY <1>4 DEF Hear, Granted
  <2>7. e.type = "admitted" => Rereads(p)
    BY <2>1 DEF HeardIs, PageIs, Fields, Rereads
  <2>8. e.type = "member" /\ ShowsChat(p) => Rereads(p)
    BY <2>1 DEF HeardIs, PageIs, Fields, Rereads
  <2>9. ShowsChat(p) => page'[p].shown = IF e.type = "presence" THEN e.profiles ELSE page[p].shown
    <3>1. CASE e.type = "member"
      BY <2>1, <3>1 DEF HeardIs, PageIs, Fields
    <3>2. CASE e.type = "presence"
      BY <2>1, <3>2 DEF HeardIs, PageIs, Fields
    <3>3. CASE e.type = "waiting"
      BY <2>1, <3>3 DEF HeardIs, PageIs, Fields
    <3>4. CASE e.type = "admitted"
      BY <2>1, <3>4 DEF HeardIs, PageIs, Fields
    <3> QED
      BY <2>2, <3>1, <3>2, <3>3, <3>4
  <2>10. \A who : Ends(s, page[p].shown, who) /\ ShowsChat(p) => Ends(rest, page'[p].shown, who)
    <3>1. TAKE who
    <3>2. HAVE Ends(s, page[p].shown, who) /\ ShowsChat(p)
    <3>3. CASE e.type = "presence"
      BY <2>5, <2>9, <3>2, <3>3
    <3>4. CASE e.type # "presence"
      BY <2>5, <2>9, <3>2, <3>4
    <3> QED
      BY <3>3, <3>4
  <2>11. HasIn(s, "admitted") => HasIn(rest, "admitted") \/ Rereads(p)
    BY <2>5, <2>7
  <2>12. HasIn(s, "member") /\ ShowsChat(p) => HasIn(rest, "member") \/ Rereads(p)
    BY <2>5, <2>8
  <2> QED
    BY <2>2, <2>3, <2>6, <2>10, <2>11, <2>12
<1> QED
  BY <1>1, <1>2, <1>3, <1>4

(* Every step of p's own keeps the online list he is shown.                *)
LEMMA ShownStep ==
    ASSUME Typed, HandlersOK, NEW p \in Profiles, PageOK(p), WireOK(p), ShownOK(p),
           OfPage(p) \/ OfServer(p) \/ OfGateway(p) \/ \E s \in Slots : Admit(s)
    PROVE  ShownOK(p)'
<1>0. /\ p \in inRoom => p \in connected
      /\ ~ShowsChat(p) /\ up[p] = <<>> => p \notin inRoom
      /\ ShowsChat(p) /\ p \in connected => p \in Listening
      /\ up[p] \in Seq(Signal) /\ down[p] \in Seq(Event)
  BY SlotTypes DEF PageOK, WireOK, Wire, ShowsChat, Listening, Signal
<1>1. ASSUME KeepsRoom(p), down'[p] = down[p], page'[p].shown = page[p].shown PROVE ShownOK(p)'
  BY <1>1 DEF KeepsRoom, ShownOK, ShowsChat, Seat
<1>2. CASE p \notin inRoom' \/ ~ShowsChat(p)' \/ up'[p] # <<>>
  BY <1>2 DEF ShownOK
<1>3. CASE ReadRoom(p)
  <2>1. down' = down /\ page'[p].shown = page[p].shown
    BY <1>3, ReadRoomIs DEF ReadRoom, wires, PageIs, Fields
  <2> QED
    BY <1>1, <1>3, <2>1, OwnKeepsRoom
<1>4. CASE AutoJoin(p)
  <2>1. down' = down /\ page'[p].shown = page[p].shown
    BY <1>4, AutoJoinIs DEF AutoJoin, wires, PageIs, Fields
  <2> QED
    BY <1>1, <1>4, <2>1, OwnKeepsRoom
<1>5. CASE \/ JoinQueue(p) \/ LeaveQueue(p) \/ LeaveRoom(p)
           \/ JoinAnswered(p) \/ JoinQueueAnswered(p) \/ Hear(p)
  <2>1. KeepsRoom(p)
    BY <1>5, OwnKeepsRoom
  <2>2. \A who : Ends(down[p], page[p].shown, who) /\ ShowsChat(p)
                         => Ends(down'[p], page'[p].shown, who)
    BY <1>5, OwnNews
  <2> QED
    BY <2>1, <2>2 DEF KeepsRoom, ShownOK, ShowsChat, Seat
<1>6. CASE ShowRoom(p)
  <2>1. /\ page'[p].open = page[p].open /\ page'[p].room = page[p].read
        /\ page'[p].shown = page[p].shown /\ UNCHANGED <<inRoom, connected, down, online>>
    BY <1>6, ShowRoomIs DEF ShowRoom, PageIs, Fields, gateway
  <2>2. ShowsChat(p)' <=> page[p].open /\ page[p].read.seat = "yes"
    BY <2>1 DEF ShowsChat, Seat
  <2>3. CASE Emit(p, "JOIN_ROOM")
    <3>1. up'[p] # <<>>
      BY <1>0, <2>3, EmitIs, AppendProperties DEF Signal
    <3> QED
      BY <1>2, <3>1
  <2>4. CASE (ShowsChat(p)' <=> ShowsChat(p)) /\ UNCHANGED up
    BY <2>1, <2>4 DEF ShownOK
  <2> QED
    BY <1>0, <1>2, <1>6, <2>1, <2>2, <2>3, <2>4 DEF ShowRoom, ShowsChat
<1>7. CASE Open(p)
  <2>1. ~ShowsChat(p) /\ UNCHANGED inRoom
    BY <1>7 DEF Open, ShowsChat, gateway
  <2>2. CASE UNCHANGED up
    BY <1>0, <1>2, <2>1, <2>2
  <2>3. CASE Emit(p, "JOIN_ROOM")
    <3>1. up'[p] # <<>>
      BY <1>0, <2>3, EmitIs, AppendProperties DEF Signal
    <3> QED
      BY <1>2, <3>1
  <2> QED
    BY <1>7, <2>2, <2>3, OpenIs
<1>8. CASE Close(p) \/ LeaveQueueAnswered(p) \/ LeaveAnswered(p)
  <2>1. ~page'[p].open
    BY <1>8, ClosesIs DEF PageIs, Fields
  <2> QED
    BY <1>2, <2>1 DEF ShowsChat
<1>9. CASE OfServer(p)
  <2>1. KeepsRoom(p) /\ page' = page
    BY <1>9, ServerKeepsRoom
  <2>2. ASSUME NEW e \in Event, e.type = "member",
               down'[p] = IF p \in inRoom /\ p \in Listening THEN down[p] \o <<e>> ELSE down[p]
        PROVE  ShownOK(p)'
    <3>1. PICK s : s = down[p]
      OBVIOUS
    <3>2. \A d, who : Ends(s \o <<e>>, d, who) <=> Ends(s, d, who)
      BY <1>0, <2>2, <3>1, OneMore
    <3> QED
      BY <1>1, <2>1, <2>2, <3>1, <3>2 DEF KeepsRoom, ShownOK, ShowsChat, Seat
  <2> QED
    BY <1>1, <1>9, <2>1, <2>2, ServerHears
<1>10. CASE \E s \in Slots : Admit(s)
  <2>1. KeepsRoom(p) /\ page' = page /\ down' = down
    BY <1>10, ServerKeepsRoom DEF Admit, wires
  <2> QED
    BY <1>1, <2>1
<1>11. CASE OnJoinRoom(p)
  <2>1. /\ UNCHANGED <<page, connected>> /\ p \in connected
        /\ up[p] # <<>> /\ Head(up[p]) = "JOIN_ROOM"
    BY <1>11 DEF OnJoinRoom
  <2>2. CASE p \notin members
    <3>1. up[p][1] = "JOIN_ROOM"
      BY <1>0, <2>1
    <3>2. p \notin inRoom
      BY <2>1, <3>1 DEF WireOK, Wire
    <3>3. inRoom' = inRoom
      BY <1>11, <2>2 DEF OnJoinRoom, gateway
    <3> QED
      BY <1>2, <3>2, <3>3
  <2>3. CASE p \in members
    <3>1. /\ inRoom' \in SUBSET Profiles /\ online' \in SUBSET Profiles
          /\ EmitPresence /\ p \in inRoom'
      BY <1>11, <2>3 DEF OnJoinRoom, Typed, TypeOK
    <3>2. PICK e \in Event :
            /\ e.type = "presence" /\ e.profiles = online'
            /\ down'[p] = IF p \in inRoom' /\ p \in Listening THEN down[p] \o <<e>> ELSE down[p]
      BY <3>1, EmitPresenceIs
    <3>3. PICK s : s = down[p]
      OBVIOUS
    <3>4. PICK who : who = online'
      OBVIOUS
    <3>5. \A d : Ends(s \o <<e>>, d, who)
      BY <1>0, <3>2, <3>3, <3>4, OneMore
    <3> QED
      BY <1>0, <2>1, <3>1, <3>2, <3>3, <3>4, <3>5 DEF ShownOK, ShowsChat, Seat, Listening
  <2> QED
    BY <2>2, <2>3
<1>12. CASE OnLeaveRoom(p) \/ Drop(p)
  BY <1>2, <1>12 DEF OnLeaveRoom, Drop
<1>13. CASE Reconnect(p)
  BY <1>0, <1>2, <1>13 DEF Reconnect, gateway
<1> QED
  BY <1>3, <1>4, <1>5, <1>6, <1>7, <1>8, <1>9, <1>10, <1>11, <1>12, <1>13 DEF OfPage, OfGateway

-----------------------------------------------------------------------------
(* The seat: what the page does.                                           *)

(* Asking, hearing and being answered, with the room as it was.            *)
LEMMA SeatAsks ==
    ASSUME Typed, NEW p \in Profiles, PageOK(p), ReadOK(p), SeatOK(p), StaleOK(p), JoinOK(p),
           GoneOK(p),
           \/ JoinQueue(p) \/ LeaveQueue(p) \/ LeaveRoom(p)
           \/ JoinAnswered(p) \/ JoinQueueAnswered(p) \/ Hear(p)
    PROVE  ReadOK(p)' /\ SeatOK(p)' /\ StaleOK(p)' /\ JoinOK(p)' /\ GoneOK(p)'
<1>1. /\ UNCHANGED <<members, queue, blocked, online, inRoom, connected, dropped, twice>>
      /\ Waits(p)' <=> Waits(p)
      /\ Promoted(p)' => Promoted(p)
      /\ Told(p) => Told(p)'
  BY OwnPageRoom, OwnCall DEF OfPage
<1>2. /\ page'[p].open = page[p].open /\ page'[p].room = page[p].room /\ up'[p] = up[p]
      /\ page'[p].missed = page[p].missed /\ page'[p].attempted = page[p].attempted
  BY OwnKeepsRoom, OwnQuery DEF KeepsRoom
<1>3. Kept(p) \/ Rereads(p)
  BY OwnQuery
<1>4. /\ Granted(p) => Granted(p)' \/ Rereads(p)
      /\ HasIn(down[p], "admitted") => HasIn(down'[p], "admitted") \/ Rereads(p)
      /\ HasIn(down[p], "member") /\ ShowsChat(p) => HasIn(down'[p], "member") \/ Rereads(p)
  BY OwnNews
<1>5. /\ ShowsChat(p)' <=> ShowsChat(p)
      /\ Seat(p)' <=> Seat(p)
      /\ InTouch(p)' <=> InTouch(p)
      /\ InTouch(p) => page[p].open
      /\ ShowsChat(p) <=> page[p].open /\ Seat(p)
      /\ Seat(p) <=> page[p].room.seat = "yes"
  BY <1>1, <1>2 DEF ShowsChat, Seat, InTouch
<1>6. /\ page[p].fetch \in {"none", "sent", "read"} /\ Unknown.seat = "unknown"
  BY SlotTypes, PageTypes, ViewTypes
<1>7. Rereads(p) /\ page[p].open =>
        \/ Kept(p) /\ page[p].room = Unknown /\ page[p].fetch # "none"
        \/ page'[p].fetch = "sent" /\ page'[p].read = Unknown
  BY DEF Rereads, Kept, Again
<1>9. page'[p].read.seat = "yes" => page[p].read.seat = "yes"
  BY <1>3, <1>6 DEF Kept, Rereads
<1>10. call[p].kind = "leave" /\ call[p].stage # "sent"
         => call'[p].kind = "leave" /\ call'[p].stage # "sent"
  <2>1. CASE UNCHANGED call
    BY <2>1
  <2>2. CASE call[p] = NoCall
    BY <2>2, NoCallType
  <2>3. CASE JoinAnswered(p) \/ JoinQueueAnswered(p)
    BY <2>3 DEF JoinAnswered, JoinQueueAnswered
  <2> QED
    BY <2>1, <2>2, <2>3 DEF Hear, JoinQueue, LeaveQueue, LeaveRoom, Request
<1>11. ReadOK(p)'
  BY <1>1, <1>2, <1>9, <1>10 DEF ReadOK, Left
<1>12. SeatOK(p)'
  <2>1. CASE Kept(p)
    BY <1>1, <1>2, <1>4, <1>5, <1>6, <1>7, <2>1 DEF SeatOK, Kept
  <2>2. CASE Rereads(p)
    BY <1>1, <1>2, <1>4, <1>5, <1>6, <1>7, <2>1, <2>2 DEF SeatOK
  <2> QED
    BY <1>3, <2>1, <2>2
<1>13. StaleOK(p)'
  <2>1. CASE ~(call'[p].kind \in {"join", "enqueue"} /\ call'[p].stage = "sent")
    BY <1>1, <1>5, <1>9, <2>1 DEF StaleOK, Seat
  <2>2. CASE UNCHANGED call
    BY <1>1, <1>5, <1>9, <2>2 DEF StaleOK, Seat
  <2>3. CASE JoinQueue(p)
    <3>1. /\ page[p].open /\ ~Seat(p) /\ call[p] = NoCall
      BY <2>3 DEF JoinQueue, OffersQueue, DialogOpen, Request
    <3>2. page[p].read.seat = "yes" /\ p \notin members => p \in blocked
      BY <3>1, NoCallType DEF ReadOK, Left
    <3> QED
      BY <1>1, <1>5, <1>9, <3>1, <3>2 DEF StaleOK, Seat
  <2>4. CASE LeaveQueue(p) \/ LeaveRoom(p)
    <3>1. call'[p].kind \in {"cancel", "leave"}
      BY <2>4, RequestIs DEF LeaveQueue, LeaveRoom, CallIs
    <3> QED
      BY <2>1, <3>1
  <2>5. CASE JoinAnswered(p) \/ JoinQueueAnswered(p)
    <3>1. call'[p].stage # "sent"
      BY <2>5, DoneIs DEF JoinAnswered, JoinQueueAnswered, CallIs
    <3> QED
      BY <2>1, <3>1
  <2>6. CASE Hear(p)
    BY <2>2, <2>6 DEF Hear
  <2> QED
    BY <2>3, <2>4, <2>5, <2>6
<1>14. JoinOK(p)'
  BY <1>1, <1>2, <1>5 DEF JoinOK
<1>15. GoneOK(p)'
  <2>1. CASE Kept(p)
    BY <1>1, <1>2, <1>4, <1>5, <1>6, <1>7, <1>10, <2>1 DEF GoneOK, Kept
  <2>2. CASE Rereads(p)
    BY <1>1, <1>2, <1>4, <1>5, <1>6, <1>7, <1>10, <2>1, <2>2 DEF GoneOK
  <2> QED
    BY <1>3, <2>1, <2>2
<1> QED
  BY <1>11, <1>12, <1>13, <1>14, <1>15

(* A page whose query is read, or that tries the auto-join.                *)
LEMMA SeatReads ==
    ASSUME Typed, NEW p \in Profiles, PageOK(p), ReadOK(p), SeatOK(p), StaleOK(p), JoinOK(p),
           GoneOK(p), ReadRoom(p) \/ AutoJoin(p)
    PROVE  ReadOK(p)' /\ SeatOK(p)' /\ StaleOK(p)' /\ JoinOK(p)' /\ GoneOK(p)'
<1>1. /\ UNCHANGED <<members, queue, blocked, online, inRoom, connected, dropped, twice>>
      /\ Waits(p)' <=> Waits(p)
      /\ Promoted(p)' => Promoted(p)
      /\ Told(p) => Told(p)'
  BY OwnPageRoom, OwnCall DEF OfPage
<1>2. page'[p].open = page[p].open /\ page'[p].room = page[p].room /\ up'[p] = up[p]
  BY OwnKeepsRoom DEF KeepsRoom
<1>3. page'[p].missed = page[p].missed
  BY ReadRoomIs, AutoJoinIs DEF PageIs, Fields
<1>4. /\ ShowsChat(p)' <=> ShowsChat(p)
      /\ Seat(p)' <=> Seat(p)
      /\ InTouch(p)' <=> InTouch(p)
      /\ InTouch(p) => page[p].open
      /\ ShowsChat(p) <=> page[p].open /\ Seat(p)
      /\ Seat(p) <=> page[p].room.seat = "yes"
  BY <1>1, <1>2, <1>3 DEF ShowsChat, Seat, InTouch
<1>5. JoinOK(p)'
  BY <1>1, <1>2, <1>4 DEF JoinOK
<1>6. CASE ReadRoom(p)
  <2>1. UNCHANGED <<call, down>> /\ page[p].fetch = "sent"
    BY <1>6 DEF ReadRoom, wires
  <2>2. PICK v : v = [seat |-> IF p \in members THEN "yes" ELSE "no", rank |-> RankIn(queue, p)]
    OBVIOUS
  <2>3. page'[p].read = v /\ page'[p].fetch = "read" /\ page'[p].attempted = page[p].attempted
    BY <1>6, <2>2, ReadRoomIs DEF PageIs, Fields
  <2>4. v.seat = IF p \in members THEN "yes" ELSE "no"
    BY <2>2
  <2>5. ReadOK(p)'
    BY <1>1, <2>3, <2>4 DEF ReadOK
  <2>6. SeatOK(p)'
    BY <1>1, <2>3, <2>4 DEF SeatOK
  <2>7. StaleOK(p)'
    BY <1>1, <1>4, <2>1, <2>3, <2>4 DEF StaleOK
  <2>8. GoneOK(p)'
    BY <1>1, <2>3, <2>4 DEF GoneOK
  <2> QED
    BY <1>5, <2>5, <2>6, <2>7, <2>8
<1>7. CASE AutoJoin(p)
  <2>1. /\ call[p] = NoCall /\ page[p].open /\ page[p].room.seat = "no"
        /\ UNCHANGED down
    BY <1>7 DEF AutoJoin, Request, wires
  <2>2. call'[p].kind = "join" /\ call'[p].stage = "sent"
    BY <1>7, RequestIs DEF AutoJoin, CallIs
  <2>3. page'[p].fetch = page[p].fetch /\ page'[p].read = page[p].read
    BY <1>7, AutoJoinIs DEF PageIs, Fields
  <2>4. ~(call[p].kind = "leave")
    BY <2>1, NoCallType
  <2>5. ReadOK(p)'
    BY <1>1, <1>2, <2>3, <2>4 DEF ReadOK, Left
  <2>6. SeatOK(p)'
    BY <2>2 DEF SeatOK, Granted
  <2>7. StaleOK(p)'
    BY <1>1, <1>2, <1>4, <2>1, <2>3, <2>4 DEF StaleOK, ReadOK, Left
  <2>8. GoneOK(p)'
    BY <1>4, <2>1 DEF GoneOK
  <2> QED
    BY <1>5, <2>5, <2>6, <2>7, <2>8
<1> QED
  BY <1>6, <1>7

(* A page that shows what it has read.                                     *)
LEMMA SeatShows ==
    ASSUME Typed, NEW p \in Profiles, PageOK(p), ReadOK(p), SeatOK(p), StaleOK(p), JoinOK(p),
           GoneOK(p), ShowRoom(p)
    PROVE  ReadOK(p)' /\ SeatOK(p)' /\ StaleOK(p)' /\ JoinOK(p)' /\ GoneOK(p)'
<1>1. /\ UNCHANGED <<members, queue, blocked, online, inRoom, connected, dropped, twice>>
      /\ Waits(p)' <=> Waits(p)
      /\ Promoted(p)' => Promoted(p)
      /\ Told(p) => Told(p)'
  BY OwnPageRoom, OwnCall DEF OfPage
<1>2. /\ page'[p].open = page[p].open /\ page'[p].room = page[p].read /\ page'[p].fetch = "none"
      /\ page'[p].read = Unknown /\ page'[p].attempted = page[p].attempted
      /\ page'[p].missed = page[p].missed
  BY ShowRoomIs DEF PageIs, Fields
<1>3. UNCHANGED <<down, call>> /\ page[p].fetch = "read"
  BY DEF ShowRoom
<1>4. /\ page[p].open \in BOOLEAN /\ Unknown.seat = "unknown"
      /\ page[p].read.seat \in {"no", "yes"}
  BY <1>3, SlotTypes, PageTypes, ViewTypes DEF PageOK
<1>5. /\ Seat(p)' <=> page[p].read.seat = "yes"
      /\ ShowsChat(p)' <=> page[p].open /\ page[p].read.seat = "yes"
      /\ ShowsChat(p) <=> page[p].open /\ Seat(p)
      /\ InTouch(p)' <=> InTouch(p)
      /\ InTouch(p) => page[p].open
  BY <1>1, <1>2 DEF ShowsChat, Seat, InTouch
<1>6. ShowsChat(p)' /\ p \in connected /\ up'[p] = <<>> => ShowsChat(p) /\ up[p] = <<>>
  <2>1. CASE Emit(p, "JOIN_ROOM") \/ Emit(p, "LEAVE_ROOM")
    BY <2>1, SlotTypes, EmitIs, AppendProperties
  <2>2. CASE UNCHANGED up /\ (ShowsChat(p)' <=> ShowsChat(p))
    BY <2>2
  <2>3. CASE p \notin connected
    BY <2>3
  <2> QED
    BY <1>5, <2>1, <2>2, <2>3 DEF ShowRoom
<1>7. ReadOK(p)'
  BY <1>2, <1>4 DEF ReadOK
<1>8. SeatOK(p)'
  <2>1. CASE page[p].read.seat = "yes"
    BY <1>2, <1>5, <2>1 DEF SeatOK
  <2>2. CASE page[p].read.seat = "no"
    <3>1. page[p].room = Unknown => ~page[p].attempted
      BY <1>4 DEF PageOK
    <3> QED
      BY <1>1, <1>2, <1>3, <1>5, <2>2, <3>1 DEF SeatOK, Granted
  <2> QED
    BY <1>4, <2>1, <2>2
<1>9. StaleOK(p)'
  BY <1>1, <1>2, <1>3, <1>4, <1>5 DEF StaleOK
<1>10. JoinOK(p)'
  BY <1>1, <1>6 DEF JoinOK
<1>11. GoneOK(p)'
  <2>1. p \in inRoom => p \in connected
    BY DEF PageOK
  <2> QED
    BY <1>1, <1>3, <1>5, <1>6, <2>1 DEF GoneOK
<1> QED
  BY <1>7, <1>8, <1>9, <1>10, <1>11

(* A page that is opened, from the cache or anew.                          *)
LEMMA SeatOpens ==
    ASSUME Typed, NEW p \in Profiles, PageOK(p), WireOK(p), ReadOK(p), SeatOK(p), StaleOK(p),
           JoinOK(p), GoneOK(p), Open(p)
    PROVE  ReadOK(p)' /\ SeatOK(p)' /\ StaleOK(p)' /\ JoinOK(p)' /\ GoneOK(p)'
<1>1. /\ UNCHANGED <<members, queue, blocked, online, inRoom, connected, dropped, twice>>
      /\ Waits(p)' <=> Waits(p)
      /\ Promoted(p)' => Promoted(p)
      /\ Told(p) => Told(p)'
  BY OwnPageRoom, OwnCall DEF OfPage
<1>2. UNCHANGED <<down, call>> /\ ~ShowsChat(p) /\ ~page[p].open
  BY DEF Open, ShowsChat
<1>3. /\ page'[p].read = Unknown
      /\ page'[p].room = Unknown \/ (page'[p].room = page[p].room /\ page[p].room # Unknown)
      /\ page'[p].room = Unknown => page'[p].fetch = "sent"
      /\ page'[p].fetch \in {"none", "sent"} /\ ~page'[p].attempted
  BY OpenIs DEF PageIs, Fields
<1>4. Unknown.seat = "unknown" /\ page[p].room.seat \in {"unknown", "no", "yes"}
  BY SlotTypes, PageTypes, ViewTypes
<1>5. ShowsChat(p)' /\ p \in connected => up'[p] # <<>>
  <2>1. CASE page'[p].room = Unknown
    BY <1>4, <2>1 DEF ShowsChat, Seat
  <2>2. CASE /\ page'[p].room = page[p].room
             /\ IF Seat(p) /\ p \in connected THEN Emit(p, "JOIN_ROOM") ELSE UNCHANGED up
    <3>1. ShowsChat(p)' => Seat(p)
      BY <2>2 DEF ShowsChat, Seat
    <3>2. Emit(p, "JOIN_ROOM") => up'[p] # <<>>
      BY SlotTypes, EmitIs, AppendProperties
    <3> QED
      BY <2>2, <3>1, <3>2
  <2> QED
    BY <2>1, <2>2, OpenIs DEF PageIs, Fields
<1>6. ReadOK(p)'
  BY <1>3, <1>4 DEF ReadOK
<1>7. SeatOK(p)'
  <2>1. page[p].room.seat = "unknown" => page[p].room = Unknown
    BY DEF PageOK
  <2> QED
    BY <1>3, <1>4, <2>1 DEF SeatOK, Seat
<1>8. StaleOK(p)'
  BY <1>1, <1>2, <1>3, <1>4 DEF StaleOK, Seat
<1>9. JoinOK(p)'
  BY <1>1, <1>5 DEF JoinOK
<1>10. GoneOK(p)'
  <2>1. p \in inRoom => p \in connected
    BY DEF PageOK
  <2> QED
    BY <1>1, <1>5, <2>1 DEF GoneOK
<1> QED
  BY <1>6, <1>7, <1>8, <1>9, <1>10

(* A page that is closed.                                                  *)
LEMMA SeatCloses ==
    ASSUME Typed, NEW p \in Profiles, StaleOK(p),
           Close(p) \/ LeaveQueueAnswered(p) \/ LeaveAnswered(p)
    PROVE  ReadOK(p)' /\ SeatOK(p)' /\ StaleOK(p)' /\ JoinOK(p)' /\ GoneOK(p)'
<1>1. /\ UNCHANGED <<members, queue, blocked, online, inRoom, connected, dropped, twice>>
      /\ Waits(p)' <=> Waits(p)
      /\ Promoted(p)' => Promoted(p)
  BY OwnPageRoom, OwnCall DEF OfPage
<1>2. /\ ~page'[p].open /\ page'[p].room = page[p].room
      /\ page'[p].read = page[p].read \/ page'[p].read = Unknown
  BY ClosesIs DEF PageIs, Fields
<1>3. ~ShowsChat(p)' /\ ~InTouch(p)' /\ Unknown.seat = "unknown" /\ (Seat(p)' <=> Seat(p))
  BY <1>2, ViewTypes DEF ShowsChat, InTouch, Seat
<1>4. UNCHANGED call \/ call'[p].stage # "sent"
  BY DoneIs DEF Close, LeaveQueueAnswered, LeaveAnswered, CallIs
<1>5. ReadOK(p)' /\ SeatOK(p)' /\ JoinOK(p)' /\ GoneOK(p)'
  BY <1>2, <1>3 DEF ReadOK, SeatOK, JoinOK, GoneOK
<1>6. StaleOK(p)'
  BY <1>1, <1>2, <1>3, <1>4 DEF StaleOK
<1> QED
  BY <1>5, <1>6

(* A page gives nobody a seat or a place.                                  *)
LEMMA RosterOwn ==
    ASSUME Typed, NEW p \in Profiles, RosterOK(p), OfPage(p)
    PROVE  RosterOK(p)'
  BY OwnPageRoom, OwnCall DEF RosterOK

(* Whatever a page does keeps the conjuncts about the seat.                *)
LEMMA SeatOwn ==
    ASSUME Typed, NEW p \in Profiles, PageOK(p), WireOK(p), ReadOK(p), SeatOK(p), StaleOK(p),
           JoinOK(p), GoneOK(p), OfPage(p)
    PROVE  ReadOK(p)' /\ SeatOK(p)' /\ StaleOK(p)' /\ JoinOK(p)' /\ GoneOK(p)'
  BY SeatAsks, SeatReads, SeatShows, SeatOpens, SeatCloses DEF OfPage

-----------------------------------------------------------------------------
(* The seat: what the server does.                                         *)

(* The server at work for p: what it leaves of p's place in the room and   *)
(* of his place in line.                                                   *)
Stays(p) ==
    /\ call[p].stage = "sent" /\ call'[p].stage # "sent" /\ call'[p].kind = call[p].kind
    /\ p \in members' <=> p \in members
    /\ blocked' = blocked /\ twice' = twice
    /\ (Waits(p)' => Waits(p)) /\ (Promoted(p)' => Promoted(p))
    /\ p \in members \ blocked /\ Granted(p) => Granted(p)'
Sits(p) ==
    /\ call[p].stage = "sent" /\ call[p].kind \in {"join", "enqueue"}
    /\ p \notin members \cup blocked /\ p \in members' /\ blocked' = blocked
    /\ (p \notin twice' => p \notin twice) /\ (Waits(p)' => p \in twice')
    /\ Granted(p)'
Queues(p) ==
    /\ call[p].stage = "sent" /\ call[p].kind = "enqueue" /\ call'[p].stage # "sent"
    /\ p \notin members \cup blocked /\ p \notin members' /\ blocked' = blocked
    /\ twice' = twice /\ Waits(p)'
Leaves(p) ==
    /\ call[p].stage = "sent" /\ call'[p].kind = "leave" /\ call'[p].stage # "sent"
    /\ p \notin members' /\ blocked' = blocked /\ twice' = twice
    /\ (Waits(p)' => Waits(p)) /\ (Promoted(p)' => Waits(p))
Kicked(p) ==
    /\ call'[p] = call[p]
    /\ p \in members /\ p \notin members' /\ p \in blocked' /\ twice' = twice
    /\ (Waits(p)' => Waits(p)) /\ (Promoted(p)' => Waits(p))

(* An answer promotes nobody.                                              *)
LEMMA AnswersOnly ==
    ASSUME NEW p \in Slots, NEW kind, NEW next, NEW rank, NEW answer,
           CallIs(p, kind, "answer", next, rank, answer), call[p].stage = "sent"
    PROVE  (Promoted(p)' => Promoted(p)) /\ (Told(p) => Told(p)')
  BY DEF CallIs, Promoted, Told

(* The server at work for p does one of the five.                          *)
LEMMA ServedIs ==
    ASSUME Typed, NEW p \in Profiles, OfServer(p)
    PROVE  /\ Told(p) => Told(p)'
           /\ Stays(p) \/ Sits(p) \/ Queues(p) \/ Leaves(p) \/ Kicked(p)
<1>0. p \in Slots /\ p # Staff
  BY SlotTypes
<1>1. ASSUME call[p].stage = "sent", call[p].kind \in {"join", "enqueue"},
             NEW answer \in {"refused", "full"}, Reply(p, answer), UNCHANGED <<server, twice>>,
             p \notin members \ blocked
      PROVE  (Told(p) => Told(p)') /\ Stays(p)
  <2>1. CallIs(p, call[p].kind, "answer", call[p].next, call[p].rank, answer)
    BY <1>0, <1>1, ReplyIs
  <2>2. (Promoted(p)' => Promoted(p)) /\ (Told(p) => Told(p)')
    BY <1>0, <1>1, <2>1, AnswersOnly
  <2> QED
    BY <1>1, <2>1, <2>2 DEF Stays, CallIs, server, Waits
<1>2. ASSUME call[p].stage = "sent", call[p].kind \in {"join", "enqueue"}, NEW line, Seats(p, line)
      PROVE  /\ Promoted(p)' => Promoted(p)
             /\ Told(p) => Told(p)'
             /\ Granted(p)'
             /\ call'[p].kind = call[p].kind /\ call'[p].stage # "sent"
             /\ members' = members \cup {p} /\ queue' = line /\ blocked' = blocked
  <2>1. /\ CallIs(p, call[p].kind, "answer", call[p].next, call[p].rank, "seated")
        /\ members' = members \cup {p} /\ queue' = line /\ blocked' = blocked
    BY <1>2, SeatsIs
  <2>2. (Promoted(p)' => Promoted(p)) /\ (Told(p) => Told(p)')
    BY <1>0, <1>2, <2>1, AnswersOnly
  <2> QED
    BY <1>2, <2>1, <2>2 DEF CallIs, Granted
<1>3. CASE ServeJoin(p)
  <2>0. call[p].stage = "sent" /\ call[p].kind = "join" /\ twice' = twice
    BY <1>3 DEF ServeJoin, history
  <2>1. CASE p \in blocked /\ Reply(p, "refused") /\ UNCHANGED server
    BY <1>1, <2>0, <2>1
  <2>2. CASE p \notin blocked \cup members /\ Reply(p, "full") /\ UNCHANGED server
    BY <1>1, <2>0, <2>2
  <2>3. CASE p \in members \ blocked /\ Seats(p, queue)
    BY <1>2, <2>0, <2>3 DEF Stays, Waits
  <2>4. CASE p \notin blocked \cup members /\ Seats(p, Without(queue, p))
    <3>1. ~Waits(p)'
      BY <1>2, <2>0, <2>4, WithoutOnce DEF Typed, TypeOK, Waits
    <3> QED
      BY <1>2, <2>0, <2>4, <3>1 DEF Sits
  <2> QED
    BY <1>3, <2>1, <2>2, <2>3, <2>4 DEF ServeJoin
<1>4. CASE ServeEnqueue(p)
  <2>0. call[p].stage = "sent" /\ call[p].kind = "enqueue"
    BY <1>4 DEF ServeEnqueue
  <2>1. CASE p \in blocked /\ Reply(p, "refused") /\ UNCHANGED <<server, twice>>
    BY <1>1, <2>0, <2>1
  <2>2. CASE p \in members \ blocked /\ Reply(p, "seated") /\ UNCHANGED <<server, twice>>
    <3>1. CallIs(p, call[p].kind, "answer", call[p].next, call[p].rank, "seated")
      BY <1>0, <2>2, ReplyIs
    <3>2. (Promoted(p)' => Promoted(p)) /\ (Told(p) => Told(p)')
      BY <1>0, <2>0, <3>1, AnswersOnly
    <3> QED
      BY <2>0, <2>2, <3>1, <3>2 DEF Stays, CallIs, server, Waits, Granted
  <2>3. CASE /\ p \notin blocked \cup members /\ Seats(p, queue)
             /\ twice' = IF Contains(queue, p) THEN twice \cup {p} ELSE twice
    BY <1>2, <2>0, <2>3 DEF Sits, Waits
  <2>4. CASE /\ p \notin blocked \cup members
             /\ queue' = IF Contains(queue, p) THEN queue ELSE Append(queue, p)
             /\ UNCHANGED <<members, blocked, down, twice>>
             /\ call' = [call EXCEPT ![p].stage = "answer", ![p].answer = "waiting",
                                     ![p].rank = RankIn(queue', p)]
    <3>1. /\ CallIs(p, call[p].kind, "answer", call[p].next, RankIn(queue', p), "waiting")
          /\ Contains(queue', p)
      BY <2>4, EnqueueIs
    <3>2. PICK rank : rank = RankIn(queue', p)
      OBVIOUS
    <3>3. (Promoted(p)' => Promoted(p)) /\ (Told(p) => Told(p)')
      <4>1. CallIs(p, call[p].kind, "answer", call[p].next, rank, "waiting")
        BY <3>1, <3>2
      <4> QED
        BY <1>0, <2>0, <4>1, AnswersOnly
    <3> QED
      BY <2>0, <2>4, <3>1, <3>3 DEF Queues, CallIs, Waits
  <2> QED
    BY <1>4, <2>1, <2>2, <2>3, <2>4 DEF ServeEnqueue
<1>5. CASE ServeCancel(p)
  <2>1. CallIs(p, call[p].kind, "tell", call[p].next, call[p].rank, call[p].answer)
    BY <1>0, <1>5, ToIs DEF ServeCancel
  <2>2. call[p].stage = "sent" /\ call[p].kind = "cancel" /\ UNCHANGED <<members, blocked, twice>>
    BY <1>5 DEF ServeCancel, history
  <2>3. ~Waits(p)'
    BY <1>5, WithoutOnce DEF ServeCancel, Typed, TypeOK, Waits
  <2>4. (Promoted(p)' => Promoted(p)) /\ (Told(p) => Told(p)')
    BY <2>1, <2>2 DEF CallIs, Promoted, Told
  <2> QED
    BY <2>1, <2>2, <2>3, <2>4 DEF Stays, CallIs, Granted
<1>6. ASSUME NEW s \in Slots, Vacate(s, p)
      PROVE  /\ ~Told(p) /\ (Promoted(p)' => Waits(p)) /\ (Waits(p)' <=> Waits(p))
             /\ p \notin members'
  <2>1. /\ members' = members \ {p}
        /\ \A t \in Slots \ {s} : call'[t] = call[t]
        /\ call'[s].stage = "admit" => Contains(queue, call'[s].next)
        /\ \A t \in Slots : call[t].stage # "admit" /\ call[t].stage # "tell"
    BY <1>6, VacateIs
  <2>2. queue' = queue
    BY <1>6 DEF Vacate
  <2> QED
    BY <2>1, <2>2 DEF Told, Promoted, Waits
<1>7. CASE ServeLeave(p)
  <2>1. call[p].kind = "leave" /\ call[p].stage = "sent" /\ Vacate(p, p)
        /\ UNCHANGED <<blocked, twice>>
    BY <1>7 DEF ServeLeave, history
  <2>2. call'[p].kind = call[p].kind /\ call'[p].stage # "sent"
    BY <1>0, <2>1, VacateIs
  <2> QED
    BY <1>0, <1>6, <2>1, <2>2 DEF Leaves
<1>8. CASE Kick(p)
  <2>1. p \in members /\ blocked' = blocked \cup {p} /\ Vacate(Staff, p) /\ twice' = twice
    BY <1>8 DEF Kick
  <2>2. Staff \in Slots
    BY DEF Slots
  <2>3. call'[p] = call[p]
    BY <1>0, <2>1, <2>2, VacateIs
  <2> QED
    BY <1>6, <2>1, <2>2, <2>3 DEF Kicked
<1> QED
  BY <1>3, <1>4, <1>5, <1>7, <1>8 DEF OfServer

(* It keeps the conjuncts about the seat.                                  *)
LEMMA SeatServed ==
    ASSUME Typed, NEW p \in Profiles, PageOK(p), RosterOK(p), ReadOK(p), SeatOK(p), StaleOK(p),
           JoinOK(p), GoneOK(p), OfServer(p)
    PROVE  RosterOK(p)' /\ ReadOK(p)' /\ SeatOK(p)' /\ StaleOK(p)' /\ JoinOK(p)' /\ GoneOK(p)'
<1>1. page' = page /\ up'[p] = up[p] /\ UNCHANGED <<inRoom, connected>>
  BY ServerKeepsRoom DEF KeepsRoom
<1>2. /\ ShowsChat(p)' <=> ShowsChat(p)
      /\ Seat(p)' <=> Seat(p)
      /\ InTouch(p)' <=> InTouch(p)
      /\ ShowsChat(p) <=> page[p].open /\ Seat(p)
      /\ InTouch(p) => page[p].open
      /\ ShowsChat(p) /\ p \in inRoom => p \in Listening
  BY <1>1 DEF ShowsChat, Seat, InTouch, Listening, PageOK
<1>3. (Told(p) => Told(p)') /\ (Stays(p) \/ Sits(p) \/ Queues(p) \/ Leaves(p) \/ Kicked(p))
  BY ServedIs
<1>4. /\ \A type : HasIn(down[p], type) => HasIn(down'[p], type)
      /\ p \in inRoom /\ p \in Listening /\ p \in members /\ p \notin members'
           => HasIn(down'[p], "member")
  <2>1. CASE down'[p] = down[p] /\ (p \in members => p \in members')
    BY <2>1
  <2>2. ASSUME NEW e \in Event, e.type = "member",
               down'[p] = IF p \in inRoom /\ p \in Listening THEN down[p] \o <<e>> ELSE down[p]
        PROVE  /\ \A type : HasIn(down[p], type) => HasIn(down'[p], type)
               /\ p \in inRoom /\ p \in Listening => HasIn(down'[p], "member")
    <3>1. PICK s : s = down[p]
      OBVIOUS
    <3>2. \A type : HasIn(s \o <<e>>, type) <=> HasIn(s, type) \/ e.type = type
      BY <3>1, SlotTypes, OneMore
    <3> QED
      BY <2>2, <3>1, <3>2
  <2> QED
    BY <2>1, <2>2, ServerHears
<1>5. CASE Stays(p)
  <2>1. RosterOK(p)'
    BY <1>5 DEF RosterOK, Stays
  <2>2. ReadOK(p)'
    BY <1>1, <1>5 DEF ReadOK, Left, Stays
  <2>3. SeatOK(p)'
    BY <1>1, <1>2, <1>3, <1>4, <1>5 DEF SeatOK, Stays
  <2>4. StaleOK(p)'
    BY <1>1, <1>2, <1>5 DEF StaleOK, Stays
  <2>5. JoinOK(p)'
    BY <1>1, <1>2, <1>5 DEF JoinOK, Stays
  <2>6. GoneOK(p)'
    BY <1>1, <1>2, <1>4, <1>5 DEF GoneOK, Stays
  <2> QED
    BY <2>1, <2>2, <2>3, <2>4, <2>5, <2>6
<1>6. CASE Sits(p)
  <2>1. RosterOK(p)' /\ ReadOK(p)' /\ SeatOK(p)' /\ StaleOK(p)' /\ GoneOK(p)'
    BY <1>6 DEF RosterOK, ReadOK, SeatOK, StaleOK, GoneOK, Sits
  <2>2. JoinOK(p)'
    BY <1>1, <1>2, <1>6 DEF JoinOK, StaleOK, Sits
  <2> QED
    BY <2>1, <2>2
<1>7. CASE Queues(p)
  <2>1. RosterOK(p)' /\ SeatOK(p)' /\ JoinOK(p)'
    BY <1>7 DEF RosterOK, SeatOK, JoinOK, Queues
  <2>2. ReadOK(p)'
    BY <1>1, <1>7 DEF ReadOK, Left, Queues
  <2>3. StaleOK(p)'
    BY <1>1, <1>2, <1>7 DEF StaleOK, Queues
  <2>4. GoneOK(p)'
    BY <1>1, <1>2, <1>4, <1>7 DEF GoneOK, Queues
  <2> QED
    BY <2>1, <2>2, <2>3, <2>4
<1>8. CASE Leaves(p)
  <2>1. SeatOK(p)' /\ JoinOK(p)' /\ ReadOK(p)' /\ GoneOK(p)'
    BY <1>8 DEF SeatOK, JoinOK, ReadOK, Left, GoneOK, Leaves
  <2>2. RosterOK(p)'
    BY <1>8 DEF RosterOK, Leaves
  <2>3. StaleOK(p)'
    BY <1>1, <1>2, <1>8 DEF StaleOK, RosterOK, Leaves
  <2> QED
    BY <2>1, <2>2, <2>3
<1>9. CASE Kicked(p)
  <2>1. SeatOK(p)' /\ JoinOK(p)' /\ ReadOK(p)'
    BY <1>9 DEF SeatOK, JoinOK, ReadOK, Left, Kicked
  <2>2. RosterOK(p)'
    BY <1>9 DEF RosterOK, Kicked
  <2>3. StaleOK(p)'
    BY <1>1, <1>2, <1>9 DEF StaleOK, RosterOK, Kicked
  <2>4. GoneOK(p)'
    BY <1>1, <1>2, <1>4, <1>9 DEF GoneOK, Kicked
  <2> QED
    BY <2>1, <2>2, <2>3, <2>4
<1> QED
  BY <1>3, <1>5, <1>6, <1>7, <1>8, <1>9

(* The head of the line is given the seat.                                 *)
LEMMA SeatEnters ==
    ASSUME Typed, HandlersOK, NEW p \in Profiles, NEW s \in Slots, RosterOK(p), ReadOK(p),
           SeatOK(p), StaleOK(p), JoinOK(p), GoneOK(p), Enters(s, p)
    PROVE  RosterOK(p)' /\ ReadOK(p)' /\ SeatOK(p)' /\ StaleOK(p)' /\ JoinOK(p)' /\ GoneOK(p)'
<1>1. /\ call[s].stage = "admit" /\ call[s].next = p /\ p \notin members /\ ~Full
      /\ To(s, "tell") /\ members' = members \cup {p} /\ queue' = Without(queue, p)
      /\ blocked' = blocked
  BY DEF Enters, Admit, server
<1>2. page' = page /\ up' = up /\ inRoom' = inRoom /\ connected' = connected /\ twice' = twice
  BY DEF Enters, Admit, gateway, wires, history
<1>3. CallIs(s, call[s].kind, "tell", call[s].next, call[s].rank, call[s].answer)
  BY <1>1, ToIs
<1>4. Promoted(p) /\ Told(p)'
  BY <1>1, <1>3 DEF Promoted, Told, CallIs
<1>5. ~Waits(p)' /\ p \in members'
  BY <1>1, WithoutOnce DEF Typed, TypeOK, Waits
<1>6. RosterOK(p)'
  BY <1>1, <1>2, <1>4, <1>5 DEF RosterOK
<1>7. ReadOK(p)' /\ SeatOK(p)' /\ StaleOK(p)' /\ GoneOK(p)'
  BY <1>4, <1>5 DEF ReadOK, SeatOK, StaleOK, GoneOK
<1>8. JoinOK(p)'
  <2>1. ShowsChat(p)' <=> ShowsChat(p)
    BY <1>2 DEF ShowsChat, Seat
  <2>2. p \notin twice /\ ShowsChat(p) => FALSE
    BY <1>1, <1>4 DEF StaleOK, ShowsChat
  <2> QED
    BY <1>2, <2>1, <2>2 DEF JoinOK
<1> QED
  BY <1>6, <1>7, <1>8

(* So does the gateway.                                                    *)
LEMMA SeatGateway ==
    ASSUME Typed, NEW p \in Profiles, PageOK(p), WireOK(p), RosterOK(p), ReadOK(p), SeatOK(p),
           StaleOK(p), JoinOK(p), GoneOK(p), OfGateway(p)
    PROVE  RosterOK(p)' /\ ReadOK(p)' /\ SeatOK(p)' /\ StaleOK(p)' /\ JoinOK(p)' /\ GoneOK(p)'
<1>1. /\ UNCHANGED <<members, queue, blocked, call, twice>>
      /\ Waits(p)' <=> Waits(p)
      /\ Promoted(p)' <=> Promoted(p)
      /\ Told(p)' <=> Told(p)
      /\ Granted(p)' <=> Granted(p)
      /\ Left(p)' <=> Left(p)
  BY DEF OfGateway, OnJoinRoom, OnLeaveRoom, Drop, Reconnect, server, history, Waits, Promoted,
         Told, Granted, Left
<1>2. /\ page'[p].open = page[p].open /\ page'[p].room = page[p].room
      /\ page'[p].read = page[p].read /\ page'[p].fetch = page[p].fetch
      /\ page'[p].attempted = page[p].attempted
      /\ page'[p] = page[p] \/ Drop(p)
      /\ ShowsChat(p)' <=> ShowsChat(p)
      /\ Seat(p)' <=> Seat(p)
  <2>1. CASE Drop(p)
    BY <2>1, DropIs DEF PageIs, Fields, ShowsChat, Seat
  <2>2. CASE UNCHANGED page
    BY <2>2 DEF ShowsChat, Seat
  <2> QED
    BY <2>1, <2>2 DEF OfGateway, OnJoinRoom, OnLeaveRoom, Reconnect
<1>3. RosterOK(p)' /\ ReadOK(p)' /\ StaleOK(p)'
  BY <1>1, <1>2 DEF RosterOK, ReadOK, StaleOK
<1>4. CASE Drop(p)
  <2>1. p \notin connected' /\ p \notin inRoom'
    BY <1>4 DEF Drop
  <2> QED
    BY <1>3, <2>1 DEF SeatOK, InTouch, JoinOK, GoneOK
<1>5. CASE Reconnect(p)
  <2>1. /\ p \notin connected /\ UNCHANGED <<inRoom, down>> /\ p \notin inRoom
        /\ page[p].open => page[p].missed
    BY <1>5 DEF Reconnect, gateway, PageOK
  <2>2. ~InTouch(p)'
    BY <1>2, <1>5, <2>1 DEF InTouch, Reconnect
  <2>3. ShowsChat(p) => up'[p] # <<>>
    BY <1>5, SlotTypes, EmitIs, AppendProperties DEF Reconnect
  <2> QED
    BY <1>1, <1>2, <1>3, <2>1, <2>2, <2>3 DEF SeatOK, JoinOK, GoneOK
<1>6. CASE OnJoinRoom(p) \/ OnLeaveRoom(p)
  <2>1. /\ up[p] # <<>> /\ up'[p] = Tail(up[p]) /\ p \in connected /\ up[p][1] = Head(up[p])
        /\ page' = page /\ connected' = connected /\ up[p] \in Seq(Signal)
    BY <1>6, TakenIs, SlotTypes DEF OnJoinRoom, OnLeaveRoom, Signal
  <2>2. \A type : HasIn(down[p], type) => HasIn(down'[p], type)
    <3>1. CASE UNCHANGED down
      BY <3>1
    <3>2. CASE EmitPresence
      <4>1. inRoom' \in SUBSET Profiles /\ online' \in SUBSET Profiles
        BY <1>6 DEF OnJoinRoom, OnLeaveRoom, Typed, TypeOK, gateway
      <4>2. PICK e \in Event :
              down'[p] = IF p \in inRoom' /\ p \in Listening THEN down[p] \o <<e>> ELSE down[p]
        BY <3>2, <4>1, EmitPresenceIs
      <4>3. PICK d : d = down[p]
        OBVIOUS
      <4>4. \A type : HasIn(d, type) => HasIn(d \o <<e>>, type)
        BY <4>3, SlotTypes, OneMore
      <4> QED
        BY <4>2, <4>3, <4>4
    <3> QED
      BY <1>6, <3>1, <3>2 DEF OnJoinRoom, OnLeaveRoom
  <2>3. InTouch(p)' <=> InTouch(p)
    BY <2>1 DEF InTouch
  <2>4. SeatOK(p)'
    BY <1>1, <1>2, <2>2, <2>3 DEF SeatOK
  <2>5. CASE OnJoinRoom(p)
    <3>1. p \notin inRoom
      BY <2>1, <2>5 DEF OnJoinRoom, WireOK, Wire
    <3>2. p \in inRoom' <=> p \in members
      BY <2>5, <3>1 DEF OnJoinRoom, gateway
    <3> QED
      BY <1>1, <1>3, <2>4, <3>2 DEF JoinOK, GoneOK
  <2>6. CASE OnLeaveRoom(p)
    <3>1. p \notin inRoom'
      BY <2>6 DEF OnLeaveRoom
    <3>2. up[p][1] = "LEAVE_ROOM"
      BY <2>1, <2>6 DEF OnLeaveRoom
    <3>3. ShowsChat(p) => up'[p] # <<>>
      <4>1. SUFFICES ASSUME ShowsChat(p), Tail(up[p]) = <<>> PROVE FALSE
        BY <2>1
      <4>2. PICK u : u = up[p]
        OBVIOUS
      <4>3. u \in Seq(Signal) /\ u # <<>> /\ Tail(u) = <<>>
        BY <2>1, <4>1, <4>2
      <4>4. PICK t : t = Tail(u)
        OBVIOUS
      <4>5. /\ Len(u) \in Nat \ {0} /\ Len(t) = Len(u) - 1 /\ t = <<>>
        BY <4>3, <4>4, EmptySeq, HeadTailProperties
      <4>6. Len(t) = 0
        BY <4>5, EmptySeq
      <4>7. Len(u) = 1
        BY <4>5, <4>6
      <4> QED
        BY <2>1, <3>2, <4>1, <4>2, <4>7 DEF WireOK, Wire
    <3> QED
      BY <1>2, <1>3, <2>4, <3>1, <3>3 DEF JoinOK, GoneOK
  <2> QED
    BY <1>6, <2>5, <2>6
<1> QED
  BY <1>4, <1>5, <1>6 DEF OfGateway

-----------------------------------------------------------------------------
(* The place in line.                                                      *)

(* Who has just been told his place has one, or a seat by now.             *)
AnsweredOK(p) ==
    call[p].kind = "enqueue" /\ call[p].stage = "answer" /\ call[p].answer = "waiting"
       => ~Outside(p)

(* What others do leaves an answer true.                                   *)
LEMMA OthersAnswered ==
    ASSUME NEW p \in Profiles, Untouched(p), Passed(p), AnsweredOK(p)
    PROVE  AnsweredOK(p)'
  BY DEF Untouched, Passed, AnsweredOK, Outside

(* So does what the page does.                                             *)
LEMMA AnsweredOwn ==
    ASSUME Typed, NEW p \in Profiles, AnsweredOK(p), OfPage(p)
    PROVE  AnsweredOK(p)'
<1>1. Outside(p)' <=> Outside(p)
  BY OwnPageRoom DEF Outside
<1>2. UNCHANGED call \/ call'[p].stage # "answer"
  BY OwnCall DEF CallIs
<1> QED
  BY <1>1, <1>2 DEF AnsweredOK

(* A page that asks, shows, opens or closes.                               *)
LEMMA OutsideMoves ==
    ASSUME Typed, NEW p \in Profiles, PageOK(p), OutsideOK(p),
           \/ ReadRoom(p) \/ ShowRoom(p) \/ Open(p)
           \/ Close(p) \/ LeaveQueueAnswered(p) \/ LeaveAnswered(p)
           \/ AutoJoin(p) \/ JoinQueue(p) \/ LeaveQueue(p) \/ LeaveRoom(p)
    PROVE  OutsideOK(p)'
<1>1. /\ Outside(p)' <=> Outside(p)
      /\ Outside(p) => ~Waits(p)
  BY OwnPageRoom DEF OfPage, Outside
<1>2. ~Waits(p) => RankIn(queue, p) = 0
  BY SameLine
<1>3. /\ page[p].open \in BOOLEAN /\ page[p].full \in BOOLEAN /\ page[p].kept \in BOOLEAN
      /\ Unknown.rank = 0
  BY SlotTypes, PageTypes, ViewTypes
<1>4. CASE ReadRoom(p)
  <2>1. UNCHANGED <<call, down>>
    BY <1>4 DEF ReadRoom, wires
  <2>2. PICK v : v = [seat |-> IF p \in members THEN "yes" ELSE "no", rank |-> RankIn(queue, p)]
    OBVIOUS
  <2>3. /\ page'[p].open = page[p].open /\ page'[p].room = page[p].room
        /\ page'[p].full = page[p].full /\ page'[p].place = page[p].place
        /\ page'[p].kept = page[p].kept /\ page'[p].read = v
    BY <1>4, <2>2, ReadRoomIs DEF PageIs, Fields
  <2>4. v.rank = RankIn(queue, p)
    BY <2>2
  <2> QED
    BY <1>1, <1>2, <2>1, <2>3, <2>4 DEF OutsideOK, Going
<1>5. CASE ShowRoom(p)
  <2>1. UNCHANGED <<call, down>>
    BY <1>5 DEF ShowRoom
  <2>2. /\ page'[p].open = page[p].open /\ page'[p].room = page[p].read
        /\ page'[p].full = page[p].full /\ page'[p].place = page[p].place
        /\ page'[p].kept = page[p].kept /\ page'[p].read = Unknown
    BY <1>5, ShowRoomIs DEF PageIs, Fields
  <2> QED
    BY <1>1, <1>3, <2>1, <2>2 DEF OutsideOK, Going
<1>6. CASE Open(p)
  <2>1. UNCHANGED <<call, down>> /\ call[p] = NoCall /\ down[p] = <<>>
    BY <1>6 DEF Open, PageOK
  <2>2. /\ page'[p].read = Unknown /\ ~page'[p].full /\ page'[p].place = 0
        /\ ~page'[p].kept => page'[p].room = Unknown
    BY <1>6, OpenIs DEF PageIs, Fields
  <2>3. ~HasIn(down'[p], "waiting")
    <3>1. PICK d : d = down'[p]
      OBVIOUS
    <3>2. d = <<>>
      BY <2>1, <3>1
    <3>3. ~HasIn(d, "waiting")
      BY <3>2, NoEvents
    <3> QED
      BY <3>1, <3>3
  <2> QED
    BY <1>3, <2>1, <2>2, <2>3, NoCallType DEF OutsideOK
<1>7. CASE Close(p) \/ LeaveQueueAnswered(p) \/ LeaveAnswered(p)
  <2>1. /\ ~page'[p].open /\ page'[p].room = page[p].room /\ page'[p].place = 0
        /\ page'[p].read = page[p].read \/ page'[p].read = Unknown
    BY <1>7, ClosesIs DEF PageIs, Fields
  <2>2. UNCHANGED call \/ call'[p].kind # "enqueue"
    BY <1>7, DoneIs DEF Close, LeaveQueueAnswered, LeaveAnswered, CallIs
  <2> QED
    BY <1>1, <1>3, <2>1, <2>2 DEF OutsideOK
<1>8. CASE AutoJoin(p)
  <2>1. UNCHANGED down /\ call[p] = NoCall
    BY <1>8 DEF AutoJoin, wires, Request
  <2>2. call'[p].kind = "join" /\ call'[p].rank = page[p].room.rank
    BY <1>8, RequestIs DEF AutoJoin, CallIs
  <2>3. /\ page'[p].open = page[p].open /\ page'[p].room = page[p].room
        /\ page'[p].full = page[p].full /\ page'[p].place = page[p].place
        /\ page'[p].kept = page[p].kept /\ page'[p].read = page[p].read
    BY <1>8, AutoJoinIs DEF PageIs, Fields
  <2>4. ~Going(p)
    BY <2>1, NoCallType DEF Going
  <2> QED
    BY <1>1, <2>1, <2>2, <2>3, <2>4 DEF OutsideOK
<1>9. CASE JoinQueue(p)
  <2>1. /\ UNCHANGED <<page, down>> /\ call[p] = NoCall
        /\ page[p].open /\ page[p].full /\ page[p].place = 0
    BY <1>9 DEF JoinQueue, wires, Request, OffersQueue, DialogOpen
  <2>2. call'[p].kind = "enqueue" /\ call'[p].rank = page[p].room.rank
    BY <1>9, RequestIs DEF JoinQueue, CallIs
  <2>3. ~Going(p)
    BY <2>1, NoCallType DEF Going
  <2> QED
    BY <1>1, <2>1, <2>2, <2>3 DEF OutsideOK
<1>10. CASE LeaveQueue(p) \/ LeaveRoom(p)
  <2>1. call'[p].kind \in {"cancel", "leave"}
    BY <1>10, RequestIs DEF LeaveQueue, LeaveRoom, CallIs
  <2> QED
    BY <2>1 DEF OutsideOK, Going
<1> QED
  BY <1>4, <1>5, <1>6, <1>7, <1>8, <1>9, <1>10

(* A page that is answered, or hears an event.                             *)
LEMMA OutsideHears ==
    ASSUME Typed, NEW p \in Profiles, PageOK(p), AnsweredOK(p), OutsideOK(p),
           JoinAnswered(p) \/ JoinQueueAnswered(p) \/ Hear(p)
    PROVE  OutsideOK(p)'
<1>1. Outside(p)' <=> Outside(p)
  BY OwnPageRoom DEF OfPage, Outside
<1>2. /\ page[p].open \in BOOLEAN /\ page[p].full \in BOOLEAN /\ page[p].kept \in BOOLEAN
      /\ Unknown.rank = 0
  BY SlotTypes, PageTypes, ViewTypes
<1>3. /\ page'[p].open = page[p].open /\ page'[p].room = page[p].room
      /\ page'[p].kept = page[p].kept
      /\ page'[p].read = page[p].read \/ page'[p].read = Unknown
  BY OwnKeepsRoom, OwnQuery DEF KeepsRoom, Kept, Rereads
<1>4. CASE JoinAnswered(p)
  <2>1. UNCHANGED down /\ call[p].kind = "join" /\ call'[p] = NoCall
    BY <1>4, DoneIs DEF JoinAnswered, wires
  <2>2. ~Going(p)
    BY <2>1 DEF Going
  <2>3. \/ page'[p].full = page[p].full /\ page'[p].place = page[p].place
        \/ /\ page'[p].full
           /\ page'[p].place = IF call[p].rank # 0 THEN call[p].rank ELSE page[p].place
    <3>1. CASE call[p].answer = "seated"
      BY <1>4, <3>1, JoinAnsweredIs DEF PageIs, Fields
    <3>2. CASE call[p].answer = "full" /\ page[p].open
      BY <1>4, <3>2, JoinAnsweredIs DEF PageIs, Fields
    <3> QED
      BY <1>4, <3>1, <3>2, JoinAnsweredIs
  <2> QED
    BY <1>1, <1>2, <1>3, <2>1, <2>2, <2>3, NoCallType DEF OutsideOK
<1>5. CASE JoinQueueAnswered(p)
  <2>1. UNCHANGED down /\ call[p].kind = "enqueue" /\ call[p].stage = "answer" /\ call'[p] = NoCall
    BY <1>5, DoneIs DEF JoinQueueAnswered, wires, Answered
  <2>2. ~Going(p)
    BY <2>1 DEF Going
  <2>3. CASE call[p].answer = "seated"
    <3>1. ~page'[p].full /\ page'[p].place = page[p].place
      BY <1>5, <2>3, JoinQueueAnsweredIs DEF PageIs, Fields
    <3> QED
      BY <1>1, <1>2, <1>3, <2>1, <2>2, <3>1, NoCallType DEF OutsideOK
  <2>4. CASE call[p].answer = "waiting"
    <3>1. ~Outside(p)
      BY <2>1, <2>4 DEF AnsweredOK
    <3> QED
      BY <1>1, <3>1 DEF OutsideOK
  <2>5. CASE call[p].answer \notin {"seated", "waiting"}
    <3>1. page' = page
      BY <1>5, <2>5, JoinQueueAnsweredIs
    <3> QED
      BY <1>1, <2>1, <2>2, <3>1, NoCallType DEF OutsideOK
  <2> QED
    BY <2>3, <2>4, <2>5
<1>6. CASE Hear(p)
  <2>1. PICK e \in Event, rest \in Seq(Event) : HeardIs(p, e, rest)
    BY <1>6, HearIs
  <2>2. /\ e = Head(down[p]) /\ rest = Tail(down[p]) /\ down[p] # <<>> /\ down'[p] = rest
        /\ e.type \in {"member", "admitted", "waiting", "presence"}
    BY <2>1, EventTypes DEF HeardIs
  <2>3. UNCHANGED call /\ page[p].open
    BY <1>6 DEF Hear, PageOK
  <2>4. /\ HasIn(rest, "waiting") => HasIn(down[p], "waiting")
        /\ e.type = "waiting" => HasIn(down[p], "waiting")
    <3>1. PICK s : s = down[p]
      OBVIOUS
    <3>2. s \in Seq(Event) /\ s # <<>> /\ e = Head(s) /\ rest = Tail(s)
      BY <2>2, <3>1, SlotTypes
    <3>3. \A type : HasIn(s, type) <=> e.type = type \/ HasIn(rest, type)
      BY <3>2, OneLess
    <3> QED
      BY <3>1, <3>3
  <2>5. CASE ~Outside(p) \/ Going(p)
    BY <1>1, <2>3, <2>5 DEF OutsideOK, Going
  <2>6. CASE Outside(p) /\ ~Going(p) /\ e.type = "admitted"
    <3>1. ~page'[p].full /\ page'[p].place = 0
      BY <2>1, <2>6 DEF HeardIs, PageIs, Fields
    <3> QED
      BY <1>1, <1>2, <1>3, <2>2, <2>3, <2>4, <2>6, <3>1 DEF OutsideOK, Going
  <2>7. CASE Outside(p) /\ ~Going(p) /\ e.type \in {"member", "presence"}
    <3>1. page'[p].full = page[p].full /\ page'[p].place = page[p].place
      <4>1. CASE ~ShowsChat(p)
        BY <2>1, <2>7, <4>1 DEF HeardIs
      <4>2. CASE ShowsChat(p) /\ e.type = "member"
        BY <2>1, <4>2 DEF HeardIs, PageIs, Fields
      <4>3. CASE ShowsChat(p) /\ e.type = "presence"
        BY <2>1, <4>3 DEF HeardIs, PageIs, Fields
      <4> QED
        BY <2>7, <4>1, <4>2, <4>3
    <3> QED
      BY <1>1, <1>2, <1>3, <2>2, <2>3, <2>4, <2>7, <3>1 DEF OutsideOK, Going
  <2>8. CASE Outside(p) /\ ~Going(p) /\ e.type = "waiting"
    BY <2>3, <2>4, <2>8 DEF OutsideOK
  <2> QED
    BY <2>2, <2>5, <2>6, <2>7, <2>8
<1> QED
  BY <1>4, <1>5, <1>6

(* What the server at work for p leaves of his place: as it was, or the    *)
(* one he is answered.                                                     *)
SamePlace(p) ==
    /\ Waits(p)' => Waits(p) /\ RankIn(queue', p) = RankIn(queue, p)
    /\ call'[p].rank = call[p].rank
    /\ Outside(p)' => Outside(p) \/ Going(p)'
    /\ AnsweredOK(p) => AnsweredOK(p)'
NewPlace(p) ==
    /\ call[p].kind = "enqueue" /\ Waits(p)' /\ call'[p].rank = RankIn(queue', p)
    /\ Outside(p) \/ (Waits(p) /\ RankIn(queue', p) = RankIn(queue, p))

(* A request that gives a place answers with it.                           *)
LEMMA PlaceServed ==
    ASSUME Typed, NEW p \in Profiles, OfServer(p)
    PROVE  /\ call'[p].kind = call[p].kind
           /\ SamePlace(p) \/ NewPlace(p)
<1>0. p \in Slots /\ p # Staff
  BY SlotTypes
<1>1. ASSUME UNCHANGED queue PROVE (Waits(p)' <=> Waits(p)) /\ RankIn(queue', p) = RankIn(queue, p)
  BY <1>1 DEF Waits
<1>2. ASSUME NEW answer \in {"refused", "full", "seated"}, Reply(p, answer), UNCHANGED server
      PROVE  call'[p].kind = call[p].kind /\ SamePlace(p)
  <2>1. CallIs(p, call[p].kind, "answer", call[p].next, call[p].rank, answer)
    BY <1>0, <1>2, ReplyIs
  <2>2. Outside(p)' <=> Outside(p)
    BY <1>2 DEF server, Outside, Waits
  <2> QED
    BY <1>1, <1>2, <2>1, <2>2 DEF SamePlace, CallIs, server, AnsweredOK
<1>3. ASSUME NEW line, Seats(p, line), (Contains(line, p) => line = queue)
      PROVE  call'[p].kind = call[p].kind /\ SamePlace(p)
  <2>1. /\ CallIs(p, call[p].kind, "answer", call[p].next, call[p].rank, "seated")
        /\ members' = members \cup {p} /\ queue' = line
    BY <1>3, SeatsIs
  <2> QED
    BY <1>1, <1>3, <2>1 DEF SamePlace, CallIs, Outside, AnsweredOK, Waits
<1>4. ASSUME NEW s \in Slots, Vacate(s, p)
      PROVE  queue' = queue /\ call'[p].kind = call[p].kind /\ call'[p].rank = call[p].rank
  BY <1>0, <1>4, VacateIs DEF Vacate
<1>5. ~Contains(Without(queue, p), p)
  BY WithoutOnce DEF Typed, TypeOK
<1>6. CASE ServeJoin(p)
  BY <1>2, <1>3, <1>5, <1>6 DEF ServeJoin
<1>7. CASE ServeEnqueue(p)
  <2>1. CASE /\ p \notin blocked \cup members
             /\ queue' = IF Contains(queue, p) THEN queue ELSE Append(queue, p)
             /\ UNCHANGED <<members, blocked, down, twice>>
             /\ call' = [call EXCEPT ![p].stage = "answer", ![p].answer = "waiting",
                                     ![p].rank = RankIn(queue', p)]
    <3>1. /\ CallIs(p, call[p].kind, "answer", call[p].next, RankIn(queue', p), "waiting")
          /\ Contains(queue', p)
          /\ Contains(queue, p) => RankIn(queue', p) = RankIn(queue, p)
      BY <2>1, EnqueueIs
    <3> QED
      BY <1>7, <2>1, <3>1 DEF NewPlace, CallIs, Outside, Waits, ServeEnqueue
  <2> QED
    BY <1>2, <1>3, <1>7, <2>1 DEF ServeEnqueue, server
<1>8. CASE ServeCancel(p)
  <2>1. CallIs(p, call[p].kind, "tell", call[p].next, call[p].rank, call[p].answer)
    BY <1>0, <1>8, ToIs DEF ServeCancel
  <2> QED
    BY <1>5, <1>8, <2>1 DEF ServeCancel, SamePlace, CallIs, Waits, Going, AnsweredOK
<1>9. CASE ServeLeave(p)
  <2>1. Vacate(p, p) /\ call[p].kind = "leave"
    BY <1>9 DEF ServeLeave
  <2> QED
    BY <1>0, <1>1, <1>4, <2>1 DEF SamePlace, Going, AnsweredOK
<1>10. CASE Kick(p)
  <2>1. Vacate(Staff, p) /\ Staff \in Slots /\ p \in blocked'
    BY <1>10 DEF Kick, Slots
  <2>2. ~Outside(p)'
    BY <2>1 DEF Outside
  <2> QED
    BY <1>1, <1>4, <2>1, <2>2 DEF SamePlace, AnsweredOK
<1> QED
  BY <1>6, <1>7, <1>8, <1>9, <1>10 DEF OfServer

(* The events that carry no place.                                         *)
NoPlaces(p) ==
    /\ HasIn(down'[p], "waiting") => HasIn(down[p], "waiting")
    /\ \A n : AtLeast(down[p], n) => AtLeast(down'[p], n)

(* One event more that is no place.                                        *)
LEMMA NoPlacesMore ==
    ASSUME Typed, NEW p \in Profiles, NEW e \in Event, e.type # "waiting",
           down'[p] = down[p] \o <<e>>
    PROVE  NoPlaces(p)
<1>1. PICK s : s = down[p]
  OBVIOUS
<1>2. /\ HasIn(s \o <<e>>, "waiting") <=> HasIn(s, "waiting")
      /\ \A n : AtLeast(s \o <<e>>, n) <=> AtLeast(s, n)
  BY <1>1, SlotTypes, OneMore
<1> QED
  BY <1>1, <1>2 DEF NoPlaces

(* The server at work for p tells him no place but by its answer.          *)
LEMMA NoPlacesServed ==
    ASSUME Typed, NEW p \in Profiles, OfServer(p) \/ OfGateway(p)
    PROVE  NoPlaces(p)
<1>1. CASE down'[p] = down[p]
  BY <1>1 DEF NoPlaces
<1>2. CASE OfServer(p)
  BY <1>1, <1>2, ServerHears, NoPlacesMore
<1>3. CASE Drop(p)
  <2>1. PICK d : d = down'[p]
    OBVIOUS
  <2>2. d = <<>>
    BY <1>3, <2>1 DEF Drop, Typed, TypeOK
  <2>3. ~HasIn(d, "waiting") /\ \A n : AtLeast(d, n)
    BY <2>2, NoEvents
  <2> QED
    BY <2>1, <2>3 DEF NoPlaces
<1>4. CASE OnJoinRoom(p) \/ OnLeaveRoom(p)
  <2>1. inRoom' \in SUBSET Profiles /\ online' \in SUBSET Profiles
    BY <1>4 DEF OnJoinRoom, OnLeaveRoom, Typed, TypeOK, gateway
  <2>2. CASE EmitPresence
    <3>1. PICK e \in Event :
            /\ e.type = "presence"
            /\ down'[p] = IF p \in inRoom' /\ p \in Listening THEN down[p] \o <<e>> ELSE down[p]
      BY <2>1, <2>2, EmitPresenceIs
    <3> QED
      BY <1>1, <3>1, NoPlacesMore
  <2> QED
    BY <1>1, <1>4, <2>2 DEF OnJoinRoom, OnLeaveRoom
<1>5. CASE Reconnect(p)
  BY <1>1, <1>5 DEF Reconnect
<1> QED
  BY <1>2, <1>3, <1>4, <1>5 DEF OfGateway

(* The page, as the gateway leaves it.                                     *)
LEMMA PlaceGateway ==
    ASSUME Typed, NEW p \in Profiles, OfGateway(p)
    PROVE  /\ page'[p].open = page[p].open /\ page'[p].room = page[p].room
           /\ page'[p].read = page[p].read /\ page'[p].full = page[p].full
           /\ page'[p].place = page[p].place /\ page'[p].kept = page[p].kept
           /\ UNCHANGED <<members, blocked, queue, call>>
           /\ (Waits(p)' <=> Waits(p)) /\ (Outside(p)' <=> Outside(p))
<1>1. /\ UNCHANGED <<members, blocked, queue, call>>
      /\ (Waits(p)' <=> Waits(p)) /\ (Outside(p)' <=> Outside(p))
  BY DEF OfGateway, OnJoinRoom, OnLeaveRoom, Drop, Reconnect, server, Waits, Outside
<1>2. CASE Drop(p)
  BY <1>1, <1>2, DropIs DEF PageIs, Fields
<1>3. CASE UNCHANGED page
  BY <1>1, <1>3
<1> QED
  BY <1>2, <1>3 DEF OfGateway, OnJoinRoom, OnLeaveRoom, Reconnect

(* The server or the gateway at work for p, when he is to be outside.      *)
LEMMA OutsideServed ==
    ASSUME Typed, NEW p \in Profiles, AnsweredOK(p), OutsideOK(p), OfServer(p) \/ OfGateway(p)
    PROVE  AnsweredOK(p)' /\ OutsideOK(p)'
<1>1. HasIn(down'[p], "waiting") => HasIn(down[p], "waiting")
  BY NoPlacesServed DEF NoPlaces
<1>2. CASE OfServer(p)
  <2>1. page' = page /\ call'[p].kind = call[p].kind
    BY <1>2, ServerKeepsRoom, PlaceServed
  <2>2. CASE SamePlace(p)
    BY <1>1, <2>1, <2>2 DEF SamePlace, OutsideOK, Going
  <2>3. CASE NewPlace(p)
    <3>1. ~Outside(p)'
      BY <2>3 DEF NewPlace, Outside
    <3> QED
      BY <3>1 DEF OutsideOK, AnsweredOK
  <2> QED
    BY <1>2, <2>2, <2>3, PlaceServed
<1>3. CASE OfGateway(p)
  BY <1>1, <1>3, PlaceGateway DEF OutsideOK, AnsweredOK, Going
<1> QED
  BY <1>2, <1>3

(* Who is given the seat is no longer in line.                             *)
LEMMA PlaceEnters ==
    ASSUME Typed, HandlersOK, NEW p \in Profiles, NEW s \in Slots, Enters(s, p)
    PROVE  AnsweredOK(p)' /\ OutsideOK(p)' /\ HonestOK(p)'
<1>1. /\ call[s].stage = "admit" /\ call[s].next = p /\ p \notin members /\ ~Full
      /\ To(s, "tell") /\ members' = members \cup {p} /\ queue' = Without(queue, p)
  BY DEF Enters, Admit, server
<1>2. ~Waits(p)' /\ ~Outside(p)'
  BY <1>1, WithoutOnce DEF Typed, TypeOK, Waits, Outside
<1> QED
  BY <1>2 DEF AnsweredOK, OutsideOK, HonestOK

(* A page that asks, shows, opens or closes shows no place that is too     *)
(* small.                                                                  *)
LEMMA HonestMoves ==
    ASSUME Typed, NEW p \in Profiles, HonestOK(p),
           \/ ReadRoom(p) \/ ShowRoom(p) \/ Open(p)
           \/ Close(p) \/ LeaveQueueAnswered(p) \/ LeaveAnswered(p)
           \/ AutoJoin(p) \/ JoinQueue(p) \/ LeaveQueue(p) \/ LeaveRoom(p)
    PROVE  HonestOK(p)'
<1>1. (Waits(p)' <=> Waits(p)) /\ queue' = queue
  BY OwnPageRoom DEF OfPage
<1>2. RankIn(queue, p) <= RankIn(queue, p) /\ Unknown.rank = 0
  BY SameLine, ViewTypes
<1>3. \/ call'[p].rank = call[p].rank
      \/ call'[p].rank = page[p].room.rank
      \/ call'[p].rank = 0
  BY OwnCall DEF OfPage, CallIs
<1>4. CASE ReadRoom(p)
  <2>1. UNCHANGED down
    BY <1>4 DEF ReadRoom, wires
  <2>2. PICK v : v = [seat |-> IF p \in members THEN "yes" ELSE "no", rank |-> RankIn(queue, p)]
    OBVIOUS
  <2>3. /\ page'[p].room = page[p].room /\ page'[p].place = page[p].place
        /\ page'[p].read = v
    BY <1>4, <2>2, ReadRoomIs DEF PageIs, Fields
  <2>4. v.rank = RankIn(queue, p)
    BY <2>2
  <2> QED
    BY <1>1, <1>2, <1>3, <2>1, <2>3, <2>4 DEF HonestOK, AtMost
<1>5. CASE ShowRoom(p)
  <2>1. UNCHANGED down
    BY <1>5 DEF ShowRoom
  <2>2. /\ page'[p].room = page[p].read /\ page'[p].place = page[p].place
        /\ page'[p].read = Unknown
    BY <1>5, ShowRoomIs DEF PageIs, Fields
  <2> QED
    BY <1>1, <1>2, <1>3, <2>1, <2>2 DEF HonestOK, AtMost
<1>6. CASE Open(p)
  <2>1. UNCHANGED down
    BY <1>6 DEF Open
  <2>2. /\ page'[p].room = page[p].room \/ page'[p].room = Unknown
        /\ page'[p].place = 0 /\ page'[p].read = Unknown
    BY <1>6, OpenIs DEF PageIs, Fields
  <2> QED
    BY <1>1, <1>2, <1>3, <2>1, <2>2 DEF HonestOK, AtMost
<1>7. CASE Close(p) \/ LeaveQueueAnswered(p) \/ LeaveAnswered(p)
  <2>1. /\ page'[p].room = page[p].room /\ page'[p].place = 0
        /\ page'[p].read = page[p].read \/ page'[p].read = Unknown
    BY <1>7, ClosesIs DEF PageIs, Fields
  <2>2. AtLeast(down'[p], RankIn(queue', p))
    <3>1. PICK d : d = down'[p]
      OBVIOUS
    <3>2. d = <<>>
      BY <1>7, <3>1, ClosesIs DEF Typed, TypeOK
    <3>3. \A n : AtLeast(d, n)
      BY <3>2, NoEvents
    <3> QED
      BY <3>1, <3>3
  <2> QED
    BY <1>1, <1>2, <1>3, <2>1, <2>2 DEF HonestOK, AtMost
<1>8. CASE AutoJoin(p) \/ JoinQueue(p) \/ LeaveQueue(p) \/ LeaveRoom(p)
  <2>1. UNCHANGED down
    BY <1>8 DEF AutoJoin, JoinQueue, LeaveQueue, LeaveRoom, wires
  <2>2. /\ page'[p].room = page[p].room /\ page'[p].place = page[p].place
        /\ page'[p].read = page[p].read
    <3>1. CASE AutoJoin(p)
      BY <3>1, AutoJoinIs DEF PageIs, Fields
    <3>2. CASE UNCHANGED page
      BY <3>2
    <3> QED
      BY <1>8, <3>1, <3>2 DEF JoinQueue, LeaveQueue, LeaveRoom
  <2> QED
    BY <1>1, <1>2, <1>3, <2>1, <2>2 DEF HonestOK, AtMost
<1> QED
  BY <1>4, <1>5, <1>6, <1>7, <1>8

(* Nor does one that hears an event or an answer: the places told are      *)
(* real.                                                                   *)
LEMMA HonestHears ==
    ASSUME Typed, NEW p \in Profiles, HonestOK(p),
           JoinAnswered(p) \/ JoinQueueAnswered(p) \/ Hear(p)
    PROVE  HonestOK(p)'
<1>1. (Waits(p)' <=> Waits(p)) /\ queue' = queue
  BY OwnPageRoom DEF OfPage
<1>2. Unknown.rank = 0
  BY ViewTypes
<1>3. /\ page'[p].room = page[p].room
      /\ page'[p].read = page[p].read \/ page'[p].read = Unknown
  BY OwnKeepsRoom, OwnQuery DEF KeepsRoom, Kept, Rereads
<1>4. CASE JoinAnswered(p) \/ JoinQueueAnswered(p)
  <2>1. UNCHANGED down /\ call'[p] = NoCall
    BY <1>4, DoneIs DEF JoinAnswered, JoinQueueAnswered, wires
  <2>2. page'[p].place = page[p].place \/ page'[p].place = call[p].rank
    <3>1. CASE page' = page
      BY <3>1
    <3>2. CASE JoinAnswered(p) /\ call[p].answer = "seated"
      BY <3>2, JoinAnsweredIs DEF PageIs, Fields
    <3>3. CASE JoinAnswered(p) /\ call[p].answer = "full" /\ page[p].open
      BY <3>3, JoinAnsweredIs DEF PageIs, Fields
    <3>4. CASE JoinQueueAnswered(p) /\ call[p].answer = "seated"
      BY <3>4, JoinQueueAnsweredIs DEF PageIs, Fields
    <3>5. CASE JoinQueueAnswered(p) /\ call[p].answer = "waiting" /\ page[p].open
      BY <3>5, JoinQueueAnsweredIs DEF PageIs, Fields
    <3> QED
      BY <1>4, <3>1, <3>2, <3>3, <3>4, <3>5, JoinAnsweredIs, JoinQueueAnsweredIs
  <2> QED
    BY <1>1, <1>2, <1>3, <2>1, <2>2, NoCallType DEF HonestOK, AtMost
<1>5. CASE Hear(p)
  <2>1. PICK e \in Event, rest \in Seq(Event) : HeardIs(p, e, rest)
    BY <1>5, HearIs
  <2>2. /\ e = Head(down[p]) /\ rest = Tail(down[p]) /\ down[p] # <<>> /\ down'[p] = rest
        /\ e.type \in {"member", "admitted", "waiting", "presence"}
    BY <2>1, EventTypes DEF HeardIs
  <2>3. UNCHANGED call
    BY <1>5 DEF Hear
  <2>4. \A n : AtLeast(down[p], n) => AtLeast(rest, n) /\ (e.type = "waiting" => n <= e.position)
    <3>1. PICK s : s = down[p]
      OBVIOUS
    <3>2. s \in Seq(Event) /\ s # <<>> /\ e = Head(s) /\ rest = Tail(s)
      BY <2>2, <3>1, SlotTypes
    <3>3. \A n : AtLeast(s, n) =>
              AtLeast(Tail(s), n) /\ (Head(s).type = "waiting" => n <= Head(s).position)
      BY <3>2, OneLess
    <3> QED
      BY <3>1, <3>2, <3>3
  <2>5. \/ page'[p].place \in {page[p].place, 0}
        \/ e.type = "waiting" /\ page'[p].place = e.position
    <3>1. CASE e.type \in {"member", "presence"} /\ ~ShowsChat(p)
      BY <2>1, <3>1 DEF HeardIs
    <3>2. CASE e.type = "member" /\ ShowsChat(p)
      BY <2>1, <3>2 DEF HeardIs, PageIs, Fields
    <3>3. CASE e.type = "presence" /\ ShowsChat(p)
      BY <2>1, <3>3 DEF HeardIs, PageIs, Fields
    <3>4. CASE e.type = "waiting"
      BY <2>1, <3>4 DEF HeardIs, PageIs, Fields
    <3>5. CASE e.type = "admitted"
      BY <2>1, <3>5 DEF HeardIs, PageIs, Fields
    <3> QED
      BY <2>2, <3>1, <3>2, <3>3, <3>4, <3>5
  <2>6. AtLeast(down[p], RankIn(queue, p)) =>
           AtLeast(rest, RankIn(queue, p)) /\ (e.type = "waiting" => RankIn(queue, p) <= e.position)
    BY <2>4
  <2> QED
    BY <1>1, <1>2, <1>3, <2>2, <2>3, <2>5, <2>6 DEF HonestOK, AtMost
<1> QED
  BY <1>4, <1>5

(* Nor is it told one when the server or the gateway works for p.          *)
LEMMA HonestServed ==
    ASSUME Typed, Typed', NEW p \in Profiles, PageOK(p), OutsideOK(p), HonestOK(p),
           OfServer(p) \/ OfGateway(p)
    PROVE  HonestOK(p)'
<1>1. /\ HasIn(down'[p], "waiting") => HasIn(down[p], "waiting")
      /\ AtLeast(down[p], RankIn(queue, p)) => AtLeast(down'[p], RankIn(queue, p))
  BY NoPlacesServed DEF NoPlaces
<1>2. CASE OfServer(p)
  <2>1. page' = page
    BY <1>2, ServerKeepsRoom
  <2>2. CASE SamePlace(p)
    BY <1>1, <2>1, <2>2 DEF SamePlace, HonestOK, AtMost
  <2>3. CASE NewPlace(p)
    <3>1. PICK n : n = RankIn(queue', p)
      OBVIOUS
    <3>2. n <= n
      <4>1. Cardinality(Profiles) \in Nat
        BY FS_CardinalityType, SeatsAssumption
      <4>2. n \in Places0
        BY <3>1, RankType DEF Typed, TypeOK
      <4>3. n \in Nat
        BY <4>1, <4>2 DEF Places0, Places1
      <4> QED
        BY <4>3
    <3>3. call'[p].rank = n
      BY <2>3, <3>1 DEF NewPlace
    <3>4. CASE Outside(p)
      <4>1. call[p].kind = "enqueue" /\ ~Going(p)
        BY <2>3 DEF NewPlace, Going
      <4>2. page[p].room.rank = 0 /\ page[p].place = 0 /\ page[p].read.rank = 0
        BY <3>4, <4>1 DEF OutsideOK
      <4>3. ~HasIn(down[p], "waiting")
        <5>1. CASE page[p].open
          BY <3>4, <4>1, <5>1 DEF OutsideOK
        <5>2. CASE ~page[p].open
          <6>1. PICK d : d = down[p]
            OBVIOUS
          <6>2. d = <<>>
            BY <5>2, <6>1 DEF PageOK
          <6>3. ~HasIn(d, "waiting")
            BY <6>2, NoEvents
          <6> QED
            BY <6>1, <6>3
        <5> QED
          BY <5>1, <5>2
      <4>4. AtLeast(down'[p], n)
        BY <1>1, <4>3 DEF HasIn, AtLeast
      <4> QED
        BY <2>1, <3>1, <3>2, <3>3, <4>2, <4>4 DEF HonestOK, AtMost
    <3>5. CASE Waits(p) /\ RankIn(queue', p) = RankIn(queue, p)
      BY <1>1, <2>1, <3>1, <3>2, <3>3, <3>5 DEF HonestOK, AtMost
    <3> QED
      BY <2>3, <3>4, <3>5 DEF NewPlace
  <2> QED
    BY <1>2, <2>2, <2>3, PlaceServed
<1>3. CASE OfGateway(p)
  <2>1. /\ page'[p].room = page[p].room /\ page'[p].read = page[p].read
        /\ page'[p].place = page[p].place /\ queue' = queue /\ call' = call
        /\ Waits(p)' <=> Waits(p)
    BY <1>3, PlaceGateway
  <2> QED
    BY <1>1, <2>1 DEF HonestOK, AtMost
<1> QED
  BY <1>2, <1>3

(* Every step of p's own keeps the conjuncts about the place.              *)
LEMMA PlaceOwn ==
    ASSUME Typed, Typed', NEW p \in Profiles, PageOK(p), AnsweredOK(p), OutsideOK(p), HonestOK(p),
           OfPage(p) \/ OfServer(p) \/ OfGateway(p)
    PROVE  AnsweredOK(p)' /\ OutsideOK(p)' /\ HonestOK(p)'
<1>1. CASE OfPage(p)
  BY <1>1, AnsweredOwn, OutsideMoves, OutsideHears, HonestMoves, HonestHears DEF OfPage
<1>2. CASE OfServer(p) \/ OfGateway(p)
  BY <1>2, OutsideServed, HonestServed
<1> QED
  BY <1>1, <1>2

-----------------------------------------------------------------------------
(* The inductive invariant.                                                *)

(* The inductive invariant: the types, and what holds of each page.        *)
PageInv(p) ==
    /\ PageOK(p) /\ WireOK(p) /\ ShownOK(p)
    /\ RosterOK(p) /\ ReadOK(p) /\ SeatOK(p) /\ StaleOK(p) /\ JoinOK(p) /\ GoneOK(p)
    /\ AnsweredOK(p) /\ OutsideOK(p) /\ HonestOK(p)
RoomPageInv ==
    /\ Typed /\ HandlersOK /\ OnlineOK
    /\ \A p \in Profiles : PageInv(p)

(* The invariant holds at first.                                           *)
LEMMA InitInv ==
    ASSUME Init
    PROVE  RoomPageInv
<1>1. Typed /\ HandlersOK
  BY TypedInit
<1>2. OnlineOK
  BY DEF Init, OnlineOK
<1>3. ASSUME NEW p \in Profiles PROVE PageInv(p)
  <2>1. /\ members = Seated /\ queue = Waiting /\ blocked = {} /\ inRoom = Seated
        /\ online = Seated /\ p \in connected /\ twice = {}
        /\ up[p] = <<>> /\ call[p] = NoCall
    BY <1>3 DEF Init
  <2>2. PICK d : d = down[p]
    OBVIOUS
  <2>3. d = <<>>
    BY <1>3, <2>2 DEF Init
  <2>4. /\ down[p] = <<>> /\ Len(<<>>) = 0
        /\ \A type : ~HasIn(down[p], type)
        /\ \A n : AtLeast(down[p], n)
        /\ \A who : Ends(down[p], who, who)
    BY <2>2, <2>3, NoEvents, EmptySeq
  <2>5. /\ call[p].kind = "none" /\ call[p].stage = "idle" /\ call[p].rank = 0
        /\ Unknown.seat = "unknown" /\ Unknown.rank = 0
    BY <2>1, NoCallType, ViewTypes
  <2>6. Waits(p) => p \notin Seated
    BY <1>3, <2>1, SeatsAssumption, RankIs DEF Waits
  <2>7. CASE p \in Seated
    <3>1. PICK v : v = [seat |-> "yes", rank |-> 0]
      OBVIOUS
    <3>2. v.seat = "yes" /\ v.rank = 0
      BY <3>1
    <3>3. /\ page[p].open /\ page[p].room = v /\ page[p].fetch = "none" /\ page[p].read = Unknown
          /\ page[p].shown = Seated
      BY <1>3, <2>7, <3>1, InitPage DEF Fields
    <3>4. ShowsChat(p) /\ Seat(p)
      BY <3>2, <3>3 DEF ShowsChat, Seat
    <3>5. PageOK(p)
      BY <2>1, <2>5, <3>2, <3>3 DEF PageOK
    <3>6. WireOK(p)
      BY <2>1, <2>4, <2>7, <3>4 DEF WireOK, Wire
    <3>7. ShownOK(p)
      BY <2>1, <2>4, <3>3 DEF ShownOK
    <3>8. RosterOK(p) /\ ReadOK(p) /\ StaleOK(p) /\ JoinOK(p) /\ GoneOK(p)
      BY <2>1, <2>6, <2>7 DEF RosterOK, ReadOK, StaleOK, JoinOK, GoneOK
    <3>9. SeatOK(p)
      BY <3>3, <3>4 DEF SeatOK
    <3>10. AnsweredOK(p) /\ OutsideOK(p) /\ HonestOK(p)
      BY <2>1, <2>5, <2>6, <2>7 DEF AnsweredOK, OutsideOK, HonestOK, Outside
    <3> QED
      BY <3>5, <3>6, <3>7, <3>8, <3>9, <3>10 DEF PageInv
  <2>8. CASE p \notin Seated
    <3>1. /\ page[p].fetch = "none" /\ page[p].read = Unknown /\ page[p].room.seat # "yes"
          /\ page[p].room.rank = 0 /\ ~page[p].missed
          /\ page[p].room.seat = "unknown" => page[p].room = Unknown /\ ~page[p].attempted
          /\ page[p].open <=> Waits(p)
          /\ ~page[p].open => page[p].place = 0 /\ ~page[p].attempted /\ ~page[p].full
          /\ Waits(p) => page[p].place = RankIn(queue, p)
      <4>1. CASE Waits(p)
        <5>1. PICK v : v = [seat |-> "no", rank |-> 0]
          OBVIOUS
        <5>2. v.seat = "no" /\ v.rank = 0
          BY <5>1
        <5>3. Fields(page[p], TRUE, v, "none", Unknown, FALSE, TRUE, TRUE, RankIn(Waiting, p), {},
                     FALSE, FALSE)
          BY <1>3, <2>1, <2>8, <4>1, <5>1, InitPage DEF Waits
        <5> QED
          BY <2>1, <4>1, <5>2, <5>3 DEF Fields
      <4>2. CASE ~Waits(p)
        <5>1. Fields(page[p], FALSE, Unknown, "none", Unknown, FALSE, FALSE, FALSE, 0, {},
                     FALSE, FALSE)
          BY <1>3, <2>1, <2>8, <4>2, InitPage DEF Waits
        <5> QED
          BY <2>5, <4>2, <5>1 DEF Fields
      <4> QED
        BY <4>1, <4>2
    <3>2. ~ShowsChat(p) /\ ~Seat(p)
      BY <3>1 DEF ShowsChat, Seat
    <3>3. PageOK(p)
      BY <2>1, <2>4, <2>5, <3>1 DEF PageOK
    <3>4. WireOK(p)
      BY <2>1, <2>4, <2>8, <3>2 DEF WireOK, Wire
    <3>5. ShownOK(p) /\ RosterOK(p) /\ ReadOK(p) /\ SeatOK(p) /\ JoinOK(p) /\ GoneOK(p)
      BY <2>1, <2>5, <2>8, <3>1, <3>2 DEF ShownOK, RosterOK, ReadOK, SeatOK, JoinOK, GoneOK
    <3>6. StaleOK(p)
      BY <2>5, <3>1, <3>2 DEF StaleOK
    <3>7. AnsweredOK(p) /\ OutsideOK(p)
      BY <2>5, <3>1 DEF AnsweredOK, OutsideOK, Outside
    <3>8. HonestOK(p)
      <4>1. RankIn(queue, p) <= RankIn(queue, p)
        BY <1>1, <1>3, SameLine
      <4> QED
        BY <2>4, <2>5, <3>1, <4>1 DEF HonestOK, AtMost
    <3> QED
      BY <3>3, <3>4, <3>5, <3>6, <3>7, <3>8 DEF PageInv
  <2> QED
    BY <2>7, <2>8
<1> QED
  BY <1>1, <1>2, <1>3 DEF RoomPageInv

(* Nobody else spoils p's.                                                 *)
LEMMA OthersInv ==
    ASSUME RoomPageInv, Typed', NEW p \in Profiles, Untouched(p), Passed(p), MoreHeard(p)
    PROVE  PageInv(p)'
<1>1. Typed /\ PageInv(p)
  BY DEF RoomPageInv
<1> QED
  BY <1>1, OthersPage, OthersSeat, OthersAnswered, OthersPlace DEF PageInv

(* What p does, and what is done for p, keeps p's.                         *)
LEMMA OwnInv ==
    ASSUME RoomPageInv, Typed', NEW p \in Profiles, OfPage(p) \/ OfServer(p) \/ OfGateway(p)
    PROVE  PageInv(p)'
<1>1. Typed /\ HandlersOK /\ PageInv(p)
  BY DEF RoomPageInv
<1>2. /\ PageOK(p) /\ WireOK(p) /\ ShownOK(p)
      /\ RosterOK(p) /\ ReadOK(p) /\ SeatOK(p) /\ StaleOK(p) /\ JoinOK(p) /\ GoneOK(p)
      /\ AnsweredOK(p) /\ OutsideOK(p) /\ HonestOK(p)
  BY <1>1 DEF PageInv
<1>3. PageOK(p)' /\ WireOK(p)' /\ ShownOK(p)'
  BY <1>1, <1>2, PageOKStep, WireStep, ShownStep
<1>4. RosterOK(p)' /\ ReadOK(p)' /\ SeatOK(p)' /\ StaleOK(p)' /\ JoinOK(p)' /\ GoneOK(p)'
  BY <1>1, <1>2, RosterOwn, SeatOwn, SeatServed, SeatGateway
<1>5. AnsweredOK(p)' /\ OutsideOK(p)' /\ HonestOK(p)'
  BY <1>1, <1>2, PlaceOwn
<1> QED
  BY <1>3, <1>4, <1>5 DEF PageInv

(* So does giving him the seat.                                            *)
LEMMA EntersInv ==
    ASSUME RoomPageInv, NEW p \in Profiles, NEW s \in Slots, Enters(s, p)
    PROVE  PageInv(p)'
<1>1. Typed /\ HandlersOK /\ PageInv(p)
  BY DEF RoomPageInv
<1>2. /\ PageOK(p) /\ WireOK(p) /\ ShownOK(p)
      /\ RosterOK(p) /\ ReadOK(p) /\ SeatOK(p) /\ StaleOK(p) /\ JoinOK(p) /\ GoneOK(p)
  BY <1>1 DEF PageInv
<1>3. PageOK(p)' /\ WireOK(p)' /\ ShownOK(p)'
  BY <1>1, <1>2, PageOKStep, WireStep, ShownStep DEF Enters
<1>4. RosterOK(p)' /\ ReadOK(p)' /\ SeatOK(p)' /\ StaleOK(p)' /\ JoinOK(p)' /\ GoneOK(p)'
  BY <1>1, <1>2, SeatEnters
<1>5. AnsweredOK(p)' /\ OutsideOK(p)' /\ HonestOK(p)'
  BY <1>1, PlaceEnters
<1> QED
  BY <1>3, <1>4, <1>5 DEF PageInv

(* Every step keeps all of it.                                             *)
LEMMA NextInv ==
    ASSUME RoomPageInv, [Next]_vars
    PROVE  RoomPageInv'
<1>1. Typed' /\ HandlersOK' /\ OnlineOK'
  BY TypedStep, OnlineStep DEF RoomPageInv
<1>2. ASSUME NEW p \in Profiles PROVE PageInv(p)'
  <2>0. Typed /\ HandlersOK /\ PageInv(p)
    BY <1>2 DEF RoomPageInv
  <2>1. ASSUME NEW q \in Profiles, OfPage(q) \/ OfServer(q) \/ OfGateway(q) PROVE PageInv(p)'
    <3>1. CASE p = q
      BY <1>1, <1>2, <2>1, <3>1, OwnInv
    <3>2. CASE p # q
      BY <1>1, <1>2, <2>0, <2>1, <3>2, OtherPage, OtherServer, OtherGateway, OthersInv
    <3> QED
      BY <3>1, <3>2
  <2>2. ASSUME NEW s \in Slots, OfHandler(s) PROVE PageInv(p)'
    <3>1. CASE Enters(s, p)
      BY <1>2, <2>2, <3>1, EntersInv
    <3>2. CASE ~Enters(s, p)
      BY <1>1, <1>2, <2>0, <2>2, <3>2, OtherHandler, OthersInv
    <3> QED
      BY <3>1, <3>2
  <2>3. CASE UNCHANGED vars
    <3>1. UNCHANGED <<members, queue, blocked, online, inRoom, connected, up, down, call, page,
                      dropped, twice>>
      BY <2>3 DEF vars, server, gateway, wires, history
    <3>2. Untouched(p)
      BY <3>1 DEF Untouched
    <3>3. Passed(p)
      <4>1. RankIn(queue, p) <= RankIn(queue, p)
        BY <1>2, <2>0, SameLine
      <4> QED
        BY <3>1, <4>1 DEF Passed, Waits, Promoted, Told
    <3>4. MoreHeard(p)
      BY <3>1 DEF MoreHeard
    <3> QED
      BY <1>1, <1>2, <3>2, <3>3, <3>4, OthersInv
  <2> QED
    BY <2>1, <2>2, <2>3 DEF Next, Slots
<1> QED
  BY <1>1, <1>2 DEF RoomPageInv

(* Whatever order answers, events and reads arrive in (use-chat-room.ts),  *)
(* and whatever the handlers of chatrooms.service.ts and chat.gateway.ts   *)
(* do meanwhile, the inductive invariant holds.                            *)
THEOREM RoomPageInvariance == Spec => []RoomPageInv
<1>1. Init => RoomPageInv
  BY InitInv
<1>2. RoomPageInv /\ [Next]_vars => RoomPageInv'
  BY NextInv
<1> QED
  BY <1>1, <1>2, PTL DEF Spec

(* Every variable keeps its type: no place past the end of the line, no    *)
(* event but the hook's, no request but one at a time of a profile,        *)
(* whatever join, enqueue, leave and kick do.                              *)
THEOREM TypesHold == Spec => []TypeOK
<1>1. RoomPageInv => TypeOK
  BY DEF RoomPageInv, Typed
<1> QED
  BY <1>1, RoomPageInvariance, PTL

(* The green dots: when nothing is on its way, whoever receives the room's *)
(* channel is online, and a page in touch shows exactly the online set, in *)
(* whatever order onJoinRoom, onLeaveRoom and handleDisconnect have        *)
(* broadcast it.                                                           *)
THEOREM PresenceAgreeing == Spec => []PresenceAgrees
<1>1. ASSUME RoomPageInv, Quiet
      PROVE  /\ inRoom \subseteq online /\ online \ dropped \subseteq inRoom
             /\ \A p \in inRoom : ShowsChat(p)
                    /\ (InTouch(p) => page[p].shown = online)
  <2>1. inRoom \subseteq online /\ online \ dropped \subseteq inRoom /\ inRoom \subseteq Profiles
    BY <1>1 DEF RoomPageInv, OnlineOK, Typed, TypeOK
  <2>2. ASSUME NEW p \in inRoom PROVE ShowsChat(p) /\ page[p].shown = online
    <3>1. p \in Profiles /\ up[p] = <<>> /\ down[p] = <<>>
      BY <1>1, <2>1, <2>2 DEF Quiet
    <3>2. WireOK(p) /\ ShownOK(p)
      BY <1>1, <3>1 DEF RoomPageInv, PageInv
    <3>3. ShowsChat(p)
      BY <2>2, <3>1, <3>2 DEF WireOK, Wire
    <3>4. PICK d : d = down[p]
      OBVIOUS
    <3>5. Ends(d, page[p].shown, online)
      BY <2>2, <3>1, <3>2, <3>3, <3>4 DEF ShownOK
    <3>6. ~HasIn(d, "presence")
      BY <3>1, <3>4, NoEvents
    <3> QED
      BY <3>3, <3>5, <3>6 DEF Ends
  <2> QED
    BY <2>1, <2>2
<1>2. RoomPageInv => PresenceAgrees
  BY <1>1 DEF PresenceAgrees
<1> QED
  BY <1>2, RoomPageInvariance, PTL

(* When nothing is on its way, the page of somebody with a seat shows the  *)
(* chat and receives the room's channel, and nobody without a seat         *)
(* receives it: no order of the auto-join's answer, QUEUE_ADMITTED, the    *)
(* reads of the room and a kick leaves a seat without a chat.              *)
THEOREM SeatsReachPages == Spec => []SeatReachesPage
<1>1. ASSUME RoomPageInv, Quiet, NEW p \in Profiles, InTouch(p)
      PROVE  /\ p \in members \ twice => ShowsChat(p) /\ p \in inRoom
             /\ p \in inRoom => p \in members
  <2>1. /\ up[p] = <<>> /\ down[p] = <<>> /\ page[p].fetch = "none"
        /\ page[p].room.seat = "no" => page[p].attempted
        /\ page[p].open /\ p \in connected
        /\ \A s \in Slots : call[s] = NoCall
        /\ p \in Slots
    BY <1>1 DEF Quiet, InTouch, Slots
  <2>2. /\ PageInv(p)
    BY <1>1 DEF RoomPageInv
  <2>3. /\ ~Granted(p) /\ ~Told(p) /\ call[p].kind = "none"
    BY <2>1, NoCallType DEF Granted, Told
  <2>4. ~HasIn(down[p], "admitted") /\ ~HasIn(down[p], "member")
    <3>1. PICK d : d = down[p]
      OBVIOUS
    <3>2. \A type : ~HasIn(d, type)
      BY <2>1, <3>1, NoEvents
    <3> QED
      BY <3>1, <3>2
  <2>5. p \in inRoom => ShowsChat(p)
    BY <2>1, <2>2 DEF PageInv, WireOK, Wire
  <2>6. p \in inRoom => p \in members
    BY <2>1, <2>2, <2>3, <2>4, <2>5 DEF PageInv, GoneOK
  <2>7. ASSUME p \in members \ twice PROVE ShowsChat(p) /\ p \in inRoom
    <3>1. p \notin blocked
      BY <2>2, <2>7 DEF PageInv, RosterOK
    <3>2. Seat(p)
      BY <1>1, <2>1, <2>2, <2>3, <2>4, <2>7, <3>1 DEF PageInv, SeatOK
    <3>3. ShowsChat(p)
      BY <2>1, <3>2 DEF ShowsChat
    <3> QED
      BY <2>1, <2>2, <2>7, <3>3 DEF PageInv, JoinOK
  <2> QED
    BY <2>6, <2>7
<1>2. RoomPageInv => SeatReachesPage
  BY <1>1 DEF SeatReachesPage
<1> QED
  BY <1>2, RoomPageInvariance, PTL

(* A page never promises a smaller place than the real one, and when       *)
(* nothing is on its way who is shown a place stands in line, whatever     *)
(* order the answers of enqueue, QUEUE_POSITION events and reads arrive    *)
(* in.                                                                     *)
THEOREM PlacesAreHonest == Spec => []PlaceIsHonest
<1>1. ASSUME RoomPageInv, NEW p \in Profiles, page[p].place # 0, Contains(queue, p)
      PROVE  RankIn(queue, p) <= page[p].place
  BY <1>1 DEF RoomPageInv, PageInv, HonestOK, AtMost, Waits
<1>2. ASSUME RoomPageInv, Quiet, NEW p \in Profiles, InTouch(p), ShowsPlace(p), ~page[p].kept,
             p \notin blocked
      PROVE  Contains(queue, p)
  <2>1. /\ down[p] = <<>> /\ page[p].fetch = "none" /\ page[p].open
        /\ page[p].room.seat = "no" => page[p].attempted
        /\ \A s \in Slots : call[s] = NoCall
        /\ p \in Slots
    BY <1>2 DEF Quiet, InTouch, Slots
  <2>2. PageInv(p)
    BY <1>2 DEF RoomPageInv
  <2>3. ~Granted(p) /\ ~Told(p) /\ ~Going(p)
    BY <2>1, NoCallType DEF Granted, Told, Going
  <2>4. ~HasIn(down[p], "admitted")
    <3>1. PICK d : d = down[p]
      OBVIOUS
    <3>2. ~HasIn(d, "admitted")
      BY <2>1, <3>1, NoEvents
    <3> QED
      BY <3>1, <3>2
  <2>5. p \notin members
    BY <1>2, <2>1, <2>2, <2>3, <2>4 DEF PageInv, SeatOK, ShowsPlace, DialogOpen
  <2>6. SUFFICES ASSUME ~Waits(p) PROVE FALSE
    BY DEF Waits
  <2> QED
    BY <1>2, <2>1, <2>2, <2>3, <2>5, <2>6 DEF PageInv, OutsideOK, Outside, ShowsPlace
<1>3. RoomPageInv => PlaceIsHonest
  BY <1>1, <1>2 DEF PlaceIsHonest
<1> QED
  BY <1>3, RoomPageInvariance, PTL

=============================================================================
