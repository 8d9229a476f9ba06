--------------------------- MODULE PresenceProofs ---------------------------
(***************************************************************************)
(* What holds of Presence for any profiles, tabs, pods, capacity and       *)
(* number of failures: the types, and under the conditions of MCPresence   *)
(* that who is scheduled to be swept follows who is connected.             *)
(***************************************************************************)
EXTENDS MCPresence, SequenceTheorems, TLAPS

(* A profile has one connection.  With two of them the second conclusion   *)
(* is false: see SweptOnlyOffline.                                         *)
OneTab == \A s, t \in Tabs : s = t

-----------------------------------------------------------------------------
(* The inductive invariant.                                                *)

Busy == {"check", "release", "admit", "waiting", "cancel", "zrem"}

RoomTypes ==
    /\ socket \in [Profiles \X Tabs -> {"off", "connecting", "on", "closing"}]
    /\ lock \in BOOLEAN /\ failures \in Nat
    /\ members \subseteq Profiles /\ queue \in Line
    /\ participant \in [Profiles -> {"none", "live", "left"}]
    /\ entries \in [Profiles -> SUBSET QueueStatus]

ScheduleTypes ==
    /\ grace \in Line /\ due \in Line
    /\ \A p \in Profiles : ~(Contains(grace, p) /\ Contains(due, p))

TickTypes ==
    /\ tick \in [Sweepers -> Tick]
    /\ \A w \in Sweepers :
          /\ tick[w].batch \in Line
          /\ tick[w].stage \in Busy => tick[w].batch # <<>>
          /\ tick[w].stage \in {"idle", "read"} => tick[w].batch = <<>>
          /\ tick[w].stage = "admit" => tick[w].next \in Profiles

PresenceTypes == RoomTypes /\ ScheduleTypes /\ TickTypes

(* A socket that is open, or whose end is not noticed yet, keeps its       *)
(* profile off the list.                                                   *)
SocketInv ==
    \A p \in Profiles : \A t \in Tabs :
        socket[<<p, t>>] \in {"on", "closing"} => ~Contains(grace, p) /\ ~Contains(due, p)

Awaited(p) == Gone(p) => Contains(grace, p) \/ Contains(due, p)

SeatInv == \A p \in Profiles : Holds(p) => Awaited(p)

(* Redis and Postgres agree as far as the sweeper relies on it: a member   *)
(* has an open row and is not in line, a profile in line a waiting row.    *)
RoomInv ==
    \A p \in Profiles :
        /\ p \in members => participant[p] = "live" /\ ~Contains(queue, p)
        /\ Contains(queue, p) => "WAITING" \in entries[p]

(* One tick at a time ...                                                  *)
LockInv ==
    \A v, w \in Sweepers : ~At(w, "idle") => lock /\ (~At(v, "idle") => v = w)

(* ... over profiles that are gone and cannot ask for anything ...         *)
ListInv ==
    \A w \in Sweepers : \A p \in Profiles :
        Contains(tick[w].batch, p) => Gone(p) /\ ~Contains(grace, p)

(* ... each of which has by the end neither a seat nor a place.            *)
SweepInv ==
    \A w \in Sweepers :
        /\ At(w, "release") => Swept(w) \in members
        /\ At(w, "admit") => tick[w].next # Swept(w) /\ Awaited(tick[w].next)
        /\ tick[w].stage \in {"admit", "waiting", "cancel", "zrem"} => Swept(w) \notin members
        /\ At(w, "zrem") => ~Contains(queue, Swept(w))

PresenceInv == SocketInv /\ SeatInv /\ RoomInv /\ LockInv /\ ListInv /\ SweepInv

-----------------------------------------------------------------------------
(* Lines.                                                                  *)

LEMMA LineIs ==
    ASSUME NEW s \in Line
    PROVE  /\ s \in Seq(Profiles) /\ Len(s) \in Nat /\ DOMAIN s = 1 .. Len(s)
           /\ \A i \in 1 .. Len(s) : s[i] \in Profiles
           /\ \A i, j \in 1 .. Len(s) : s[i] = s[j] => i = j
<1>1. s \in Seq(Profiles) /\ IsInjective(s)
  BY DEF Line
<1>2. Len(s) \in Nat /\ DOMAIN s = 1 .. Len(s) /\ \A i \in 1 .. Len(s) : s[i] \in Profiles
  BY <1>1, LenProperties
<1> QED
  BY <1>1, <1>2 DEF IsInjective

LEMMA InLine ==
    ASSUME NEW s \in Line, NEW q, Contains(s, q)
    PROVE  q \in Profiles
BY LineIs DEF Contains

LEMMA EmptyLine == <<>> \in Line /\ \A q : ~Contains(<<>>, q)
<1>1. <<>> \in Seq(Profiles) /\ Len(<<>>) = 0
  BY EmptySeq
<1>2. DOMAIN <<>> = 1 .. 0
  BY <1>1, LenProperties
<1> QED
  BY <1>1, <1>2 DEF Line, IsInjective, Contains

(* ZREM takes out that member and no other.                                *)
LEMMA WithoutLine ==
    ASSUME NEW s \in Line, NEW p
    PROVE  /\ Without(s, p) \in Line
           /\ \A q : Contains(Without(s, p), q) <=> Contains(s, q) /\ q # p
<1>0. /\ s \in Seq(Profiles) /\ Len(s) \in Nat /\ DOMAIN s = 1 .. Len(s)
      /\ \A i \in 1 .. Len(s) : s[i] \in Profiles
      /\ \A i, j \in 1 .. Len(s) : s[i] = s[j] => i = j
  BY LineIs
<1>1. CASE ~Contains(s, p)
  BY <1>1 DEF Without
<1>2. CASE Contains(s, p)
  <2>1. PICK k \in 1 .. Len(s) : k = CHOOSE i \in DOMAIN s : s[i] = p
    BY <1>0, <1>2 DEF Contains
  <2>2. s[k] = p
    BY <1>0, <1>2, <2>1 DEF Contains
  <2> DEFINE a == SubSeq(s, 1, k - 1)
             b == SubSeq(s, k + 1, Len(s))
             t == a \o b
  <2>3. Without(s, p) = t
    BY <1>2, <2>1 DEF Without, RemoveAt
  <2>4. /\ a \in Seq(Profiles) /\ Len(a) = k - 1 /\ \A i \in 1 .. k - 1 : a[i] = s[i]
    <3>1. 1 \in Int /\ k - 1 \in Int /\ \A i \in 1 .. k - 1 : s[i] \in Profiles
      BY <1>0
    <3>2. /\ a \in Seq(Profiles) /\ Len(a) = IF 1 <= k - 1 THEN k - 1 - 1 + 1 ELSE 0
          /\ \A i \in 1 .. k - 1 - 1 + 1 : a[i] = s[1 + i - 1]
      BY <3>1, SubSeqProperties
    <3> HIDE DEF a
    <3> QED
      BY <1>0, <3>2
  <2>5. /\ b \in Seq(Profiles) /\ Len(b) = Len(s) - k
        /\ \A i \in 1 .. Len(s) - k : b[i] = s[k + i]
    <3>1. k + 1 \in Int /\ Len(s) \in Int /\ \A i \in k + 1 .. Len(s) : s[i] \in Profiles
      BY <1>0
    <3>2. /\ b \in Seq(Profiles)
          /\ Len(b) = IF k + 1 <= Len(s) THEN Len(s) - (k + 1) + 1 ELSE 0
          /\ \A i \in 1 .. Len(s) - (k + 1) + 1 : b[i] = s[k + 1 + i - 1]
      BY <3>1, SubSeqProperties
    <3> HIDE DEF b
    <3>3. Len(b) = Len(s) - k
      <4>1. \A n \in Nat : \A j \in 1 .. n :
               (IF j + 1 <= n THEN n - (j + 1) + 1 ELSE 0) = n - j
        OBVIOUS
      <4> QED
        BY <1>0, <3>2, <4>1
    <3>4. \A i \in 1 .. Len(s) - k : i \in 1 .. Len(s) - (k + 1) + 1 /\ k + 1 + i - 1 = k + i
      BY <1>0
    <3> QED
      BY <3>2, <3>3, <3>4
  <2> HIDE DEF a, b
  <2>6. /\ t \in Seq(Profiles) /\ Len(t) = Len(s) - 1
        /\ \A i \in 1 .. Len(s) - 1 : t[i] = IF i <= k - 1 THEN s[i] ELSE s[i + 1]
    <3>1. /\ t \in Seq(Profiles) /\ Len(t) = Len(a) + Len(b)
          /\ \A i \in 1 .. Len(a) + Len(b) : t[i] = IF i <= Len(a) THEN a[i] ELSE b[i - Len(a)]
      BY <2>4, <2>5, ConcatProperties
    <3> HIDE DEF t
    <3>2. Len(t) = Len(s) - 1
      BY <1>0, <2>4, <2>5, <3>1
    <3>3. ASSUME NEW i \in 1 .. Len(s) - 1
          PROVE  t[i] = IF i <= k - 1 THEN s[i] ELSE s[i + 1]
      <4>1. t[i] = IF i <= k - 1 THEN a[i] ELSE b[i - (k - 1)]
        BY <1>0, <2>4, <2>5, <3>1
      <4>2. i <= k - 1 => a[i] = s[i]
        BY <1>0, <2>4
      <4>3. ~(i <= k - 1) => i - (k - 1) \in 1 .. Len(s) - k /\ k + (i - (k - 1)) = i + 1
        BY <1>0
      <4> QED
        BY <2>5, <4>1, <4>2, <4>3
    <3> QED
      BY <3>1, <3>2, <3>3
  <2> HIDE DEF t
  <2>7. DOMAIN t = 1 .. Len(s) - 1
    BY <2>6, LenProperties
  <2>8. t \in Line
    BY <1>0, <2>6, <2>7 DEF Line, IsInjective
  <2>9. ASSUME NEW q PROVE Contains(t, q) <=> Contains(s, q) /\ q # p
    <3>1. ASSUME Contains(t, q) PROVE Contains(s, q) /\ q # p
      <4>1. PICK i \in 1 .. Len(s) - 1 : t[i] = q
        BY <2>6, <3>1 DEF Contains
      <4>2. PICK j \in 1 .. Len(s) : s[j] = q /\ j # k
        BY <1>0, <2>6, <4>1
      <4> QED
        BY <1>0, <2>2, <4>2 DEF Contains
    <3>2. ASSUME Contains(s, q), q # p PROVE Contains(t, q)
      <4>1. PICK j \in 1 .. Len(s) : s[j] = q
        BY <3>2 DEF Contains
      <4>2. j # k
        BY <2>2, <3>2, <4>1
      <4>3. PICK i \in 1 .. Len(s) - 1 : i = IF j < k THEN j ELSE j - 1
        BY <1>0, <4>2
      <4>4. t[i] = s[j]
        BY <1>0, <2>6, <4>2, <4>3
      <4> QED
        BY <2>6, <4>1, <4>4 DEF Contains
    <3> QED
      BY <3>1, <3>2
  <2> QED
    BY <2>3, <2>8, <2>9
<1> QED
  BY <1>1, <1>2

(* ZADD of a profile that is not there, with the highest score.            *)
LEMMA AppendLine ==
    ASSUME NEW s \in Line, NEW p \in Profiles, ~Contains(s, p)
    PROVE  /\ Append(s, p) \in Line
           /\ \A q : Contains(Append(s, p), q) <=> Contains(s, q) \/ q = p
<1>0. /\ s \in Seq(Profiles) /\ Len(s) \in Nat
      /\ \A i, j \in 1 .. Len(s) : s[i] = s[j] => i = j
  BY LineIs
<1> DEFINE t == Append(s, p)
<1>1. /\ t \in Seq(Profiles) /\ Len(t) = Len(s) + 1
      /\ \A i \in 1 .. Len(s) : t[i] = s[i]
      /\ t[Len(s) + 1] = p
  BY <1>0, AppendProperties
<1> HIDE DEF t
<1>2. DOMAIN t = 1 .. Len(s) + 1
  BY <1>1, LenProperties
<1>3. t \in Line
  BY <1>0, <1>1, <1>2 DEF Line, IsInjective, Contains
<1>4. \A q : Contains(t, q) <=> Contains(s, q) \/ q = p
  <2>1. ASSUME NEW q, Contains(t, q) PROVE Contains(s, q) \/ q = p
    BY <1>0, <1>1, <2>1 DEF Contains
  <2>2. ASSUME NEW q, Contains(s, q) \/ q = p PROVE Contains(t, q)
    BY <1>0, <1>1, <2>2 DEF Contains
  <2> QED
    BY <2>1, <2>2
<1> QED
  BY <1>3, <1>4 DEF t

LEMMA TailLine ==
    ASSUME NEW s \in Line, s # <<>>
    PROVE  /\ Head(s) \in Profiles /\ Contains(s, Head(s)) /\ Tail(s) \in Line
           /\ \A q : Contains(Tail(s), q) <=> Contains(s, q) /\ q # Head(s)
<1>0. /\ s \in Seq(Profiles) /\ Len(s) \in Nat \ {0}
      /\ \A i, j \in 1 .. Len(s) : s[i] = s[j] => i = j
  BY LineIs, EmptySeq
<1> DEFINE t == Tail(s)
<1>1. /\ Head(s) \in Profiles /\ t \in Seq(Profiles) /\ Len(t) = Len(s) - 1
      /\ \A i \in 1 .. Len(t) : t[i] = s[i + 1]
  BY <1>0, HeadTailProperties
<1>2. Head(s) = s[1]
  BY <1>0
<1> HIDE DEF t
<1>3. DOMAIN t = 1 .. Len(s) - 1
  BY <1>1, LenProperties
<1>4. t \in Line
  BY <1>0, <1>1, <1>3 DEF Line, IsInjective
<1>5. \A q : Contains(t, q) <=> Contains(s, q) /\ q # Head(s)
  <2>1. ASSUME NEW q, Contains(t, q) PROVE Contains(s, q) /\ q # Head(s)
    <3>1. PICK i \in 1 .. Len(s) - 1 : s[i + 1] = q
      BY <1>1, <2>1 DEF Contains
    <3>2. i + 1 \in 1 .. Len(s) /\ i + 1 # 1 /\ 1 \in 1 .. Len(s)
      BY <1>0
    <3> QED
      BY <1>0, <1>2, <3>1, <3>2 DEF Contains
  <2>2. ASSUME NEW q, Contains(s, q), q # Head(s) PROVE Contains(t, q)
    <3>1. PICK j \in 1 .. Len(s) : s[j] = q
      BY <2>2 DEF Contains
    <3>2. j - 1 \in 1 .. Len(t) /\ (j - 1) + 1 = j
      BY <1>0, <1>1, <1>2, <2>2, <3>1
    <3> QED
      BY <1>1, <3>1, <3>2 DEF Contains
  <2> QED
    BY <2>1, <2>2
<1> QED
  BY <1>0, <1>1, <1>2, <1>4, <1>5 DEF Contains, t

(* Two lines without a common member, one after the other.                 *)
LEMMA ConcatLine ==
    ASSUME NEW g \in Line, NEW d \in Line
    PROVE  /\ \A q : Contains(g \o d, q) <=> Contains(g, q) \/ Contains(d, q)
           /\ (\A q \in Profiles : ~(Contains(g, q) /\ Contains(d, q))) => g \o d \in Line
<1>0. /\ g \in Seq(Profiles) /\ Len(g) \in Nat /\ d \in Seq(Profiles) /\ Len(d) \in Nat
      /\ \A i \in 1 .. Len(g) : g[i] \in Profiles
      /\ \A i, j \in 1 .. Len(g) : g[i] = g[j] => i = j
      /\ \A i, j \in 1 .. Len(d) : d[i] = d[j] => i = j
  BY LineIs
<1> DEFINE t == g \o d
<1>1. /\ t \in Seq(Profiles) /\ Len(t) = Len(g) + Len(d)
      /\ \A i \in 1 .. Len(g) + Len(d) : t[i] = IF i <= Len(g) THEN g[i] ELSE d[i - Len(g)]
  BY <1>0, ConcatProperties
<1> HIDE DEF t
<1>2. DOMAIN t = 1 .. Len(g) + Len(d)
  BY <1>1, LenProperties
<1>3. \A i \in 1 .. Len(g) : i \in 1 .. Len(g) + Len(d) /\ t[i] = g[i]
  BY <1>0, <1>1
<1>4. \A i \in 1 .. Len(d) : i + Len(g) \in 1 .. Len(g) + Len(d) /\ t[i + Len(g)] = d[i]
  <2> TAKE i \in 1 .. Len(d)
  <2>1. /\ i + Len(g) \in 1 .. Len(g) + Len(d) /\ ~(i + Len(g) <= Len(g))
        /\ (i + Len(g)) - Len(g) = i
    BY <1>0
  <2> QED
    BY <1>1, <2>1
<1>5. \A i \in 1 .. Len(g) + Len(d) :
         \/ i \in 1 .. Len(g) /\ t[i] = g[i]
         \/ i > Len(g) /\ i - Len(g) \in 1 .. Len(d) /\ t[i] = d[i - Len(g)]
  BY <1>0, <1>1
<1>6. \A q : Contains(t, q) <=> Contains(g, q) \/ Contains(d, q)
  <2>1. ASSUME NEW q, Contains(t, q) PROVE Contains(g, q) \/ Contains(d, q)
    BY <1>1, <1>5, <2>1 DEF Contains
  <2>2. ASSUME NEW q, Contains(g, q) PROVE Contains(t, q)
    BY <1>1, <1>3, <2>2 DEF Contains
  <2>3. ASSUME NEW q, Contains(d, q) PROVE Contains(t, q)
    BY <1>1, <1>4, <2>3 DEF Contains
  <2> QED
    BY <2>1, <2>2, <2>3
<1>7. ASSUME \A q \in Profiles : ~(Contains(g, q) /\ Contains(d, q)) PROVE t \in Line
  <2>1. \A i \in 1 .. Len(g), j \in 1 .. Len(d) : g[i] # d[j]
    BY <1>0, <1>7 DEF Contains
  <2>2. ASSUME NEW i \in 1 .. Len(g) + Len(d), NEW j \in 1 .. Len(g) + Len(d), t[i] = t[j]
        PROVE  i = j
    <3>1. CASE i \in 1 .. Len(g) /\ j \in 1 .. Len(g)
      BY <1>0, <1>3, <2>2, <3>1
    <3>2. CASE i > Len(g) /\ j > Len(g)
      <4>1. /\ i - Len(g) \in 1 .. Len(d) /\ j - Len(g) \in 1 .. Len(d)
            /\ d[i - Len(g)] = d[j - Len(g)]
        BY <1>0, <1>5, <2>2, <3>2
      <4>2. i - Len(g) = j - Len(g)
        BY <1>0, <4>1
      <4> QED
        BY <1>0, <4>2
    <3>3. CASE i \in 1 .. Len(g) /\ j > Len(g)
      BY <1>0, <1>5, <2>1, <2>2, <3>3
    <3>4. CASE j \in 1 .. Len(g) /\ i > Len(g)
      BY <1>0, <1>5, <2>1, <2>2, <3>4
    <3> QED
      BY <1>5, <3>1, <3>2, <3>3, <3>4
  <2> QED
    BY <1>1, <1>2, <2>2 DEF Line, IsInjective
<1> QED
  BY <1>6, <1>7 DEF t

-----------------------------------------------------------------------------
(* Types.                                                                  *)

LEMMA TypesAreOK == PresenceTypes => TypeOK
<1> SUFFICES ASSUME PresenceTypes PROVE TypeOK
  OBVIOUS
<1>1. grace \o due \in Line
  BY ConcatLine DEF PresenceTypes, ScheduleTypes
<1> QED
  BY <1>1 DEF PresenceTypes, RoomTypes, TickTypes, TypeOK

(* What a sweeper's step does to its tick.                                 *)
Stages == {"idle", "read", "next", "check", "release", "admit", "waiting", "cancel", "zrem"}

TickBecomes(w, stage, batch, next) ==
    /\ tick' \in [Sweepers -> Tick]
    /\ tick'[w].stage = stage /\ tick'[w].batch = batch /\ tick'[w].next = next
    /\ \A v \in Sweepers : v # w => tick'[v] = tick[v]

LEMMA TickFields ==
    ASSUME TickTypes, NEW w \in Sweepers
    PROVE  /\ tick[w] \in Tick /\ tick[w].stage \in Stages
           /\ tick[w].batch \in Seq(Profiles) /\ tick[w].batch \in Line
           /\ tick[w].next \in Profiles \cup {NoProfile}
BY DEF TickTypes, Tick, Stages

LEMMA Becomes ==
    ASSUME TickTypes, NEW w \in Sweepers, NEW x \in Tick, tick' = [tick EXCEPT ![w] = x]
    PROVE  TickBecomes(w, x.stage, x.batch, x.next)
BY DEF TickTypes, TickBecomes

(* The ways the actions write it.                                          *)
LEMMA TickWrites ==
    ASSUME TickTypes, NEW w \in Sweepers, NEW s \in Stages, NEW b \in Line,
           NEW n \in Profiles \cup {NoProfile}
    PROVE  /\ Goto(w, s) => TickBecomes(w, s, tick[w].batch, tick[w].next)
           /\ Abort(w) => TickBecomes(w, "idle", <<>>, NoProfile)
           /\ tick' = [tick EXCEPT ![w].batch = b, ![w].stage = s] =>
                TickBecomes(w, s, b, tick[w].next)
           /\ tick' = [tick EXCEPT ![w].next = n, ![w].stage = s] =>
                TickBecomes(w, s, tick[w].batch, n)
<1> DEFINE x == tick[w]
<1>1. x \in Tick /\ x.batch \in Seq(Profiles) /\ x.next \in Profiles \cup {NoProfile}
  BY TickFields
<1>2. b \in Seq(Profiles)
  BY DEF Line
<1>3. tick \in [Sweepers -> Tick]
  BY DEF TickTypes
<1>4. ASSUME NEW y \in Tick
      PROVE  /\ [y EXCEPT !.stage = s] \in Tick
             /\ [y EXCEPT !.stage = s].stage = s
             /\ [y EXCEPT !.stage = s].batch = y.batch
             /\ [y EXCEPT !.stage = s].next = y.next
  BY <1>4 DEF Tick, Stages
<1>5. ASSUME NEW y \in Tick
      PROVE  /\ [y EXCEPT !.batch = b, !.stage = s] \in Tick
             /\ [y EXCEPT !.batch = b, !.stage = s].stage = s
             /\ [y EXCEPT !.batch = b, !.stage = s].batch = b
             /\ [y EXCEPT !.batch = b, !.stage = s].next = y.next
  BY <1>2, <1>5 DEF Tick, Stages
<1>6. ASSUME NEW y \in Tick
      PROVE  /\ [y EXCEPT !.next = n, !.stage = s] \in Tick
             /\ [y EXCEPT !.next = n, !.stage = s].stage = s
             /\ [y EXCEPT !.next = n, !.stage = s].batch = y.batch
             /\ [y EXCEPT !.next = n, !.stage = s].next = n
  BY <1>6 DEF Tick, Stages
<1>7. Resting \in Tick /\ Resting.stage = "idle" /\ Resting.batch = <<>> /\ Resting.next = NoProfile
  BY EmptySeq DEF Resting, Tick
<1>8. ASSUME Goto(w, s) PROVE TickBecomes(w, s, x.batch, x.next)
  <2>1. tick' = [tick EXCEPT ![w] = [x EXCEPT !.stage = s]]
    BY <1>3, <1>8 DEF Goto
  <2> HIDE DEF x
  <2> QED
    BY <1>1, <1>4, <2>1, Becomes
<1>9. ASSUME Abort(w) PROVE TickBecomes(w, "idle", <<>>, NoProfile)
  <2>1. TickBecomes(w, Resting.stage, Resting.batch, Resting.next)
    BY <1>7, <1>9, Becomes DEF Abort
  <2> QED
    BY <1>7, <2>1
<1>10. ASSUME tick' = [tick EXCEPT ![w].batch = b, ![w].stage = s]
       PROVE  TickBecomes(w, s, b, x.next)
  <2>1. tick' = [tick EXCEPT ![w] = [x EXCEPT !.batch = b, !.stage = s]]
    BY <1>3, <1>10
  <2> HIDE DEF x
  <2> QED
    BY <1>1, <1>5, <2>1, Becomes
<1>11. ASSUME tick' = [tick EXCEPT ![w].next = n, ![w].stage = s]
       PROVE  TickBecomes(w, s, x.batch, n)
  <2>1. tick' = [tick EXCEPT ![w] = [x EXCEPT !.next = n, !.stage = s]]
    BY <1>3, <1>11
  <2> HIDE DEF x
  <2> QED
    BY <1>1, <1>6, <2>1, Becomes
<1> QED
  BY <1>8, <1>9, <1>10, <1>11

LEMMA TickTypesKept ==
    ASSUME TickTypes, NEW w \in Sweepers, NEW s, NEW b \in Line, NEW n, TickBecomes(w, s, b, n),
           s \in Busy => b # <<>>, s \in {"idle", "read"} => b = <<>>,
           s = "admit" => n \in Profiles
    PROVE  TickTypes'
BY DEF TickTypes, TickBecomes

LEMMA SweptIs ==
    ASSUME TickTypes, NEW w \in Sweepers, tick[w].stage \in Busy
    PROVE  /\ Swept(w) \in Profiles /\ Contains(tick[w].batch, Swept(w))
           /\ Tail(tick[w].batch) \in Line
           /\ \A q : Contains(Tail(tick[w].batch), q) => Contains(tick[w].batch, q)
BY TailLine DEF TickTypes, Swept

(* What the steps do to the schedule.                                      *)
LEMMA ScheduleWithout ==
    ASSUME ScheduleTypes, NEW p, grace' = Without(grace, p), due' = Without(due, p)
    PROVE  /\ ScheduleTypes'
           /\ \A q : Contains(grace', q) <=> Contains(grace, q) /\ q # p
           /\ \A q : Contains(due', q) <=> Contains(due, q) /\ q # p
BY WithoutLine DEF ScheduleTypes

LEMMA ScheduleAdds ==
    ASSUME ScheduleTypes, NEW p \in Profiles,
           grace' = Append(Without(grace, p), p), due' = Without(due, p)
    PROVE  /\ ScheduleTypes'
           /\ \A q : Contains(grace', q) <=> Contains(grace, q) \/ q = p
           /\ \A q : Contains(due', q) <=> Contains(due, q) /\ q # p
<1>1. /\ Without(grace, p) \in Line /\ due' \in Line
      /\ \A q : Contains(Without(grace, p), q) <=> Contains(grace, q) /\ q # p
      /\ \A q : Contains(due', q) <=> Contains(due, q) /\ q # p
  BY WithoutLine DEF ScheduleTypes
<1>2. /\ grace' \in Line
      /\ \A q : Contains(grace', q) <=> Contains(Without(grace, p), q) \/ q = p
  BY <1>1, AppendLine
<1> QED
  BY <1>1, <1>2 DEF ScheduleTypes

LEMMA ScheduleEnds ==
    ASSUME ScheduleTypes, GraceEnds
    PROVE  /\ ScheduleTypes'
           /\ \A q : Contains(grace', q) => Contains(grace, q)
           /\ \A q : Contains(grace', q) \/ Contains(due', q)
                        <=> Contains(grace, q) \/ Contains(due, q)
<1> DEFINE h == Head(grace)
<1>1. /\ h \in Profiles /\ Contains(grace, h) /\ grace' \in Line
      /\ \A q : Contains(grace', q) <=> Contains(grace, q) /\ q # h
  BY TailLine DEF GraceEnds, ScheduleTypes
<1>2. due' = Append(due, h)
  BY DEF GraceEnds
<1> HIDE DEF h
<1>3. ~Contains(due, h)
  BY <1>1 DEF ScheduleTypes
<1>4. due' \in Line /\ \A q : Contains(due', q) <=> Contains(due, q) \/ q = h
  BY <1>1, <1>2, <1>3, AppendLine DEF ScheduleTypes
<1> QED
  BY <1>1, <1>4 DEF ScheduleTypes

(* A row is resolved, a seat given.                                        *)
LEMMA ResolvedType ==
    ASSUME RoomTypes, NEW p \in Profiles, NEW final \in QueueStatus \ {"WAITING"}
    PROVE  /\ Resolved(p, final) \in [Profiles -> SUBSET QueueStatus]
           /\ \A q \in Profiles : q # p => Resolved(p, final)[q] = entries[q]
BY DEF RoomTypes, Resolved, QueueStatus

LEMMA SeatGives ==
    ASSUME RoomTypes, NEW p \in Profiles, NEW taken \in SUBSET Profiles, Seat(p, taken)
    PROVE  /\ members' = taken \cup {p} /\ members' \subseteq Profiles
           /\ queue' \in Line /\ \A q : Contains(queue', q) <=> Contains(queue, q) /\ q # p
           /\ entries' \in [Profiles -> SUBSET QueueStatus]
           /\ \A q \in Profiles : q # p => entries'[q] = entries[q]
<1>1. queue' \in Line /\ \A q : Contains(queue', q) <=> Contains(queue, q) /\ q # p
  BY WithoutLine DEF RoomTypes, Seat
<1>2. /\ entries' \in [Profiles -> SUBSET QueueStatus]
      /\ \A q \in Profiles : q # p => entries'[q] = entries[q]
  <2>1. "ADMITTED" \in QueueStatus \ {"WAITING"}
    BY DEF QueueStatus
  <2> QED
    BY <2>1, ResolvedType DEF RoomTypes, Seat
<1> QED
  BY <1>1, <1>2 DEF Seat

LEMMA QueueShrinks ==
    ASSUME RoomTypes, NEW p, queue' = Without(queue, p)
    PROVE  queue' \in Line /\ \A q : Contains(queue', q) <=> Contains(queue, q) /\ q # p
BY WithoutLine DEF RoomTypes

LEMMA QueueGrows ==
    ASSUME RoomTypes, NEW p \in Profiles, ~Contains(queue, p), queue' = Append(queue, p)
    PROVE  queue' \in Line /\ \A q : Contains(queue', q) <=> Contains(queue, q) \/ q = p
BY AppendLine DEF RoomTypes

LEMMA QueueHead ==
    ASSUME RoomTypes, queue # <<>>
    PROVE  Head(queue) \in Profiles /\ Contains(queue, Head(queue))
BY TailLine DEF RoomTypes

-----------------------------------------------------------------------------

LEMMA RoomTypesStep ==
    ASSUME PresenceTypes, [Next]_vars
    PROVE  RoomTypes'
<1> USE DEF PresenceTypes
<1>1. CASE UNCHANGED vars
  BY <1>1 DEF RoomTypes, vars, room
<1>2. ASSUME NEW p \in Profiles, NEW t \in Tabs, Connect(p, t) \/ Disconnect(p, t) \/ Handlers(p, t)
      PROVE  RoomTypes'
  <2>1. /\ UNCHANGED <<lock, room, failures>>
        /\ \E s \in {"off", "connecting", "on", "closing"} :
              socket' = [socket EXCEPT ![<<p, t>>] = s]
    BY <1>2 DEF Connect, Disconnect, Handlers, HandleConnection, HandleDisconnect
  <2> QED
    BY <2>1 DEF RoomTypes, room
<1>3. ASSUME NEW p \in Profiles, Join(p)
      PROVE  RoomTypes'
  <2>1. queue' \in Line
    BY <1>3, QueueShrinks DEF Join
  <2> QED
    BY <1>3, <2>1 DEF Join, RoomTypes
<1>4. ASSUME NEW p \in Profiles, Enqueue(p)
      PROVE  RoomTypes'
  <2>1. queue' \in Line
    BY <1>4, QueueGrows DEF Enqueue
  <2>2. entries' \in [Profiles -> SUBSET QueueStatus]
    BY <1>4 DEF Enqueue, RoomTypes, QueueStatus
  <2> QED
    BY <1>4, <2>1, <2>2 DEF Enqueue, RoomTypes
<1>5. ASSUME NEW p \in Profiles, CancelQueue(p)
      PROVE  RoomTypes'
  <2>1. queue' \in Line
    BY <1>5, QueueShrinks DEF CancelQueue
  <2>2. entries' \in [Profiles -> SUBSET QueueStatus]
    <3>1. "CANCELLED" \in QueueStatus \ {"WAITING"}
      BY DEF QueueStatus
    <3> QED
      BY <1>5, <3>1, ResolvedType DEF CancelQueue, RoomTypes
  <2> QED
    BY <1>5, <2>1, <2>2 DEF CancelQueue, RoomTypes
<1>6. ASSUME NEW p \in Profiles, Leave(p)
      PROVE  RoomTypes'
  <2>1. CASE queue = <<>>
    BY <1>6, <2>1 DEF Leave, RoomTypes
  <2>2. CASE queue # <<>>
    <3> DEFINE h == Head(queue)
    <3>1. h \in Profiles
      BY <2>2, QueueHead
    <3>2. Seat(h, members \ {p}) /\ members \ {p} \in SUBSET Profiles
      BY <1>6, <2>2 DEF Leave, RoomTypes
    <3>3. participant' = [participant EXCEPT ![p] = "left", ![h] = "live"]
      BY <1>6, <2>2 DEF Leave
    <3> HIDE DEF h
    <3>4. /\ members' \subseteq Profiles /\ queue' \in Line
          /\ entries' \in [Profiles -> SUBSET QueueStatus]
      BY <3>1, <3>2, SeatGives
    <3>5. participant' \in [Profiles -> {"none", "live", "left"}]
      BY <3>1, <3>3 DEF RoomTypes
    <3> QED
      BY <1>6, <3>4, <3>5 DEF Leave, RoomTypes
  <2> QED
    BY <2>1, <2>2
<1>7. ASSUME NEW p \in Profiles, LeaveAborted(p)
      PROVE  RoomTypes'
  BY <1>7 DEF LeaveAborted, RoomTypes
<1>8. ASSUME NEW w \in Sweepers, TakeLock(w) \/ Fail(w)
      PROVE  RoomTypes'
  <2>1. UNCHANGED <<socket, room>> /\ (lock' = TRUE \/ lock' = lock)
    BY <1>8 DEF TakeLock, Fail
  <2>2. failures' = failures \/ failures' = failures + 1
    BY <1>8 DEF TakeLock, Fail
  <2>3. lock' \in BOOLEAN
    BY <2>1 DEF RoomTypes
  <2>4. failures' \in Nat
    BY <2>2 DEF RoomTypes
  <2> QED
    BY <2>1, <2>3, <2>4 DEF RoomTypes, room
<1>9. ASSUME NEW w \in Sweepers, Sweep(w)
      PROVE  RoomTypes'
  <2>1. CASE ReadDue(w) \/ ReadSeats(w) \/ ReadWaiting(w) \/ Unschedule(w)
    BY <2>1 DEF ReadDue, ReadSeats, ReadWaiting, Unschedule, RoomTypes, room
  <2>2. CASE CheckSeat(w)
    <3>1. participant' \in [Profiles -> {"none", "live", "left"}]
      BY <2>2 DEF CheckSeat, RoomTypes
    <3> QED
      BY <2>2, <3>1 DEF CheckSeat, RoomTypes
  <2>3. CASE ReleaseSeat(w)
    <3>1. /\ participant' \in [Profiles -> {"none", "live", "left"}]
          /\ members' \subseteq Profiles
      BY <2>3 DEF ReleaseSeat, RoomTypes
    <3> QED
      BY <2>3, <3>1 DEF ReleaseSeat, RoomTypes
  <2>4. CASE AdmitNext(w)
    <3>1. CASE UNCHANGED room
      BY <2>4, <3>1 DEF AdmitNext, RoomTypes, room
    <3>2. CASE ~UNCHANGED room
      <4> DEFINE p == tick[w].next
      <4>1. /\ p \in Profiles /\ Seat(p, members)
            /\ participant' = [participant EXCEPT ![p] = "live"]
            /\ UNCHANGED <<socket, lock, failures>>
        BY <2>4, <3>2 DEF AdmitNext, At, TickTypes
      <4> HIDE DEF p
      <4> QED
        BY <4>1, SeatGives DEF RoomTypes
    <3> QED
      BY <3>1, <3>2
  <2>5. CASE CancelWaiting(w)
    <3> DEFINE p == Swept(w)
    <3>1. p \in Profiles
      BY <2>5, SweptIs DEF CancelWaiting, At, Busy
    <3>2. queue' = Without(queue, p) /\ (entries' = entries \/ entries' = Resolved(p, "CANCELLED"))
      BY <2>5 DEF CancelWaiting
    <3> HIDE DEF p
    <3>3. queue' \in Line
      BY <3>2, QueueShrinks
    <3>4. "CANCELLED" \in QueueStatus \ {"WAITING"}
      BY DEF QueueStatus
    <3>5. entries' \in [Profiles -> SUBSET QueueStatus]
      BY <3>1, <3>2, <3>4, ResolvedType DEF RoomTypes
    <3> QED
      BY <2>5, <3>3, <3>5 DEF CancelWaiting, RoomTypes
  <2> QED
    BY <1>9, <2>1, <2>2, <2>3, <2>4, <2>5 DEF Sweep
<1>10. CASE GraceEnds \/ LockExpires
  BY <1>10 DEF GraceEnds, LockExpires, RoomTypes, room
<1> QED
  BY <1>1, <1>2, <1>3, <1>4, <1>5, <1>6, <1>7, <1>8, <1>9, <1>10 DEF Next

LEMMA ScheduleTypesStep ==
    ASSUME PresenceTypes, [Next]_vars
    PROVE  ScheduleTypes'
<1> USE DEF PresenceTypes
<1>1. CASE UNCHANGED sweepq
  BY <1>1 DEF sweepq, ScheduleTypes
<1>2. ASSUME NEW p \in Profiles, NEW t \in Tabs, HandleConnection(p, t)
      PROVE  ScheduleTypes'
  BY <1>2, ScheduleWithout DEF HandleConnection
<1>3. ASSUME NEW p \in Profiles, NEW t \in Tabs, HandleDisconnect(p, t)
      PROVE  ScheduleTypes'
  BY <1>3, ScheduleAdds DEF HandleDisconnect
<1>4. ASSUME NEW w \in Sweepers, Unschedule(w)
      PROVE  ScheduleTypes'
  BY <1>4, ScheduleWithout DEF Unschedule
<1>5. CASE GraceEnds
  BY <1>5, ScheduleEnds
<1>6. ASSUME NEW p \in Profiles, NEW t \in Tabs, Connect(p, t) \/ Disconnect(p, t)
      PROVE  UNCHANGED sweepq
  BY <1>6 DEF Connect, Disconnect
<1>7. ASSUME NEW p \in Profiles,
             Join(p) \/ Enqueue(p) \/ CancelQueue(p) \/ Leave(p) \/ LeaveAborted(p)
      PROVE  UNCHANGED sweepq
  BY <1>7 DEF Join, Enqueue, CancelQueue, Leave, LeaveAborted
<1>8. ASSUME NEW w \in Sweepers,
             \/ TakeLock(w) \/ Fail(w) \/ ReadDue(w) \/ ReadSeats(w) \/ CheckSeat(w)
             \/ ReleaseSeat(w) \/ AdmitNext(w) \/ ReadWaiting(w) \/ CancelWaiting(w)
      PROVE  UNCHANGED sweepq
  BY <1>8 DEF TakeLock, Fail, ReadDue, ReadSeats, CheckSeat, ReleaseSeat, AdmitNext,
              ReadWaiting, CancelWaiting
<1>9. UNCHANGED vars => UNCHANGED sweepq
  BY DEF vars
<1>10. LockExpires => UNCHANGED sweepq
  BY DEF LockExpires
<1> QED
  BY <1>1, <1>2, <1>3, <1>4, <1>5, <1>6, <1>7, <1>8, <1>9, <1>10 DEF Next, Handlers, Sweep

(* The ticks each of a sweeper's steps may leave.                          *)
LEMMA TickOf ==
    ASSUME TickTypes, ScheduleTypes, RoomTypes, NEW w \in Sweepers
    PROVE  LET b == tick[w].batch
               n == tick[w].next
           IN  /\ TakeLock(w) => TickBecomes(w, "read", b, n)
               /\ Fail(w) => TickBecomes(w, "idle", <<>>, NoProfile)
               /\ ReadDue(w) => TickBecomes(w, "next", due, n)
               /\ ReadSeats(w) =>
                    \/ TickBecomes(w, "idle", <<>>, NoProfile)
                    \/ b # <<>> /\ TickBecomes(w, "check", b, n)
                    \/ /\ b # <<>> /\ participant[Swept(w)] # "live"
                       /\ TickBecomes(w, "waiting", b, n)
               /\ CheckSeat(w) =>
                    \/ Swept(w) \in members /\ TickBecomes(w, "release", b, n)
                    \/ Swept(w) \notin members /\ TickBecomes(w, "waiting", b, n)
               /\ ReleaseSeat(w) =>
                    \/ TickBecomes(w, "waiting", b, n)
                    \/ queue # <<>> /\ TickBecomes(w, "admit", b, Head(queue))
               /\ AdmitNext(w) =>
                    \/ TickBecomes(w, "idle", <<>>, NoProfile)
                    \/ TickBecomes(w, "waiting", b, NoProfile)
               /\ ReadWaiting(w) =>
                    \/ TickBecomes(w, "cancel", b, n)
                    \/ "WAITING" \notin entries[Swept(w)] /\ TickBecomes(w, "zrem", b, n)
               /\ CancelWaiting(w) =>
                    \/ TickBecomes(w, "idle", <<>>, NoProfile)
                    \/ TickBecomes(w, "zrem", b, n)
               /\ Unschedule(w) => TickBecomes(w, "next", Tail(b), n)
<1> DEFINE b == tick[w].batch
           n == tick[w].next
<1>0. b \in Line /\ n \in Profiles \cup {NoProfile} /\ due \in Line
  BY TickFields DEF ScheduleTypes
<1>1. \A s \in Stages : Goto(w, s) => TickBecomes(w, s, b, n)
  BY <1>0, TickWrites
<1>2. Abort(w) => TickBecomes(w, "idle", <<>>, NoProfile)
  BY <1>0, TickWrites DEF Stages
<1>3. \A s \in Stages : \A c \in Line :
         tick' = [tick EXCEPT ![w].batch = c, ![w].stage = s] => TickBecomes(w, s, c, n)
  BY <1>0, TickWrites
<1>4. \A s \in Stages : \A m \in Profiles \cup {NoProfile} :
         tick' = [tick EXCEPT ![w].next = m, ![w].stage = s] => TickBecomes(w, s, b, m)
  BY <1>0, TickWrites
<1>5. /\ "read" \in Stages /\ "next" \in Stages /\ "check" \in Stages /\ "release" \in Stages
      /\ "admit" \in Stages /\ "waiting" \in Stages /\ "cancel" \in Stages /\ "zrem" \in Stages
  BY DEF Stages
<1>6. TakeLock(w) => TickBecomes(w, "read", b, n)
  BY <1>1, <1>5 DEF TakeLock
<1>7. Fail(w) => TickBecomes(w, "idle", <<>>, NoProfile)
  BY <1>2 DEF Fail
<1>8. ReadDue(w) => TickBecomes(w, "next", due, n)
  BY <1>0, <1>3, <1>5 DEF ReadDue
<1>9. ReadSeats(w) =>
         \/ TickBecomes(w, "idle", <<>>, NoProfile)
         \/ b # <<>> /\ TickBecomes(w, "check", b, n)
         \/ b # <<>> /\ participant[Swept(w)] # "live" /\ TickBecomes(w, "waiting", b, n)
  BY <1>1, <1>2, <1>5 DEF ReadSeats
<1>10. CheckSeat(w) =>
         \/ Swept(w) \in members /\ TickBecomes(w, "release", b, n)
         \/ Swept(w) \notin members /\ TickBecomes(w, "waiting", b, n)
  BY <1>1, <1>5 DEF CheckSeat
<1>11. ReleaseSeat(w) =>
         \/ TickBecomes(w, "waiting", b, n)
         \/ queue # <<>> /\ TickBecomes(w, "admit", b, Head(queue))
  <2>1. CASE queue = <<>>
    BY <1>1, <1>5, <2>1 DEF ReleaseSeat
  <2>2. CASE queue # <<>>
    <3>1. Head(queue) \in Profiles \cup {NoProfile}
      BY <2>2, QueueHead
    <3> QED
      BY <1>4, <1>5, <2>2, <3>1 DEF ReleaseSeat
  <2> QED
    BY <2>1, <2>2
<1>12. AdmitNext(w) =>
         TickBecomes(w, "idle", <<>>, NoProfile) \/ TickBecomes(w, "waiting", b, NoProfile)
  <2>1. NoProfile \in Profiles \cup {NoProfile}
    OBVIOUS
  <2> QED
    BY <1>2, <1>4, <1>5, <2>1 DEF AdmitNext, Admitted
<1>13. ReadWaiting(w) =>
         \/ TickBecomes(w, "cancel", b, n)
         \/ "WAITING" \notin entries[Swept(w)] /\ TickBecomes(w, "zrem", b, n)
  BY <1>1, <1>5 DEF ReadWaiting
<1>14. CancelWaiting(w) =>
         TickBecomes(w, "idle", <<>>, NoProfile) \/ TickBecomes(w, "zrem", b, n)
  BY <1>1, <1>2, <1>5 DEF CancelWaiting
<1>15. Unschedule(w) => TickBecomes(w, "next", Tail(b), n)
  <2>1. ASSUME Unschedule(w)
        PROVE  Tail(b) \in Line /\ tick' = [tick EXCEPT ![w].batch = Tail(b), ![w].stage = "next"]
    BY <2>1, SweptIs DEF Unschedule, At, Busy
  <2> QED
    BY <1>3, <1>5, <2>1
<1> QED
  BY <1>6, <1>7, <1>8, <1>9, <1>10, <1>11, <1>12, <1>13, <1>14, <1>15

LEMMA TickTypesStep ==
    ASSUME PresenceTypes, [Next]_vars
    PROVE  TickTypes'
<1>0. TickTypes /\ ScheduleTypes /\ RoomTypes
  BY DEF PresenceTypes
<1>1. CASE UNCHANGED tick
  BY <1>0, <1>1 DEF TickTypes
<1>2. ASSUME NEW w \in Sweepers, NEW s, NEW b \in Line, NEW n, TickBecomes(w, s, b, n),
             s \in Busy => b # <<>>, s \in {"idle", "read"} => b = <<>>,
             s = "admit" => n \in Profiles
      PROVE  TickTypes'
  BY <1>0, <1>2, TickTypesKept
<1>3. ASSUME NEW w \in Sweepers, TickBecomes(w, "idle", <<>>, NoProfile)
      PROVE  TickTypes'
  BY <1>2, <1>3, EmptyLine DEF Busy
<1>4. ASSUME NEW w \in Sweepers, tick[w].batch # <<>>, NEW n,
             \/ TickBecomes(w, "check", tick[w].batch, n)
             \/ TickBecomes(w, "release", tick[w].batch, n)
             \/ TickBecomes(w, "admit", tick[w].batch, n) /\ n \in Profiles
             \/ TickBecomes(w, "waiting", tick[w].batch, n)
             \/ TickBecomes(w, "cancel", tick[w].batch, n)
             \/ TickBecomes(w, "zrem", tick[w].batch, n)
      PROVE  TickTypes'
  <2>1. tick[w].batch \in Line
    BY <1>0, TickFields
  <2> QED
    BY <1>2, <1>4, <2>1 DEF Busy
<1>5. \A w \in Sweepers : tick[w].stage \in Busy => tick[w].batch # <<>>
  BY <1>0 DEF TickTypes
<1>6. ASSUME NEW w \in Sweepers, TakeLock(w)
      PROVE  TickTypes'
  <2>1. TickBecomes(w, "read", tick[w].batch, tick[w].next)
    BY <1>0, <1>6, TickOf
  <2>2. tick[w].batch = <<>>
    BY <1>0, <1>6 DEF TakeLock, At, TickTypes
  <2> QED
    BY <1>2, <2>1, <2>2, EmptyLine DEF Busy
<1>7. ASSUME NEW w \in Sweepers, ReadDue(w)
      PROVE  TickTypes'
  <2>1. TickBecomes(w, "next", due, tick[w].next)
    BY <1>0, <1>7, TickOf
  <2> QED
    BY <1>0, <1>2, <2>1 DEF Busy, ScheduleTypes
<1>8. ASSUME NEW w \in Sweepers, Unschedule(w)
      PROVE  TickTypes'
  <2>1. TickBecomes(w, "next", Tail(tick[w].batch), tick[w].next)
    BY <1>0, <1>8, TickOf
  <2>2. Tail(tick[w].batch) \in Line
    BY <1>0, <1>8, SweptIs DEF Unschedule, At, Busy
  <2> QED
    BY <1>2, <2>1, <2>2 DEF Busy
<1>9. ASSUME NEW w \in Sweepers, Fail(w) \/ ReadSeats(w)
      PROVE  TickTypes'
  BY <1>0, <1>3, <1>4, <1>9, TickOf
<1>10. ASSUME NEW w \in Sweepers,
              \/ CheckSeat(w) \/ ReleaseSeat(w) \/ AdmitNext(w) \/ ReadWaiting(w)
              \/ CancelWaiting(w)
       PROVE  TickTypes'
  <2>1. tick[w].batch # <<>>
    BY <1>5, <1>10 DEF Busy, At, CheckSeat, ReleaseSeat, AdmitNext, ReadWaiting, CancelWaiting
  <2>2. queue # <<>> => Head(queue) \in Profiles
    BY <1>0, QueueHead
  <2>3. CASE CheckSeat(w) \/ ReadWaiting(w)
    BY <1>0, <1>4, <2>1, <2>3, TickOf
  <2>4. CASE ReleaseSeat(w)
    BY <1>0, <1>4, <2>1, <2>2, <2>4, TickOf
  <2>5. CASE AdmitNext(w) \/ CancelWaiting(w)
    BY <1>0, <1>3, <1>4, <2>1, <2>5, TickOf
  <2> QED
    BY <1>10, <2>3, <2>4, <2>5
<1>11. ASSUME NEW p \in Profiles, NEW t \in Tabs,
              Connect(p, t) \/ Disconnect(p, t) \/ Handlers(p, t)
       PROVE  UNCHANGED tick
  BY <1>11 DEF Connect, Disconnect, Handlers, HandleConnection, HandleDisconnect
<1>12. ASSUME NEW p \in Profiles,
              Join(p) \/ Enqueue(p) \/ CancelQueue(p) \/ Leave(p) \/ LeaveAborted(p)
       PROVE  UNCHANGED tick
  BY <1>12 DEF Join, Enqueue, CancelQueue, Leave, LeaveAborted
<1>13. GraceEnds \/ LockExpires \/ UNCHANGED vars => UNCHANGED tick
  BY DEF GraceEnds, LockExpires, vars
<1> QED
  BY <1>1, <1>6, <1>7, <1>8, <1>9, <1>10, <1>11, <1>12, <1>13 DEF Next, Sweep

LEMMA TypesInit == Init => PresenceTypes
<1> SUFFICES ASSUME Init PROVE PresenceTypes
  OBVIOUS
<1>1. <<>> \in Line /\ <<>> \in Seq(Profiles) /\ \A q : ~Contains(<<>>, q)
  BY EmptyLine, EmptySeq
<1>2. RoomTypes
  <2>1. socket \in [Profiles \X Tabs -> {"off", "connecting", "on", "closing"}]
    BY DEF Init
  <2>2. lock \in BOOLEAN /\ failures \in Nat /\ members \subseteq Profiles /\ queue \in Line
    BY <1>1 DEF Init
  <2>3. /\ participant \in [Profiles -> {"none", "live", "left"}]
        /\ entries \in [Profiles -> SUBSET QueueStatus]
    BY DEF Init
  <2> QED
    BY <2>1, <2>2, <2>3 DEF RoomTypes
<1>3. ScheduleTypes
  BY <1>1 DEF Init, ScheduleTypes
<1>4. TickTypes
  <2>1. /\ Resting \in Tick /\ Resting.stage = "idle" /\ Resting.batch = <<>>
    BY <1>1 DEF Resting, Tick
  <2>2. tick \in [Sweepers -> Tick] /\ \A w \in Sweepers : tick[w] = Resting
    BY <2>1 DEF Init
  <2>3. "idle" \notin Busy
    BY DEF Busy
  <2> QED
    BY <1>1, <2>1, <2>2, <2>3 DEF TickTypes
<1> QED
  BY <1>2, <1>3, <1>4 DEF PresenceTypes

LEMMA TypesAlways == Spec => []PresenceTypes
<1>1. PresenceTypes /\ [Next]_vars => PresenceTypes'
  BY RoomTypesStep, ScheduleTypesStep, TickTypesStep DEF PresenceTypes
<1> QED
  BY <1>1, TypesInit, PTL DEF Spec

(* Every variable keeps its type, whatever the sockets, the requests and   *)
(* the sweepers do and wherever a tick ends; in particular a profile is    *)
(* never twice on the list to be swept, nor twice in line for a seat.      *)
THEOREM PresenceTypeCorrect == Spec => []TypeOK
<1>1. Spec => []PresenceTypes
  BY TypesAlways
<1> QED
  BY <1>1, TypesAreOK, PTL

-----------------------------------------------------------------------------
(* Under the conditions of MCPresence.                                     *)

LEMMA OnceIsNext == OnceNext => Next
BY DEF OnceNext, Calm, Next, Handlers

(* What the steps change, by the part of the state.                        *)
SocketStep(p, t) ==
    (~Listed(p) /\ Connect(p, t)) \/ Disconnect(p, t) \/ Handlers(p, t)

RequestStep(p) ==
    \/ Join(p) \/ Enqueue(p) \/ CancelQueue(p) \/ LeaveAborted(p)
    \/ (queue # <<>> => ~Listed(Head(queue))) /\ Leave(p)

SweeperStep(w) ==
    \/ (At(w, "read") => \A p \in Profiles : Contains(due, p) => Settled(p)) /\ Sweep(w)
    \/ TakeLock(w) \/ Fail(w)

LEMMA OnceSteps ==
    ASSUME [OnceNext]_vars
    PROVE  \/ \E p \in Profiles, t \in Tabs : SocketStep(p, t)
           \/ \E p \in Profiles : RequestStep(p)
           \/ \E w \in Sweepers : SweeperStep(w)
           \/ GraceEnds \/ (TickOver /\ LockExpires) \/ UNCHANGED vars
BY DEF OnceNext, Calm, SocketStep, RequestStep, SweeperStep

LEMMA Frames ==
    /\ \A p \in Profiles, t \in Tabs : SocketStep(p, t) => UNCHANGED <<lock, tick, room, failures>>
    /\ \A p \in Profiles : RequestStep(p) => UNCHANGED <<socket, sweepq, lock, tick>>
    /\ \A w \in Sweepers : SweeperStep(w) => UNCHANGED socket
    /\ \A w \in Sweepers : SweeperStep(w) /\ ~Unschedule(w) => UNCHANGED sweepq
    /\ \A w \in Sweepers : SweeperStep(w) /\ ~TakeLock(w) => UNCHANGED lock
    /\ GraceEnds => UNCHANGED <<socket, lock, tick, room>>
    /\ LockExpires => UNCHANGED <<socket, sweepq, tick, room>>
    /\ UNCHANGED vars => UNCHANGED <<socket, sweepq, lock, tick, room>>
<1>1. \A p \in Profiles, t \in Tabs : SocketStep(p, t) => UNCHANGED <<lock, tick, room, failures>>
  BY DEF SocketStep, Connect, Disconnect, Handlers, HandleConnection, HandleDisconnect
<1>2. \A p \in Profiles : RequestStep(p) => UNCHANGED <<socket, sweepq, lock, tick>>
  BY DEF RequestStep, Join, Enqueue, CancelQueue, Leave, LeaveAborted
<1>3. \A w \in Sweepers : SweeperStep(w) => UNCHANGED socket
  BY DEF SweeperStep, Sweep, TakeLock, Fail, ReadDue, ReadSeats, CheckSeat, ReleaseSeat,
         AdmitNext, ReadWaiting, CancelWaiting, Unschedule
<1>4. \A w \in Sweepers : SweeperStep(w) /\ ~Unschedule(w) => UNCHANGED sweepq
  BY DEF SweeperStep, Sweep, TakeLock, Fail, ReadDue, ReadSeats, CheckSeat, ReleaseSeat,
         AdmitNext, ReadWaiting, CancelWaiting
<1>5. \A w \in Sweepers : SweeperStep(w) /\ ~TakeLock(w) => UNCHANGED lock
  BY DEF SweeperStep, Sweep, Fail, ReadDue, ReadSeats, CheckSeat, ReleaseSeat,
         AdmitNext, ReadWaiting, CancelWaiting, Unschedule
<1>6. GraceEnds => UNCHANGED <<socket, lock, tick, room>>
  BY DEF GraceEnds
<1>7. LockExpires => UNCHANGED <<socket, sweepq, tick, room>>
  BY DEF LockExpires
<1>8. UNCHANGED vars => UNCHANGED <<socket, sweepq, lock, tick, room>>
  BY DEF vars
<1> QED
  BY <1>1, <1>2, <1>3, <1>4, <1>5, <1>6, <1>7, <1>8

(* A profile's sockets and its place on the list.                          *)
LEMMA SocketSteps ==
    ASSUME OneTab, PresenceTypes, NEW p \in Profiles, NEW t \in Tabs, SocketStep(p, t)
    PROVE  /\ \A q \in Profiles : q # p =>
                 /\ \A s \in Tabs : socket'[<<q, s>>] = socket[<<q, s>>]
                 /\ Contains(grace', q) <=> Contains(grace, q)
                 /\ Contains(due', q) <=> Contains(due, q)
           /\ \A s \in Tabs : s = t
           /\ \/ /\ ~Listed(p) /\ socket'[<<p, t>>] = "connecting"
              \/ /\ socket[<<p, t>>] = "on" /\ socket'[<<p, t>>] = "closing"
                 /\ UNCHANGED sweepq
              \/ /\ socket[<<p, t>>] = "connecting" /\ socket'[<<p, t>>] = "on"
                 /\ ~Contains(grace', p) /\ ~Contains(due', p)
              \/ /\ socket[<<p, t>>] = "closing" /\ socket'[<<p, t>>] = "off"
                 /\ Contains(grace', p)
<1>1. \A s \in Tabs : s = t
  BY DEF OneTab
<1>2. socket \in [Profiles \X Tabs -> {"off", "connecting", "on", "closing"}] /\ ScheduleTypes
  BY DEF PresenceTypes, RoomTypes
<1>3. ASSUME NEW x, socket' = [socket EXCEPT ![<<p, t>>] = x]
      PROVE  /\ \A q \in Profiles : q # p =>
                   \A s \in Tabs : socket'[<<q, s>>] = socket[<<q, s>>]
             /\ socket'[<<p, t>>] = x
  BY <1>2, <1>3
<1>4. CASE ~Listed(p) /\ Connect(p, t)
  <2>1. socket' = [socket EXCEPT ![<<p, t>>] = "connecting"] /\ UNCHANGED <<grace, due>>
    BY <1>4 DEF Connect, sweepq
  <2> QED
    BY <1>1, <1>3, <1>4, <2>1
<1>5. CASE Disconnect(p, t)
  <2>1. /\ socket' = [socket EXCEPT ![<<p, t>>] = "closing"] /\ UNCHANGED <<grace, due>>
        /\ UNCHANGED sweepq /\ socket[<<p, t>>] = "on"
    BY <1>5 DEF Disconnect, sweepq
  <2> QED
    BY <1>1, <1>3, <2>1
<1>6. CASE HandleConnection(p, t)
  <2>1. /\ socket' = [socket EXCEPT ![<<p, t>>] = "on"] /\ socket[<<p, t>>] = "connecting"
        /\ grace' = Without(grace, p) /\ due' = Without(due, p)
    BY <1>6 DEF HandleConnection
  <2>2. /\ \A q : Contains(grace', q) <=> Contains(grace, q) /\ q # p
        /\ \A q : Contains(due', q) <=> Contains(due, q) /\ q # p
    BY <1>2, <2>1, ScheduleWithout
  <2> QED
    BY <1>1, <1>3, <2>1, <2>2
<1>7. CASE HandleDisconnect(p, t)
  <2>1. /\ socket' = [socket EXCEPT ![<<p, t>>] = "off"] /\ socket[<<p, t>>] = "closing"
        /\ grace' = Append(Without(grace, p), p) /\ due' = Without(due, p)
    BY <1>7 DEF HandleDisconnect
  <2>2. /\ \A q : Contains(grace', q) <=> Contains(grace, q) \/ q = p
        /\ \A q : Contains(due', q) <=> Contains(due, q) /\ q # p
    BY <1>2, <2>1, ScheduleAdds
  <2> QED
    BY <1>1, <1>3, <2>1, <2>2
<1> QED
  BY <1>4, <1>5, <1>6, <1>7 DEF SocketStep, Handlers

LEMMA ScheduleSteps ==
    ASSUME PresenceTypes, NEW w \in Sweepers, SweeperStep(w)
    PROVE  /\ \A q : Contains(grace', q) => Contains(grace, q)
           /\ \A q : Contains(due', q) => Contains(due, q)
           /\ \A q : Unschedule(w) /\ q # Swept(w) =>
                 /\ Contains(grace', q) <=> Contains(grace, q)
                 /\ Contains(due', q) <=> Contains(due, q)
<1>1. CASE Unschedule(w)
  <2> DEFINE p == Swept(w)
  <2>1. grace' = Without(grace, p) /\ due' = Without(due, p)
    BY <1>1 DEF Unschedule
  <2> HIDE DEF p
  <2>2. /\ \A q : Contains(grace', q) <=> Contains(grace, q) /\ q # p
        /\ \A q : Contains(due', q) <=> Contains(due, q) /\ q # p
    BY <2>1, ScheduleWithout DEF PresenceTypes
  <2> QED
    BY <2>2 DEF p
<1>2. CASE ~Unschedule(w)
  BY <1>2, Frames DEF sweepq
<1> QED
  BY <1>1, <1>2

LEMMA SocketInvStep ==
    ASSUME OneTab, PresenceTypes, SocketInv, [OnceNext]_vars
    PROVE  SocketInv'
<1>1. ASSUME NEW p \in Profiles, NEW t \in Tabs, SocketStep(p, t)
      PROVE  SocketInv'
  <2> SUFFICES ASSUME NEW q \in Profiles, NEW s \in Tabs, socket'[<<q, s>>] \in {"on", "closing"}
               PROVE  ~Contains(grace', q) /\ ~Contains(due', q)
    BY DEF SocketInv
  <2>1. CASE q # p
    <3>1. /\ socket'[<<q, s>>] = socket[<<q, s>>]
          /\ Contains(grace', q) <=> Contains(grace, q)
          /\ Contains(due', q) <=> Contains(due, q)
      BY <1>1, <2>1, SocketSteps
    <3> QED
      BY <3>1 DEF SocketInv
  <2>2. CASE q = p
    <3>1. s = t
      BY <1>1, SocketSteps
    <3> QED
      BY <1>1, <2>2, <3>1, SocketSteps DEF SocketInv, sweepq
  <2> QED
    BY <2>1, <2>2
<1>2. ASSUME NEW p \in Profiles, RequestStep(p)
      PROVE  SocketInv'
  <2>1. UNCHANGED <<socket, grace, due>>
    BY <1>2, Frames DEF sweepq
  <2> QED
    BY <2>1 DEF SocketInv
<1>3. ASSUME NEW w \in Sweepers, SweeperStep(w)
      PROVE  SocketInv'
  <2>1. UNCHANGED socket
    BY <1>3, Frames
  <2> QED
    BY <1>3, <2>1, ScheduleSteps DEF SocketInv
<1>4. CASE GraceEnds
  BY <1>4, ScheduleEnds, Frames DEF SocketInv, PresenceTypes
<1>5. CASE LockExpires \/ UNCHANGED vars
  <2>1. UNCHANGED <<socket, grace, due>>
    BY <1>5, Frames DEF sweepq
  <2> QED
    BY <2>1 DEF SocketInv
<1> QED
  BY <1>1, <1>2, <1>3, <1>4, <1>5, OnceSteps

(* A profile that is gone stays on the list until it is swept.             *)
LEMMA AwaitedKept ==
    ASSUME OneTab, PresenceTypes, [OnceNext]_vars, NEW q \in Profiles, Awaited(q),
           \A w \in Sweepers : Unschedule(w) => q # Swept(w)
    PROVE  Awaited(q)'
<1>1. ASSUME NEW p \in Profiles, NEW t \in Tabs, SocketStep(p, t)
      PROVE  Awaited(q)'
  <2>1. CASE q # p
    BY <1>1, <2>1, SocketSteps DEF Awaited, Gone
  <2>2. CASE q = p
    BY <1>1, <2>2, SocketSteps DEF Awaited, Gone
  <2> QED
    BY <2>1, <2>2
<1>2. ASSUME UNCHANGED <<socket, sweepq>>
      PROVE  Awaited(q)'
  BY <1>2 DEF Awaited, Gone, sweepq
<1>3. ASSUME NEW w \in Sweepers, SweeperStep(w)
      PROVE  Awaited(q)'
  <2>1. CASE Unschedule(w)
    BY <1>3, <2>1, ScheduleSteps, Frames DEF Awaited, Gone
  <2>2. CASE ~Unschedule(w)
    BY <1>2, <1>3, <2>2, Frames
  <2> QED
    BY <2>1, <2>2
<1>4. CASE GraceEnds
  BY <1>4, ScheduleEnds, Frames DEF Awaited, Gone, PresenceTypes
<1>5. ASSUME NEW p \in Profiles, RequestStep(p)
      PROVE  Awaited(q)'
  BY <1>2, <1>5, Frames
<1>6. CASE LockExpires \/ UNCHANGED vars
  BY <1>2, <1>6, Frames
<1> QED
  BY <1>1, <1>3, <1>4, <1>5, <1>6, OnceSteps

(* Who asks for something is neither being swept nor forgotten.            *)
LEMMA PresentIs ==
    ASSUME ListInv, NEW p \in Profiles, Present(p)
    PROVE  Awaited(p) /\ ~Listed(p)
BY DEF Present, Online, Gone, Awaited, ListInv, Listed

(* What a request does to the room.                                        *)
LEMMA RequestSteps ==
    ASSUME PresenceTypes, RoomInv, ListInv, NEW p \in Profiles, RequestStep(p)
    PROVE  /\ Present(p)
           /\ \A q \in Profiles :
                 q # p /\ (q \in members' \/ Contains(queue', q)) => Holds(q)
           /\ \A q \in Profiles : Listed(q) =>
                 (q \in members' <=> q \in members) /\ (Contains(queue', q) => Contains(queue, q))
           /\ RoomInv'
<1>0. /\ RoomTypes
      /\ participant \in [Profiles -> {"none", "live", "left"}]
      /\ entries \in [Profiles -> SUBSET QueueStatus]
  BY DEF PresenceTypes, RoomTypes
<1>1. Present(p)
  BY DEF RequestStep, Join, Enqueue, CancelQueue, Leave, LeaveAborted
<1>2. ~Listed(p)
  BY <1>1, PresentIs
<1>3. CASE Join(p)
  <2>1. /\ members' = members \cup {p} /\ queue' = Without(queue, p) /\ entries' = entries
        /\ participant' = [participant EXCEPT ![p] = "live"]
    BY <1>3 DEF Join
  <2>2. \A q : Contains(queue', q) <=> Contains(queue, q) /\ q # p
    BY <1>0, <2>1, QueueShrinks
  <2>3. RoomInv'
    BY <1>0, <2>1, <2>2 DEF RoomInv
  <2> QED
    BY <1>1, <1>2, <2>1, <2>2, <2>3 DEF Holds
<1>4. CASE Enqueue(p)
  <2>1. /\ members' = members /\ queue' = Append(queue, p) /\ ~Contains(queue, p)
        /\ entries' = [entries EXCEPT ![p] = @ \cup {"WAITING"}] /\ p \notin members
        /\ participant' = participant
    BY <1>4 DEF Enqueue
  <2>2. \A q : Contains(queue', q) <=> Contains(queue, q) \/ q = p
    BY <1>0, <2>1, QueueGrows
  <2>3. RoomInv'
    BY <1>0, <2>1, <2>2 DEF RoomInv
  <2> QED
    BY <1>1, <1>2, <2>1, <2>2, <2>3 DEF Holds
<1>5. CASE CancelQueue(p)
  <2>1. /\ members' = members /\ queue' = Without(queue, p) /\ participant' = participant
        /\ entries' = entries \/ entries' = Resolved(p, "CANCELLED")
    BY <1>5 DEF CancelQueue
  <2>2. \A q : Contains(queue', q) <=> Contains(queue, q) /\ q # p
    BY <1>0, <2>1, QueueShrinks
  <2>3. \A q \in Profiles : q # p => entries'[q] = entries[q]
    <3>1. "CANCELLED" \in QueueStatus \ {"WAITING"}
      BY DEF QueueStatus
    <3> QED
      BY <1>0, <2>1, <3>1, ResolvedType
  <2>4. RoomInv'
    BY <1>0, <2>1, <2>2, <2>3 DEF RoomInv
  <2> QED
    BY <1>1, <1>2, <2>1, <2>2, <2>4 DEF Holds
<1>6. CASE (queue # <<>> => ~Listed(Head(queue))) /\ Leave(p)
  <2>1. CASE queue = <<>>
    <3>1. /\ members' = members \ {p} /\ queue' = queue /\ entries' = entries
          /\ participant' = [participant EXCEPT ![p] = "left"]
      BY <1>6, <2>1 DEF Leave
    <3>2. RoomInv'
      BY <1>0, <3>1 DEF RoomInv
    <3> QED
      BY <1>1, <1>2, <3>1, <3>2 DEF Holds
  <2>2. CASE queue # <<>>
    <3> DEFINE h == Head(queue)
    <3>1. h \in Profiles /\ Contains(queue, h)
      BY <1>0, <2>2, QueueHead
    <3>2. /\ Seat(h, members \ {p}) /\ ~Listed(h) /\ p \in members
          /\ participant' = [participant EXCEPT ![p] = "left", ![h] = "live"]
      BY <1>6, <2>2 DEF Leave
    <3> HIDE DEF h
    <3>3. members \ {p} \in SUBSET Profiles
      BY <1>0 DEF RoomTypes
    <3>4. /\ members' = (members \ {p}) \cup {h}
          /\ \A q : Contains(queue', q) <=> Contains(queue, q) /\ q # h
          /\ \A q \in Profiles : q # h => entries'[q] = entries[q]
      BY <1>0, <3>1, <3>2, <3>3, SeatGives
    <3>5. h # p
      BY <3>1, <3>2 DEF RoomInv
    <3>6. /\ participant'[h] = "live"
          /\ \A q \in Profiles : q # p /\ q # h => participant'[q] = participant[q]
      BY <1>0, <3>1, <3>2, <3>5
    <3>7. RoomInv'
      BY <1>0, <3>4, <3>6 DEF RoomInv
    <3>8. \A q \in Profiles :
             q # p /\ (q \in members' \/ Contains(queue', q)) => Holds(q)
      BY <3>1, <3>4 DEF Holds
    <3>9. \A q \in Profiles : Listed(q) =>
             (q \in members' <=> q \in members) /\ (Contains(queue', q) => Contains(queue, q))
      BY <1>2, <3>2, <3>4
    <3> QED
      BY <1>1, <3>7, <3>8, <3>9
  <2> QED
    BY <2>1, <2>2
<1>7. CASE LeaveAborted(p)
  <2>1. /\ members' = members \ {p} /\ queue' = queue /\ entries' = entries
        /\ participant' = participant
    BY <1>7 DEF LeaveAborted
  <2>2. RoomInv'
    BY <1>0, <2>1 DEF RoomInv
  <2> QED
    BY <1>1, <1>2, <2>1, <2>2 DEF Holds
<1> QED
  BY <1>3, <1>4, <1>5, <1>6, <1>7 DEF RequestStep

(* What a sweeper's step does to the room.                                 *)
LEMMA SweeperSteps ==
    ASSUME PresenceTypes, RoomInv, NEW w \in Sweepers, SweeperStep(w)
    PROVE  /\ \A q \in Profiles : q \in members' \/ Contains(queue', q) =>
                 Holds(q) \/ (At(w, "admit") /\ q = tick[w].next)
           /\ RoomInv'
<1>0. /\ RoomTypes /\ TickTypes
      /\ participant \in [Profiles -> {"none", "live", "left"}]
      /\ entries \in [Profiles -> SUBSET QueueStatus]
  BY DEF PresenceTypes, RoomTypes
<1>1. ASSUME UNCHANGED room
      PROVE  /\ \A q \in Profiles : q \in members' \/ Contains(queue', q) => Holds(q)
             /\ RoomInv'
  BY <1>1 DEF room, RoomInv, Holds
<1>2. CASE \/ TakeLock(w) \/ Fail(w) \/ ReadDue(w) \/ ReadSeats(w)
           \/ ReadWaiting(w) \/ Unschedule(w)
  <2>1. UNCHANGED room
    BY <1>2 DEF TakeLock, Fail, ReadDue, ReadSeats, ReadWaiting, Unschedule
  <2> QED
    BY <1>1, <2>1
<1>3. CASE CheckSeat(w)
  <2> DEFINE p == Swept(w)
  <2>1. /\ members' = members /\ queue' = queue /\ entries' = entries
        /\ \/ participant' = participant
           \/ p \notin members
              /\ participant' = [participant EXCEPT ![p] = IF @ = "live" THEN "left" ELSE @]
    BY <1>3 DEF CheckSeat
  <2> HIDE DEF p
  <2>2. \A q \in Profiles : q \in members => participant'[q] = participant[q]
    BY <1>0, <2>1
  <2>3. RoomInv'
    BY <2>1, <2>2 DEF RoomInv
  <2> QED
    BY <2>1, <2>3 DEF Holds
<1>4. CASE ReleaseSeat(w)
  <2> DEFINE p == Swept(w)
  <2>1. /\ members' = members \ {p} /\ queue' = queue /\ entries' = entries
        /\ participant' = [participant EXCEPT ![p] = IF @ = "live" THEN "left" ELSE @]
    BY <1>4 DEF ReleaseSeat
  <2> HIDE DEF p
  <2>2. \A q \in Profiles : q \in members' => participant'[q] = participant[q]
    BY <1>0, <2>1
  <2>3. RoomInv'
    BY <2>1, <2>2 DEF RoomInv
  <2> QED
    BY <2>1, <2>3 DEF Holds
<1>5. CASE AdmitNext(w)
  <2>1. CASE UNCHANGED room
    BY <1>1, <2>1
  <2>2. CASE ~UNCHANGED room
    <3> DEFINE p == tick[w].next
    <3>1. /\ At(w, "admit") /\ Seat(p, members) /\ p \in Profiles
          /\ participant' = [participant EXCEPT ![p] = "live"]
      BY <1>0, <1>5, <2>2 DEF AdmitNext, At, TickTypes
    <3> HIDE DEF p
    <3>2. members \in SUBSET Profiles
      BY <1>0 DEF RoomTypes
    <3>3. /\ members' = members \cup {p}
          /\ \A q : Contains(queue', q) <=> Contains(queue, q) /\ q # p
          /\ \A q \in Profiles : q # p => entries'[q] = entries[q]
      BY <1>0, <3>1, <3>2, SeatGives
    <3>4. RoomInv'
      BY <1>0, <3>1, <3>3 DEF RoomInv
    <3> QED
      BY <3>1, <3>3, <3>4 DEF Holds, p
  <2> QED
    BY <2>1, <2>2
<1>6. CASE CancelWaiting(w)
  <2> DEFINE p == Swept(w)
  <2>1. /\ members' = members /\ queue' = Without(queue, p) /\ participant' = participant
        /\ entries' = entries \/ entries' = Resolved(p, "CANCELLED")
    BY <1>6 DEF CancelWaiting
  <2>2. p \in Profiles
    BY <1>0, <1>6, SweptIs DEF CancelWaiting, At, Busy
  <2> HIDE DEF p
  <2>3. \A q : Contains(queue', q) <=> Contains(queue, q) /\ q # p
    BY <1>0, <2>1, QueueShrinks
  <2>4. \A q \in Profiles : q # p => entries'[q] = entries[q]
    <3>1. "CANCELLED" \in QueueStatus \ {"WAITING"}
      BY DEF QueueStatus
    <3> QED
      BY <1>0, <2>1, <2>2, <3>1, ResolvedType
  <2>5. RoomInv'
    BY <1>0, <2>1, <2>3, <2>4 DEF RoomInv
  <2> QED
    BY <2>1, <2>3, <2>5 DEF Holds
<1> QED
  BY <1>2, <1>3, <1>4, <1>5, <1>6 DEF SweeperStep, Sweep

LEMMA RoomInvStep ==
    ASSUME PresenceTypes, RoomInv, ListInv, [OnceNext]_vars
    PROVE  RoomInv'
<1>1. ASSUME UNCHANGED room
      PROVE  RoomInv'
  BY <1>1 DEF room, RoomInv
<1> QED
  BY <1>1, OnceSteps, Frames, RequestSteps, SweeperSteps

LEMMA SeatInvStep ==
    ASSUME OneTab, PresenceTypes, PresenceInv, [OnceNext]_vars
    PROVE  SeatInv'
<1> SUFFICES ASSUME NEW q \in Profiles, q \in members' \/ Contains(queue', q)
             PROVE  Awaited(q)'
  BY DEF SeatInv, Holds
<1>1. \A p \in Profiles : Holds(p) => Awaited(p)
  BY DEF PresenceInv, SeatInv
<1>2. ASSUME UNCHANGED room
      PROVE  Awaited(q)
  BY <1>1, <1>2 DEF room, Holds
<1>3. ASSUME NEW p \in Profiles, RequestStep(p)
      PROVE  Awaited(q)
  <2>1. CASE q = p
    BY <1>3, <2>1, RequestSteps, PresentIs DEF PresenceInv
  <2>2. CASE q # p
    BY <1>1, <1>3, <2>2, RequestSteps DEF PresenceInv
  <2> QED
    BY <2>1, <2>2
<1>4. ASSUME NEW w \in Sweepers, SweeperStep(w)
      PROVE  Awaited(q)
  <2>1. Holds(q) \/ (At(w, "admit") /\ q = tick[w].next)
    BY <1>4, SweeperSteps DEF PresenceInv
  <2> QED
    BY <1>1, <2>1 DEF PresenceInv, SweepInv
<1>5. Awaited(q)
  BY <1>2, <1>3, <1>4, OnceSteps, Frames
<1>6. ASSUME NEW w \in Sweepers, Unschedule(w)
      PROVE  q # Swept(w)
  <2>1. At(w, "zrem") /\ UNCHANGED <<members, queue>>
    BY <1>6 DEF Unschedule, room
  <2>2. Swept(w) \notin members /\ ~Contains(queue, Swept(w))
    BY <2>1 DEF PresenceInv, SweepInv, At
  <2> QED
    BY <2>1, <2>2
<1> QED
  BY <1>5, <1>6, AwaitedKept

LEMMA LockInvStep ==
    ASSUME PresenceTypes, LockInv, [OnceNext]_vars
    PROVE  LockInv'
<1>0. TickTypes /\ ScheduleTypes /\ RoomTypes
  BY DEF PresenceTypes
<1>1. ASSUME UNCHANGED <<tick, lock>>
      PROVE  LockInv'
  BY <1>1 DEF LockInv, At
<1>2. ASSUME NEW w \in Sweepers, TakeLock(w)
      PROVE  LockInv'
  <2>1. lock' = TRUE /\ \A v \in Sweepers : At(v, "idle")
    BY <1>2 DEF TakeLock, LockInv
  <2>2. \A v \in Sweepers : v # w => tick'[v] = tick[v]
    BY <1>0, <1>2, TickOf DEF TickBecomes
  <2> QED
    BY <2>1, <2>2 DEF LockInv, At
<1>3. ASSUME NEW w \in Sweepers, SweeperStep(w), ~TakeLock(w)
      PROVE  LockInv'
  <2>1. ~At(w, "idle") /\ lock' = lock
    BY <1>3, Frames DEF SweeperStep, Fail, Sweep, ReadDue, ReadSeats, CheckSeat, ReleaseSeat,
       AdmitNext, ReadWaiting, CancelWaiting, Unschedule, At
  <2>2. \A v \in Sweepers : v # w => tick'[v] = tick[v]
    BY <1>0, <1>3, TickOf DEF TickBecomes, SweeperStep, Sweep
  <2> QED
    BY <2>1, <2>2 DEF LockInv, At
<1>4. CASE TickOver /\ LockExpires
  <2>1. UNCHANGED tick
    BY <1>4, Frames
  <2> QED
    BY <1>4, <2>1 DEF LockInv, TickOver, At
<1>5. \A p \in Profiles, t \in Tabs : SocketStep(p, t) => UNCHANGED <<tick, lock>>
  BY Frames
<1>6. \A p \in Profiles : RequestStep(p) => UNCHANGED <<tick, lock>>
  BY Frames
<1>7. GraceEnds \/ UNCHANGED vars => UNCHANGED <<tick, lock>>
  BY Frames
<1> QED
  BY <1>1, <1>2, <1>3, <1>4, <1>5, <1>6, <1>7, OnceSteps

(* What a tick adds to its batch is what was due.                          *)
LEMMA BatchSteps ==
    ASSUME PresenceTypes, NEW w \in Sweepers, SweeperStep(w)
    PROVE  /\ \A v \in Sweepers : v # w => tick'[v] = tick[v]
           /\ \A q : Contains(tick'[w].batch, q) =>
                 \/ Contains(tick[w].batch, q)
                 \/ /\ Contains(due, q)
                    /\ \A p \in Profiles : Contains(due, p) => Settled(p)
<1>0. TickTypes /\ ScheduleTypes /\ RoomTypes
  BY DEF PresenceTypes
<1>1. \A s, b, n : TickBecomes(w, s, b, n) =>
         tick'[w].batch = b /\ \A v \in Sweepers : v # w => tick'[v] = tick[v]
  BY DEF TickBecomes
<1>2. \A q : ~Contains(<<>>, q)
  BY EmptyLine
<1>3. CASE TakeLock(w) \/ Fail(w)
  BY <1>0, <1>1, <1>2, <1>3, TickOf
<1>4. CASE (At(w, "read") => \A p \in Profiles : Contains(due, p) => Settled(p)) /\ ReadDue(w)
  BY <1>0, <1>1, <1>4, TickOf DEF ReadDue
<1>5. CASE ReadSeats(w) \/ CheckSeat(w) \/ ReleaseSeat(w)
  BY <1>0, <1>1, <1>2, <1>5, TickOf
<1>6. CASE AdmitNext(w) \/ ReadWaiting(w) \/ CancelWaiting(w)
  BY <1>0, <1>1, <1>2, <1>6, TickOf
<1>7. CASE Unschedule(w)
  <2>1. \A q : Contains(Tail(tick[w].batch), q) => Contains(tick[w].batch, q)
    BY <1>0, <1>7, SweptIs DEF Unschedule, At, Busy
  <2> QED
    BY <1>0, <1>1, <1>7, <2>1, TickOf
<1> QED
  BY <1>3, <1>4, <1>5, <1>6, <1>7 DEF SweeperStep, Sweep

LEMMA ListInvStep ==
    ASSUME OneTab, PresenceTypes, SocketInv, ListInv, [OnceNext]_vars
    PROVE  ListInv'
<1>1. ASSUME NEW p \in Profiles, NEW t \in Tabs, SocketStep(p, t)
      PROVE  ListInv'
  <2>0. UNCHANGED tick
    BY <1>1, Frames
  <2> SUFFICES ASSUME NEW v \in Sweepers, NEW q \in Profiles, Contains(tick[v].batch, q)
               PROVE  Gone(q)' /\ ~Contains(grace', q)
    BY <2>0 DEF ListInv
  <2>1. Gone(q) /\ ~Contains(grace, q) /\ Listed(q)
    BY DEF ListInv, Listed
  <2>2. q # p
    <3>1. q = p => Listed(p) /\ socket[<<p, t>>] = "off"
      BY <2>1 DEF Gone
    <3> QED
      BY <1>1, <3>1, SocketSteps
  <2>3. /\ \A s \in Tabs : socket'[<<q, s>>] = socket[<<q, s>>]
        /\ Contains(grace', q) <=> Contains(grace, q)
    BY <1>1, <2>2, SocketSteps
  <2> QED
    BY <2>1, <2>3 DEF Gone
<1>2. ASSUME UNCHANGED <<socket, tick>>, \A q : Contains(grace', q) => Contains(grace, q)
      PROVE  ListInv'
  BY <1>2 DEF ListInv, Gone
<1>3. ASSUME NEW w \in Sweepers, SweeperStep(w)
      PROVE  ListInv'
  <2> SUFFICES ASSUME NEW v \in Sweepers, NEW q \in Profiles, Contains(tick'[v].batch, q)
               PROVE  Gone(q)' /\ ~Contains(grace', q)
    BY DEF ListInv
  <2>1. Gone(q) /\ ~Contains(grace, q)
    <3>1. CASE Contains(tick[v].batch, q)
      BY <3>1 DEF ListInv
    <3>2. CASE Contains(due, q) /\ \A p \in Profiles : Contains(due, p) => Settled(p)
      <4>1. Settled(q)
        BY <3>2
      <4>2. \A t \in Tabs : socket[<<q, t>>] \in {"off", "connecting", "on", "closing"}
        BY DEF PresenceTypes, RoomTypes
      <4>3. Gone(q)
        BY <3>2, <4>1, <4>2 DEF SocketInv, Settled, Gone
      <4> QED
        BY <3>2, <4>3 DEF PresenceTypes, ScheduleTypes
    <3> QED
      BY <1>3, <3>1, <3>2, BatchSteps
  <2>2. UNCHANGED socket
    BY <1>3, Frames
  <2>3. Contains(grace', q) => Contains(grace, q)
    BY <1>3, ScheduleSteps
  <2> QED
    BY <2>1, <2>2, <2>3 DEF Gone
<1>4. CASE GraceEnds
  BY <1>2, <1>4, Frames, ScheduleEnds DEF PresenceTypes
<1>5. ASSUME NEW p \in Profiles, RequestStep(p)
      PROVE  ListInv'
  BY <1>2, <1>5, Frames DEF sweepq
<1>6. CASE LockExpires \/ UNCHANGED vars
  BY <1>2, <1>6, Frames DEF sweepq
<1> QED
  BY <1>1, <1>3, <1>4, <1>5, <1>6, OnceSteps

(* What the sweeper at work relies on, of its tick alone.                  *)
SweepOK(w) ==
    /\ At(w, "release") => Swept(w) \in members
    /\ At(w, "admit") => tick[w].next # Swept(w) /\ Awaited(tick[w].next)
    /\ tick[w].stage \in {"admit", "waiting", "cancel", "zrem"} => Swept(w) \notin members
    /\ At(w, "zrem") => ~Contains(queue, Swept(w))

LEMMA SweepInvStep ==
    ASSUME OneTab, PresenceTypes, PresenceInv, [OnceNext]_vars
    PROVE  SweepInv'
<1>0. /\ TickTypes /\ ScheduleTypes /\ RoomTypes
      /\ RoomInv /\ LockInv /\ ListInv /\ \A w \in Sweepers : SweepOK(w)
  BY DEF PresenceTypes, PresenceInv, SweepInv, SweepOK
<1> SUFFICES ASSUME NEW w \in Sweepers PROVE SweepOK(w)'
  BY DEF SweepInv, SweepOK
(* The others' steps, which leave its tick and what it relies on alone.    *)
<1>1. ASSUME UNCHANGED tick,
             tick[w].stage \in Busy =>
                /\ Swept(w) \in members' <=> Swept(w) \in members
                /\ Contains(queue', Swept(w)) => Contains(queue, Swept(w))
      PROVE  SweepOK(w)'
  <2>1. tick'[w] = tick[w] /\ Swept(w)' = Swept(w)
    BY <1>1 DEF Swept
  <2>2. ASSUME NEW v \in Sweepers PROVE ~Unschedule(v)
    <3>1. Unschedule(v) => tick'[v].stage = "next" /\ tick[v].stage = "zrem"
      BY <1>0, TickOf DEF TickBecomes, Unschedule, At
    <3> QED
      BY <1>1, <3>1
  <2>3. ASSUME At(w, "admit") PROVE Awaited(tick[w].next)'
    <3>1. tick[w].next \in Profiles /\ Awaited(tick[w].next)
      BY <1>0, <2>3 DEF At, SweepOK, TickTypes
    <3>2. \A q \in Profiles : Awaited(q) => Awaited(q)'
      BY <2>2, AwaitedKept
    <3> DEFINE n == tick[w].next
    <3>3. n' = n
      BY <2>1
    <3> QED
      BY <3>1, <3>2, <3>3 DEF Awaited, Gone
  <2>4. SweepOK(w)
    BY <1>0
  <2> QED
    BY <1>1, <2>1, <2>3, <2>4 DEF SweepOK, At, Busy
<1>2. ASSUME NEW p \in Profiles, RequestStep(p)
      PROVE  SweepOK(w)'
  <2>1. UNCHANGED tick
    BY <1>2, Frames
  <2>2. tick[w].stage \in Busy => Swept(w) \in Profiles /\ Listed(Swept(w))
    BY <1>0, SweptIs DEF Listed
  <2>3. \A q \in Profiles : Listed(q) =>
           (q \in members' <=> q \in members) /\ (Contains(queue', q) => Contains(queue, q))
    BY <1>0, <1>2, RequestSteps
  <2> QED
    BY <1>1, <2>1, <2>2, <2>3
<1>3. ASSUME UNCHANGED <<tick, room>> PROVE SweepOK(w)'
  BY <1>1, <1>3 DEF room
<1>4. /\ \A p \in Profiles, t \in Tabs : SocketStep(p, t) => UNCHANGED <<tick, room>>
      /\ GraceEnds \/ LockExpires \/ UNCHANGED vars => UNCHANGED <<tick, room>>
  BY Frames
<1>5. ASSUME NEW v \in Sweepers, v # w, SweeperStep(v)
      PROVE  SweepOK(w)'
  <2>1. (At(v, "idle") /\ ~lock) \/ ~At(v, "idle")
    BY <1>5 DEF SweeperStep, TakeLock, Fail, Sweep, ReadDue, ReadSeats, CheckSeat, ReleaseSeat,
                AdmitNext, ReadWaiting, CancelWaiting, Unschedule, At
  <2>2. At(w, "idle")
    BY <1>0, <1>5, <2>1 DEF LockInv
  <2>3. tick'[w] = tick[w]
    BY <1>5, BatchSteps
  <2> QED
    BY <2>2, <2>3 DEF SweepOK, At
(* Its own.                                                                *)
<1>6. ASSUME NEW s \in {"idle", "read", "next", "check"}, NEW b, NEW n, TickBecomes(w, s, b, n)
      PROVE  SweepOK(w)'
  BY <1>6 DEF SweepOK, At, TickBecomes
<1>7. ASSUME NEW s, NEW n, TickBecomes(w, s, tick[w].batch, n)
      PROVE  tick'[w].stage = s /\ tick'[w].next = n /\ Swept(w)' = Swept(w)
  BY <1>7 DEF TickBecomes, Swept
<1>8. ASSUME NEW n, TickBecomes(w, "waiting", tick[w].batch, n), Swept(w) \notin members'
      PROVE  SweepOK(w)'
  BY <1>7, <1>8 DEF SweepOK, At
<1>9. ASSUME NEW n, TickBecomes(w, "zrem", tick[w].batch, n), Swept(w) \notin members',
             ~Contains(queue', Swept(w))
      PROVE  SweepOK(w)'
  BY <1>7, <1>9 DEF SweepOK, At
<1>10. tick[w].stage \in Busy => Swept(w) \in Profiles
  BY <1>0, SweptIs
<1>11. CASE TakeLock(w) \/ Fail(w) \/ ReadDue(w) \/ Unschedule(w)
  BY <1>0, <1>6, <1>11, TickOf
<1>12. CASE ReadSeats(w)
  <2>1. UNCHANGED members
    BY <1>12 DEF ReadSeats, room
  <2>2. ASSUME tick[w].batch # <<>>, participant[Swept(w)] # "live"
        PROVE  Swept(w) \notin members
    <3>1. Swept(w) \in Profiles
      BY <1>0, <2>2, TailLine DEF TickTypes, Swept
    <3> QED
      BY <1>0, <2>2, <3>1 DEF RoomInv
  <2> QED
    BY <1>0, <1>6, <1>8, <1>12, <2>1, <2>2, TickOf
<1>13. CASE CheckSeat(w)
  <2>1. UNCHANGED members
    BY <1>13 DEF CheckSeat
  <2>2. CASE Swept(w) \in members /\ TickBecomes(w, "release", tick[w].batch, tick[w].next)
    BY <1>7, <2>1, <2>2 DEF SweepOK, At
  <2> QED
    BY <1>0, <1>8, <1>13, <2>1, <2>2, TickOf
<1>14. CASE ReleaseSeat(w)
  <2>1. /\ At(w, "release") /\ members' = members \ {Swept(w)} /\ UNCHANGED <<socket, sweepq>>
    BY <1>14 DEF ReleaseSeat
  <2>2. CASE TickBecomes(w, "waiting", tick[w].batch, tick[w].next)
    BY <1>8, <2>1, <2>2
  <2>3. CASE queue # <<>> /\ TickBecomes(w, "admit", tick[w].batch, Head(queue))
    <3> DEFINE h == Head(queue)
    <3>1. h \in Profiles /\ Contains(queue, h)
      BY <1>0, <2>3, QueueHead
    <3>2. tick'[w].next = h /\ tick'[w].stage = "admit" /\ Swept(w)' = Swept(w)
      BY <1>7, <2>3
    <3> HIDE DEF h
    <3>3. h # Swept(w)
      BY <1>0, <2>1, <3>1 DEF SweepOK, RoomInv
    <3>4. Awaited(h)
      BY <3>1 DEF PresenceInv, SeatInv, Holds
    <3>5. Awaited(tick[w].next)'
      BY <2>1, <3>2, <3>4 DEF Awaited, Gone, sweepq
    <3> QED
      BY <2>1, <3>2, <3>3, <3>5 DEF SweepOK, At
  <2> QED
    BY <1>0, <1>14, <2>2, <2>3, TickOf
<1>15. CASE AdmitNext(w)
  <2>1. At(w, "admit") /\ (members' = members \/ members' = members \cup {tick[w].next})
    BY <1>15 DEF AdmitNext, Seat, room
  <2>2. Swept(w) \notin members'
    BY <1>0, <2>1 DEF SweepOK, At
  <2> QED
    BY <1>0, <1>6, <1>8, <1>15, <2>2, TickOf
<1>16. CASE ReadWaiting(w)
  <2>1. At(w, "waiting") /\ UNCHANGED <<members, queue>>
    BY <1>16 DEF ReadWaiting, room
  <2>2. Swept(w) \notin members /\ Swept(w) \in Profiles
    BY <1>0, <1>10, <2>1 DEF SweepOK, At, Busy
  <2>3. CASE TickBecomes(w, "cancel", tick[w].batch, tick[w].next)
    BY <1>7, <2>1, <2>2, <2>3 DEF SweepOK, At
  <2>4. "WAITING" \notin entries[Swept(w)] => ~Contains(queue, Swept(w))
    BY <1>0, <2>2 DEF RoomInv
  <2> QED
    BY <1>0, <1>9, <1>16, <2>1, <2>2, <2>3, <2>4, TickOf
<1>17. CASE CancelWaiting(w)
  <2>1. At(w, "cancel") /\ UNCHANGED members /\ queue' = Without(queue, Swept(w))
    BY <1>17 DEF CancelWaiting
  <2>2. Swept(w) \notin members
    BY <1>0, <2>1 DEF SweepOK, At
  <2>3. ~Contains(queue', Swept(w))
    BY <1>0, <2>1, QueueShrinks
  <2> QED
    BY <1>0, <1>6, <1>9, <1>17, <2>1, <2>2, <2>3, TickOf
<1>18. SweeperStep(w) => SweepOK(w)'
  BY <1>11, <1>12, <1>13, <1>14, <1>15, <1>16, <1>17 DEF SweeperStep, Sweep
<1> QED
  BY <1>2, <1>3, <1>4, <1>5, <1>18, OnceSteps

-----------------------------------------------------------------------------

LEMMA PresenceInit == Init => PresenceInv
<1> SUFFICES ASSUME Init PROVE PresenceInv
  OBVIOUS
<1>1. \A q : ~Contains(<<>>, q)
  BY EmptyLine
<1>2. \A w \in Sweepers : tick[w] = Resting
  BY DEF Init
<1>3. \A w \in Sweepers : tick[w].stage = "idle" /\ tick[w].batch = <<>>
  BY <1>2 DEF Resting
<1>4. SocketInv /\ SeatInv /\ RoomInv
  BY <1>1 DEF Init, SocketInv, SeatInv, RoomInv, Holds
<1>5. LockInv /\ ListInv /\ SweepInv
  BY <1>1, <1>3 DEF LockInv, ListInv, SweepInv, At
<1> QED
  BY <1>4, <1>5 DEF PresenceInv

LEMMA PresenceAlways ==
    ASSUME OneTab
    PROVE  OnceSpec => [](PresenceTypes /\ PresenceInv)
<1>1. Init => PresenceTypes /\ PresenceInv
  BY TypesInit, PresenceInit
<1>2. PresenceTypes /\ PresenceInv /\ [OnceNext]_vars => (PresenceTypes /\ PresenceInv)'
  <2> SUFFICES ASSUME PresenceTypes, PresenceInv, [OnceNext]_vars
               PROVE  PresenceTypes' /\ PresenceInv'
    OBVIOUS
  <2>1. PresenceTypes'
    BY OnceIsNext, RoomTypesStep, ScheduleTypesStep, TickTypesStep DEF PresenceTypes
  <2>2. SocketInv' /\ ListInv'
    BY SocketInvStep, ListInvStep DEF PresenceInv
  <2>3. SeatInv' /\ SweepInv'
    BY SeatInvStep, SweepInvStep
  <2>4. RoomInv' /\ LockInv'
    BY RoomInvStep, LockInvStep DEF PresenceInv
  <2> QED
    BY <2>1, <2>2, <2>3, <2>4 DEF PresenceInv
<1> QED
  BY <1>1, <1>2, PTL DEF OnceSpec

(* No seat is forgotten: however sockets open and close, requests come and *)
(* fail, seats pass on and ticks end half way, who has no socket and holds *)
(* a seat or a place in line is on the sweeper's list, and who has one     *)
(* open is not.  Every condition of MCPresence is assumed, and that a      *)
(* profile has one connection.                                             *)
THEOREM NobodyIsForgotten ==
    ASSUME OneTab
    PROVE  OnceSpec => []ScheduleFollowsPresence
<1>1. PresenceTypes /\ PresenceInv => ScheduleFollowsPresence
  <2> SUFFICES ASSUME PresenceTypes, PresenceInv, NEW p \in Profiles
               PROVE  (Online(p) => ~Scheduled(p)) /\ (Gone(p) /\ Holds(p) => Scheduled(p))
    BY DEF ScheduleFollowsPresence
  <2>1. Scheduled(p) <=> Contains(grace, p) \/ Contains(due, p)
    BY ConcatLine DEF PresenceTypes, ScheduleTypes, Scheduled
  <2>2. Online(p) => ~Scheduled(p)
    BY <2>1 DEF PresenceInv, SocketInv, Online
  <2>3. Gone(p) /\ Holds(p) => Scheduled(p)
    BY <2>1 DEF PresenceInv, SeatInv, Awaited
  <2> QED
    BY <2>2, <2>3
<1>2. OnceSpec => [](PresenceTypes /\ PresenceInv)
  BY PresenceAlways
<1> QED
  BY <1>1, <1>2, PTL

=============================================================================
