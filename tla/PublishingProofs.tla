-------------------------- MODULE PublishingProofs --------------------------
(***************************************************************************)
(* What holds of Publishing for any pool, bank and top prompts, users'     *)
(* prompts, pods and bounds.                                               *)
(***************************************************************************)
EXTENDS Publishing, FiniteSetTheorems, SequenceTheorems, TLAPS

-----------------------------------------------------------------------------
(* The invariant.                                                          *)

PublishingTypes ==
    /\ TypeOK
    /\ IsFiniteSet(prompts \cup gone)
    /\ seed.missing => seed.todo # <<>>

(* The index has what a rebuild read, and rows leave the table into gone.  *)
RebuiltInv == healed \subseteq index /\ healed \subseteq prompts \cup gone

OneRowPerTitle ==
    \A r, s \in prompts : r.system /\ s.system /\ r.title = s.title => r = s

(* What the seed has passed has a row, and what it found missing has none. *)
SeedInv ==
    /\ seed.stage \notin {"bank", "top"} => seed.todo = <<>>
    /\ seed.missing => OfSystem(Head(seed.todo)) = {}
    /\ seed.stage = "bank" =>
          /\ seed.todo \in Seq(BankTitles)
          /\ \A t \in BankTitles : t \in Range(seed.todo) \/ OfSystem(t) # {}
    /\ seed.stage = "top" => seed.todo \in Seq(TopTitles)
    /\ seed.stage \in {"top", "done"} =>
          /\ \A t \in BankTitles : OfSystem(t) # {}
          /\ \A t \in Retired : OfSystem(t) = {}
          /\ \A t \in TopTitles : t \in Range(seed.todo) \/ OfSystem(t) # {}

(* The pod that works holds the claim of the day, and what it is still to  *)
(* post has no row.                                                        *)
TickInv ==
    /\ \A p \in Pods : Working(p) => tick[p].day = today /\ today \in claimed
    /\ \A p, q \in Pods : Working(p) /\ Working(q) => p = q
    /\ \A p \in Pods : tick[p].stage \in {"post", "boost"} =>
          \A i \in tick[p].todo : OfSystem(Pool[i]) = {}
    /\ \A p \in Pods : tick[p].stage = "release" => tick[p].day \in failed

Met(d) == posts[d] \in 1 .. PerDay - 1 => PoolTitles \subseteq Used

(* What a tick has posted on a day without trouble and what it is still to *)
(* post are the day's share.                                               *)
TickOnDay(p, d) ==
    /\ d \notin served
    /\ tick[p].stage \in {"account", "pool", "resurface"} => posts[d] = 0
    /\ tick[p].stage \in {"post", "boost"} =>
          /\ posts[d] + Cardinality(tick[p].todo) <= PerDay
          /\ posts[d] + Cardinality(tick[p].todo) < PerDay =>
                \A i \in DOMAIN Pool : i \in tick[p].todo \/ Pool[i] \in Used
    /\ tick[p].stage = "bust" => Met(d)

DayInv ==
    \A d \in Day \ (failed \cup died) :
        /\ posts[d] <= PerDay
        /\ d \notin claimed => posts[d] = 0 /\ d \notin served
        /\ d \in served => Met(d)
        /\ \A p \in Pods : Working(p) /\ tick[p].day = d => TickOnDay(p, d)

PublishingInv == RebuiltInv /\ OneRowPerTitle /\ SeedInv /\ TickInv /\ DayInv

-----------------------------------------------------------------------------
(* Constants and lists.                                                    *)

LEMMA Sizes == PerDay \in Nat /\ PerDay > 0 /\ LastDay \in Nat /\ LastDay > 0 /\ 1 \in Day
BY PublishingAssumption DEF Day

LEMMA Lists ==
    /\ Pool \in Seq(Titles) /\ Bank \in Seq(BankTitles) /\ Top \in Seq(TopTitles)
    /\ PoolTitles \subseteq Titles /\ BankTitles \subseteq Titles /\ TopTitles \subseteq Titles
    /\ Retired \subseteq Titles /\ IsFiniteSet(Retired)
    /\ \A i, j \in DOMAIN Pool : Pool[i] = Pool[j] => i = j
    /\ PoolTitles \cap (BankTitles \cup TopTitles) = {}
    /\ Retired \cap (PoolTitles \cup BankTitles \cup TopTitles) = {}
    /\ \A t \in PoolTitles : \E i \in DOMAIN Pool : t = Pool[i]
    /\ \A i \in DOMAIN Pool : Pool[i] \in PoolTitles
<1> DEFINE a == Len(Pool)
           b == Len(Bank)
           c == Len(Top)
           all == Pool \o Bank \o Top
<1>1. Pool \in Seq(Titles) /\ Bank \in Seq(Titles) /\ Top \in Seq(Titles)
  BY ListsAssumption
<1>2. /\ a \in Nat /\ DOMAIN Pool = 1 .. a
      /\ b \in Nat /\ DOMAIN Bank = 1 .. b
      /\ c \in Nat /\ DOMAIN Top = 1 .. c
  BY <1>1, LenProperties
<1>3. /\ Pool \o Bank \in Seq(Titles) /\ Len(Pool \o Bank) = a + b
      /\ \A i \in 1 .. a + b : (Pool \o Bank)[i] = IF i <= a THEN Pool[i] ELSE Bank[i - a]
  BY <1>1, ConcatProperties
<1>4. /\ all \in Seq(Titles) /\ Len(all) = a + b + c
      /\ \A i \in 1 .. a + b + c :
            all[i] = IF i <= a + b THEN (Pool \o Bank)[i] ELSE Top[i - (a + b)]
  BY <1>1, <1>3, ConcatProperties
<1>5. DOMAIN all = 1 .. a + b + c
  BY <1>4, LenProperties
<1>6. IsInjective(all) /\ Retired \cap Range(all) = {} /\ IsFiniteSet(Retired)
      /\ Retired \subseteq Titles
  BY ListsAssumption
<1> HIDE DEF a, b, c, all
<1>7. \A i \in 1 .. a : i \in DOMAIN all /\ all[i] = Pool[i]
  <2> SUFFICES ASSUME NEW i \in 1 .. a PROVE i \in DOMAIN all /\ all[i] = Pool[i]
    OBVIOUS
  <2>1. i \in 1 .. a + b + c /\ i \in 1 .. a + b /\ i <= a + b /\ i <= a
    BY <1>2
  <2> QED
    BY <1>3, <1>4, <1>5, <2>1
<1>8. \A i \in 1 .. b : a + i \in DOMAIN all /\ all[a + i] = Bank[i]
  <2> SUFFICES ASSUME NEW i \in 1 .. b PROVE a + i \in DOMAIN all /\ all[a + i] = Bank[i]
    OBVIOUS
  <2> DEFINE k == a + i
  <2>1. k \in 1 .. a + b + c /\ k \in 1 .. a + b /\ k <= a + b /\ ~(k <= a) /\ k - a = i
    BY <1>2
  <2> HIDE DEF k
  <2>2. all[k] = (Pool \o Bank)[k]
    BY <1>4, <2>1
  <2>3. (Pool \o Bank)[k] = Bank[i]
    BY <1>3, <2>1
  <2> QED
    BY <1>5, <2>1, <2>2, <2>3 DEF k
<1>9. \A i \in 1 .. c : a + b + i \in DOMAIN all /\ all[a + b + i] = Top[i]
  <2> SUFFICES ASSUME NEW i \in 1 .. c PROVE a + b + i \in DOMAIN all /\ all[a + b + i] = Top[i]
    OBVIOUS
  <2> DEFINE k == a + b + i
  <2>1. k \in 1 .. a + b + c /\ ~(k <= a + b) /\ k - (a + b) = i
    BY <1>2
  <2> HIDE DEF k
  <2>2. all[k] = Top[i]
    BY <1>4, <2>1
  <2> QED
    BY <1>5, <2>1, <2>2 DEF k
<1>10. \A i, j \in DOMAIN Pool : Pool[i] = Pool[j] => i = j
  BY <1>2, <1>6, <1>7 DEF IsInjective
<1>11. PoolTitles \cap (BankTitles \cup TopTitles) = {}
  <2>1. \A i \in 1 .. a : \A j \in 1 .. b : Pool[i] # Bank[j]
    <3>1. \A i \in 1 .. a : \A j \in 1 .. b : i # a + j
      BY <1>2
    <3> QED
      BY <1>6, <1>7, <1>8, <3>1 DEF IsInjective
  <2>2. \A i \in 1 .. a : \A j \in 1 .. c : Pool[i] # Top[j]
    <3>1. \A i \in 1 .. a : \A j \in 1 .. c : i # a + b + j
      BY <1>2
    <3> QED
      BY <1>6, <1>7, <1>9, <3>1 DEF IsInjective
  <2> QED
    BY <1>2, <2>1, <2>2 DEF PoolTitles, BankTitles, TopTitles, Range
<1>12. PoolTitles \cup BankTitles \cup TopTitles \subseteq Range(all)
  <2>1. PoolTitles \subseteq Range(all)
    BY <1>2, <1>7 DEF PoolTitles, Range
  <2>2. BankTitles \subseteq Range(all)
    BY <1>2, <1>8 DEF BankTitles, Range
  <2>3. TopTitles \subseteq Range(all)
    BY <1>2, <1>9 DEF TopTitles, Range
  <2> QED
    BY <2>1, <2>2, <2>3
<1>13. /\ PoolTitles \subseteq Titles /\ BankTitles \subseteq Titles /\ TopTitles \subseteq Titles
       /\ Bank \in Seq(BankTitles) /\ Top \in Seq(TopTitles)
  BY <1>1, RangeOfSeq, SeqOfRange DEF PoolTitles, BankTitles, TopTitles
<1>14. \A t \in PoolTitles : \E i \in DOMAIN Pool : t = Pool[i]
  BY DEF PoolTitles, Range
<1>15. \A i \in DOMAIN Pool : Pool[i] \in PoolTitles
  BY DEF PoolTitles, Range
<1> QED
  BY <1>1, <1>6, <1>10, <1>11, <1>12, <1>13, <1>14, <1>15

LEMMA ListGoesOn ==
    ASSUME NEW S, NEW s \in Seq(S), s # <<>>
    PROVE  /\ Head(s) \in S /\ Tail(s) \in Seq(S)
           /\ \A t : t \in Range(s) <=> t = Head(s) \/ t \in Range(Tail(s))
<1>1. /\ Head(s) \in S /\ Tail(s) \in Seq(S) /\ Len(Tail(s)) = Len(s) - 1
      /\ \A i \in 1 .. Len(Tail(s)) : Tail(s)[i] = s[i + 1]
      /\ Head(s) = s[1]
  BY HeadTailProperties
<1>2. Len(s) \in Nat /\ Len(s) > 0 /\ DOMAIN s = 1 .. Len(s)
      /\ DOMAIN Tail(s) = 1 .. Len(s) - 1
  BY <1>1, LenProperties, EmptySeq
<1>3. ASSUME NEW t \in Range(s) PROVE t = Head(s) \/ t \in Range(Tail(s))
  <2>1. PICK i \in 1 .. Len(s) : t = s[i]
    BY <1>2, <1>3 DEF Range
  <2>2. CASE i = 1
    BY <1>1, <2>1, <2>2
  <2>3. CASE i # 1
    <3>1. i - 1 \in 1 .. Len(s) - 1 /\ i - 1 + 1 = i
      BY <1>2, <2>3
    <3> QED
      BY <1>1, <1>2, <2>1, <3>1 DEF Range
  <2> QED
    BY <2>2, <2>3
<1>4. Head(s) \in Range(s)
  BY <1>1, <1>2 DEF Range
<1>5. ASSUME NEW t \in Range(Tail(s)) PROVE t \in Range(s)
  <2>1. PICK i \in 1 .. Len(s) - 1 : t = Tail(s)[i]
    BY <1>2, <1>5 DEF Range
  <2>2. i + 1 \in 1 .. Len(s) /\ t = s[i + 1]
    BY <1>1, <1>2, <2>1
  <2> QED
    BY <1>2, <2>2 DEF Range
<1> QED
  BY <1>1, <1>3, <1>4, <1>5

LEMMA NothingLeft == <<>> \in Seq(Titles) /\ \A t : t \notin Range(<<>>)
BY DEF Range

-----------------------------------------------------------------------------
(* Rows.                                                                   *)

Adds(t, system, public) ==
    prompts' = prompts \cup {NewRow(t, system, public)} /\ UNCHANGED gone

LEMMA NewRowType ==
    ASSUME PublishingTypes, NEW t \in Titles, NEW system \in BOOLEAN, NEW public \in BOOLEAN
    PROVE  NewRow(t, system, public) \in Prompt
<1> DEFINE copies == {r \in prompts \cup gone : r.title = t /\ r.system = system}
<1>1. copies \in SUBSET (prompts \cup gone) /\ IsFiniteSet(prompts \cup gone)
  BY DEF PublishingTypes
<1> HIDE DEF copies
<1>2. Cardinality(copies) \in Nat
  BY <1>1, FS_Subset, FS_CardinalityType
<1> QED
  BY <1>2 DEF NewRow, Copies, Prompt, copies

LEMMA RowAdded ==
    ASSUME PublishingTypes, NEW t \in Titles, NEW system \in BOOLEAN, NEW public \in BOOLEAN,
           Adds(t, system, public)
    PROVE  /\ prompts' \subseteq Prompt /\ IsFiniteSet(prompts' \cup gone')
           /\ prompts' \cup gone' \subseteq Prompt /\ prompts \subseteq prompts' \cup gone'
           /\ Used \subseteq Used'
           /\ t \in Used'
           /\ \A u : u # t \/ ~system => OfSystem(u)' = OfSystem(u)
           /\ \A u : OfSystem(u) \subseteq OfSystem(u)'
           /\ system => OfSystem(t)' # {}
           /\ OneRowPerTitle /\ (system => OfSystem(t) = {}) => OneRowPerTitle'
<1> DEFINE new == NewRow(t, system, public)
<1>1. new \in Prompt /\ new.title = t /\ new.system = system
  BY NewRowType DEF NewRow
<1>2. prompts' = prompts \cup {new} /\ gone' = gone
  BY DEF Adds
<1>3. prompts \subseteq Prompt /\ gone \subseteq Prompt /\ IsFiniteSet(prompts \cup gone)
  BY DEF PublishingTypes, TypeOK, SearchTypeOK
<1> HIDE DEF new
<1>4. IsFiniteSet(prompts' \cup gone')
  <2>1. prompts' \cup gone' = (prompts \cup gone) \cup {new}
    BY <1>2
  <2> QED
    BY <1>3, <2>1, FS_AddElement
<1>5. Used \subseteq Used' /\ t \in Used'
  BY <1>1, <1>2 DEF Used
<1>6. \A u : /\ u # t \/ ~system => OfSystem(u)' = OfSystem(u)
             /\ OfSystem(u) \subseteq OfSystem(u)'
  BY <1>1, <1>2 DEF OfSystem
<1>7. system => OfSystem(t)' # {}
  BY <1>1, <1>2 DEF OfSystem
<1>8. ASSUME OneRowPerTitle, system => OfSystem(t) = {} PROVE OneRowPerTitle'
  <2> SUFFICES ASSUME NEW r \in prompts', NEW s \in prompts', r.system, s.system,
                      r.title = s.title
               PROVE  r = s
    BY DEF OneRowPerTitle
  <2>1. CASE r \in prompts /\ s \in prompts
    BY <1>8, <2>1 DEF OneRowPerTitle
  <2>2. CASE r = new /\ s = new
    BY <2>2
  <2>3. CASE (r \in prompts /\ s = new) \/ (s \in prompts /\ r = new)
    BY <1>1, <1>8, <2>3 DEF OfSystem
  <2> QED
    BY <1>2, <2>1, <2>2, <2>3
<1> QED
  BY <1>1, <1>2, <1>3, <1>4, <1>5, <1>6, <1>7, <1>8

LEMMA RowsKept ==
    ASSUME UNCHANGED prompts
    PROVE  /\ \A u : OfSystem(u)' = OfSystem(u)
           /\ Used' = Used
           /\ OneRowPerTitle => OneRowPerTitle'
BY DEF OfSystem, Used, OneRowPerTitle

LEMMA RetiredGone ==
    ASSUME PublishingTypes, RemoveRetired
    PROVE  /\ prompts' \cup gone' = prompts \cup gone
           /\ \A t \in Retired : OfSystem(t)' = {}
           /\ \A u : u \notin Retired => OfSystem(u)' = OfSystem(u)
           /\ \A u \in Used : u \notin Retired => u \in Used'
           /\ OneRowPerTitle => OneRowPerTitle'
<1> DEFINE found == UNION {OfSystem(t) : t \in Retired}
<1>1. prompts' = prompts \ found /\ gone' = gone \cup found
  BY DEF RemoveRetired
<1>2. \A r : r \in found <=> r \in prompts /\ r.system /\ r.title \in Retired
  BY DEF OfSystem
<1> HIDE DEF found
<1>3. \A t \in Retired : OfSystem(t)' = {}
  BY <1>1, <1>2 DEF OfSystem
<1>4. \A u : u \notin Retired => OfSystem(u)' = OfSystem(u)
  BY <1>1, <1>2 DEF OfSystem
<1>5. \A u \in Used : u \notin Retired => u \in Used'
  BY <1>1, <1>2 DEF Used
<1>6. prompts' \cup gone' = prompts \cup gone
  BY <1>1, <1>2
<1>7. OneRowPerTitle => OneRowPerTitle'
  BY <1>1 DEF OneRowPerTitle
<1> QED
  BY <1>3, <1>4, <1>5, <1>6, <1>7

-----------------------------------------------------------------------------
(* Types.                                                                  *)

TickStage == {"off", "account", "pool", "post", "boost", "resurface", "bust", "release"}

Moved(p, stage, day, todo) ==
    /\ tick' \in [Pods -> Tick]
    /\ \A q \in Pods : q # p => tick'[q] = tick[q]
    /\ tick'[p].stage = stage /\ tick'[p].day = day /\ tick'[p].todo = todo

LEMMA IdleTick ==
    /\ NoTick \in Tick /\ NoTick.stage = "off" /\ NoTick.day = 1 /\ NoTick.todo = {}
    /\ \A d \in Day : LET x == [NoTick EXCEPT !.stage = "account", !.day = d] IN
          x \in Tick /\ x.stage = "account" /\ x.day = d /\ x.todo = {}
BY Sizes DEF NoTick, Tick

(* What each step of a tick makes of it.                                   *)
LEMMA TickEffect ==
    ASSUME PublishingTypes, NEW p \in Pods
    PROVE  /\ ClaimDay(p) => Moved(p, "account", today, {})
           /\ FindSystem(p) =>
                 \E s \in {"pool", "resurface"} : Moved(p, s, tick[p].day, tick[p].todo)
           /\ FindExisting(p) =>
                 \E T \in Pending :
                    Moved(p, IF T = {} THEN "resurface" ELSE "post", tick[p].day, T)
           /\ PostNext(p) =>
                 \E i \in tick[p].todo :
                    /\ Moved(p, "boost", tick[p].day, tick[p].todo \ {i})
                    /\ Adds(Pool[i], TRUE, TRUE)
           /\ BoostPosted(p) =>
                 Moved(p, IF tick[p].todo = {} THEN "bust" ELSE "post", tick[p].day, tick[p].todo)
           /\ ResurfaceOlder(p) => Moved(p, "bust", tick[p].day, tick[p].todo)
           /\ BustFeedCaches(p) => Moved(p, "off", tick[p].day, tick[p].todo)
           /\ ReleaseClaim(p) => Moved(p, "off", tick[p].day, tick[p].todo)
           /\ TickFails(p) => Moved(p, "release", tick[p].day, tick[p].todo)
           /\ PodDies(p) => Moved(p, "off", 1, {})
<1> DEFINE x == tick[p]
<1>0. tick \in [Pods -> Tick] /\ x \in Tick /\ today \in Day
  BY DEF PublishingTypes, TypeOK
<1>1. ASSUME NEW y \in Tick, tick' = [tick EXCEPT ![p] = y]
      PROVE  Moved(p, y.stage, y.day, y.todo)
  BY <1>0, <1>1 DEF Moved
<1>2. ASSUME NEW s \in TickStage, Go(p, s) PROVE Moved(p, s, x.day, x.todo)
  <2>1. tick' = [tick EXCEPT ![p] = [x EXCEPT !.stage = s]]
    BY <1>0, <1>2 DEF Go
  <2>2. \A z \in Tick : /\ [z EXCEPT !.stage = s] \in Tick
                       /\ [z EXCEPT !.stage = s].stage = s
                       /\ [z EXCEPT !.stage = s].day = z.day
                       /\ [z EXCEPT !.stage = s].todo = z.todo
    BY DEF Tick, TickStage
  <2>3. [x EXCEPT !.stage = s] \in Tick /\ [x EXCEPT !.stage = s].stage = s
        /\ [x EXCEPT !.stage = s].day = x.day /\ [x EXCEPT !.stage = s].todo = x.todo
    BY <1>0, <2>2
  <2> QED
    BY <1>1, <2>1, <2>3
<1>s. {"off", "account", "pool", "post", "boost", "resurface", "bust", "release"}
        \subseteq TickStage
  BY DEF TickStage
<1>3. ASSUME ClaimDay(p) PROVE Moved(p, "account", today, {})
  <2> DEFINE y == [NoTick EXCEPT !.stage = "account", !.day = today]
  <2>1. y \in Tick /\ y.stage = "account" /\ y.day = today /\ y.todo = {}
    BY <1>0, IdleTick
  <2>2. tick' = [tick EXCEPT ![p] = y]
    BY <1>3 DEF ClaimDay
  <2> HIDE DEF y
  <2> QED
    BY <1>1, <2>1, <2>2
<1>4. ASSUME FindSystem(p)
      PROVE  \E s \in {"pool", "resurface"} : Moved(p, s, x.day, x.todo)
  <2>1. PICK s \in {"pool", "resurface"} : Go(p, s)
    BY <1>4 DEF FindSystem
  <2> HIDE DEF x
  <2> QED
    BY <1>2, <1>s, <2>1
<1>5. ASSUME FindExisting(p)
      PROVE  \E T \in Pending : Moved(p, IF T = {} THEN "resurface" ELSE "post", x.day, T)
  <2>1. PICK T \in Pending :
           tick' = [tick EXCEPT ![p].stage = IF T = {} THEN "resurface" ELSE "post", ![p].todo = T]
    BY <1>5 DEF FindExisting
  <2> DEFINE s == IF T = {} THEN "resurface" ELSE "post"
             y == [x EXCEPT !.stage = s, !.todo = T]
  <2>2. tick' = [tick EXCEPT ![p] = y]
    BY <1>0, <2>1
  <2>3. T \in SUBSET DOMAIN Pool /\ s \in TickStage /\ {} \in SUBSET Prompt
    BY <1>s DEF Pending, DayOf, Fresh
  <2>a. WITNESS T \in Pending
  <2> HIDE DEF s
  <2>r. \A z \in Tick : /\ [z EXCEPT !.stage = s, !.todo = T] \in Tick
                       /\ [z EXCEPT !.stage = s, !.todo = T].stage = s
                       /\ [z EXCEPT !.stage = s, !.todo = T].day = z.day
                       /\ [z EXCEPT !.stage = s, !.todo = T].todo = T
    BY <2>3 DEF Tick, TickStage
  <2>4. y \in Tick /\ y.stage = s /\ y.day = x.day /\ y.todo = T
    BY <1>0, <2>r
  <2> HIDE DEF y
  <2>5. Moved(p, s, x.day, T)
    BY <1>1, <2>2, <2>4
  <2> QED
    BY <2>5 DEF s
<1>6. ASSUME PostNext(p)
      PROVE  \E i \in x.todo : Moved(p, "boost", x.day, x.todo \ {i}) /\ Adds(Pool[i], TRUE, TRUE)
  <2>1. PICK i \in x.todo :
           /\ prompts' = prompts \cup {NewRow(Pool[i], TRUE, TRUE)}
           /\ tick' = [tick EXCEPT ![p].stage = "boost", ![p].row = {NewRow(Pool[i], TRUE, TRUE)},
                                   ![p].todo = @ \ {i}]
    BY <1>6 DEF PostNext
  <2> DEFINE R == {NewRow(Pool[i], TRUE, TRUE)}
             T == x.todo \ {i}
             y == [x EXCEPT !.stage = "boost", !.row = R, !.todo = T]
  <2>2. tick' = [tick EXCEPT ![p] = y]
    BY <1>0, <2>1
  <2>3. Adds(Pool[i], TRUE, TRUE)
    BY <1>6, <2>1 DEF PostNext, Adds
  <2>4. x.todo \subseteq DOMAIN Pool
    BY <1>0 DEF Tick
  <2>5. Pool[i] \in Titles
    BY <2>4, Lists
  <2>6. T \in SUBSET DOMAIN Pool /\ R \in SUBSET Prompt
    BY <2>4, <2>5, NewRowType
  <2>b. x.todo \ {i} = T
    OBVIOUS
  <2>a. WITNESS i \in x.todo
  <2> HIDE DEF R, T
  <2>r. \A z \in Tick : /\ [z EXCEPT !.stage = "boost", !.row = R, !.todo = T] \in Tick
                       /\ [z EXCEPT !.stage = "boost", !.row = R, !.todo = T].stage = "boost"
                       /\ [z EXCEPT !.stage = "boost", !.row = R, !.todo = T].day = z.day
                       /\ [z EXCEPT !.stage = "boost", !.row = R, !.todo = T].todo = T
    BY <2>6 DEF Tick, TickStage
  <2>7. y \in Tick /\ y.stage = "boost" /\ y.day = x.day /\ y.todo = T
    BY <1>0, <2>r
  <2> HIDE DEF y
  <2>8. Moved(p, "boost", x.day, T)
    BY <1>1, <2>2, <2>7
  <2> QED
    BY <2>3, <2>8, <2>b
<1>7. ASSUME BoostPosted(p)
      PROVE  Moved(p, IF x.todo = {} THEN "bust" ELSE "post", x.day, x.todo)
  <2> DEFINE s == IF x.todo = {} THEN "bust" ELSE "post"
             y == [x EXCEPT !.stage = s, !.row = {}]
  <2>1. tick' = [tick EXCEPT ![p] = y]
    BY <1>0, <1>7 DEF BoostPosted
  <2>2. s \in TickStage
    BY <1>s
  <2> HIDE DEF s
  <2>r. \A z \in Tick : /\ [z EXCEPT !.stage = s, !.row = {}] \in Tick
                       /\ [z EXCEPT !.stage = s, !.row = {}].stage = s
                       /\ [z EXCEPT !.stage = s, !.row = {}].day = z.day
                       /\ [z EXCEPT !.stage = s, !.row = {}].todo = z.todo
    BY <2>2 DEF Tick, TickStage
  <2>3. y \in Tick /\ y.stage = s /\ y.day = x.day /\ y.todo = x.todo
    BY <1>0, <2>r
  <2> HIDE DEF y
  <2>4. Moved(p, s, x.day, x.todo)
    BY <1>1, <2>1, <2>3
  <2> QED
    BY <2>4 DEF s
<1>8. ASSUME ResurfaceOlder(p) PROVE Moved(p, "bust", x.day, x.todo)
  BY <1>2, <1>s, <1>8 DEF ResurfaceOlder
<1>9. ASSUME BustFeedCaches(p) \/ ReleaseClaim(p) PROVE Moved(p, "off", x.day, x.todo)
  BY <1>2, <1>s, <1>9 DEF BustFeedCaches, ReleaseClaim
<1>10. ASSUME TickFails(p) PROVE Moved(p, "release", x.day, x.todo)
  BY <1>2, <1>s, <1>10 DEF TickFails
<1>11. ASSUME PodDies(p) PROVE Moved(p, "off", 1, {})
  <2>1. tick' = [tick EXCEPT ![p] = NoTick]
    BY <1>11 DEF PodDies
  <2>2. Moved(p, NoTick.stage, NoTick.day, NoTick.todo)
    BY <1>1, <2>1, IdleTick
  <2> QED
    BY <2>2, IdleTick
<1> QED
  BY <1>3, <1>4, <1>5, <1>6, <1>7, <1>8, <1>9, <1>10, <1>11

LEMMA PublishingTypesInit == Init => PublishingTypes
<1> SUFFICES ASSUME Init PROVE PublishingTypes
  OBVIOUS
<1> DEFINE old == {SystemRow(t, 0) : t \in Retired}
           f == [t \in Retired |-> SystemRow(t, 0)]
<1>1. prompts = {} \/ prompts = old
  BY DEF Init
<1>2. IsFiniteSet(old)
  <2>1. f \in Surjection(Retired, old)
    BY DEF Surjection
  <2> HIDE DEF f, old
  <2> QED
    BY <2>1, Lists, FS_Surjection
<1>3. old \subseteq Prompt
  <2>1. \A t \in Retired : t \in Titles
    BY Lists
  <2>2. \A t \in Titles : SystemRow(t, 0) \in Prompt
    BY DEF SystemRow, Prompt
  <2> QED
    BY <2>1, <2>2
<1> HIDE DEF old
<1>4. gone = {} /\ prompts \subseteq Prompt /\ IsFiniteSet(prompts \cup gone)
  <2>1. gone = {}
    BY DEF Init, SearchInit
  <2>2. prompts \cup gone = prompts
    BY <2>1
  <2> QED
    BY <1>1, <1>2, <1>3, <2>1, <2>2, FS_EmptySet
<1>5. SearchTypeOK
  BY <1>4 DEF Init, SearchInit, SearchTypeOK
<1>6. tick \in [Pods -> Tick]
  BY IdleTick DEF Init
<1>7. seed \in Seeding
  BY NothingLeft DEF Init, Seeding
<1>8. posts \in [Day -> Nat] /\ today \in Day
      /\ {claimed, served, failed, died} \subseteq SUBSET Day
      /\ {seeds, failures} \subseteq Nat /\ account \in BOOLEAN
      /\ boosted \subseteq [row : Prompt, until : Nat]
  BY Sizes DEF Init
<1> QED
  BY <1>4, <1>5, <1>6, <1>7, <1>8 DEF PublishingTypes, TypeOK, Init

(* The steps of the daily worker.                                          *)
DailyStep == (\E p \in Pods : Step(p) \/ TickFails(p) \/ PodDies(p)) \/ NextDay
Others ==
    \/ \E own \in Own : CreatePrompt(own[1], own[2])
    \/ SearchNext /\ UNCHANGED <<account, daily, seed, seeds, failures>>

LEMMA BoostTypes ==
    \A R \in SUBSET Prompt : \A d \in Nat : Boosts(R, d) \subseteq [row : Prompt, until : Nat]
BY DEF Boosts

LEMMA DailyTypes ==
    ASSUME PublishingTypes, DailyStep
    PROVE  PublishingTypes'
<1>0. TypeOK /\ IsFiniteSet(prompts \cup gone) /\ prompts \subseteq Prompt
      /\ tick \in [Pods -> Tick] /\ today \in Day /\ today \in Nat /\ Day \subseteq Nat
      /\ today + 1 \in Nat /\ today + 2 \in Nat
  BY Sizes DEF PublishingTypes, TypeOK, SearchTypeOK, Day
<1>1. tick' \in [Pods -> Tick]
  <2>1. ASSUME NEW p \in Pods, Step(p) \/ TickFails(p) \/ PodDies(p) PROVE tick' \in [Pods -> Tick]
    BY <2>1, TickEffect DEF Step, Moved
  <2>2. CASE NextDay
    BY <1>0, <2>2 DEF NextDay
  <2> QED
    BY <2>1, <2>2 DEF DailyStep
<1>2. UNCHANGED <<searchVars, account, seed, seeds>>
  BY DEF DailyStep, Step, ClaimDay, FindSystem, FindExisting, PostNext, BoostPosted,
         ResurfaceOlder, BustFeedCaches, ReleaseClaim, TickFails, PodDies, NextDay
<1>3. /\ {claimed, served, failed, died}' \subseteq SUBSET Day
      /\ {seeds, failures}' \subseteq Nat
  <2>1. \A p \in Pods : tick[p].day \in Day
    BY <1>0 DEF Tick
  <2>2. failures' = failures \/ failures' = failures + 1
    BY DEF DailyStep, Step, ClaimDay, FindSystem, FindExisting, PostNext, BoostPosted,
           ResurfaceOlder, BustFeedCaches, ReleaseClaim, TickFails, PodDies, NextDay, Trouble
  <2>3. {claimed, served, failed, died}' \subseteq SUBSET Day
    <3>1. /\ claimed' \in {claimed, claimed \cup {today}}
                          \cup {claimed \ {tick[p].day} : p \in Pods}
          /\ served' \in {served} \cup {served \cup {tick[p].day} : p \in Pods}
          /\ failed' \in {failed} \cup {failed \cup {tick[p].day} : p \in Pods}
          /\ died' \in {died} \cup {died \cup {tick[p].day} : p \in Pods}
      BY DEF DailyStep, Step, ClaimDay, FindSystem, FindExisting, PostNext, BoostPosted,
             ResurfaceOlder, BustFeedCaches, ReleaseClaim, TickFails, PodDies, NextDay
    <3>2. /\ claimed \subseteq Day /\ served \subseteq Day
          /\ failed \subseteq Day /\ died \subseteq Day
      BY <1>0 DEF TypeOK
    <3>3. /\ claimed' \subseteq Day /\ served' \subseteq Day
          /\ failed' \subseteq Day /\ died' \subseteq Day
      BY <1>0, <2>1, <3>1, <3>2
    <3> QED
      BY <3>3
  <2>4. seeds \in Nat /\ failures \in Nat
    BY <1>0 DEF TypeOK
  <2> QED
    BY <1>2, <2>2, <2>3, <2>4
<1>4. posts' \in [Day -> Nat]
  <2>1. \A p \in Pods : tick[p].day \in Day
    BY <1>0 DEF Tick
  <2>2. posts \in [Day -> Nat]
    BY <1>0 DEF TypeOK
  <2>3. posts' = posts \/ \E p \in Pods : posts' = [posts EXCEPT ![tick[p].day] = @ + 1]
    BY DEF DailyStep, Step, ClaimDay, FindSystem, FindExisting, PostNext, BoostPosted,
           ResurfaceOlder, BustFeedCaches, ReleaseClaim, TickFails, PodDies, NextDay
  <2> QED
    BY <2>1, <2>2, <2>3
<1>5. today' \in Day
  <2>1. today' = today \/ (today < LastDay /\ today' = today + 1)
    BY DEF DailyStep, Step, ClaimDay, FindSystem, FindExisting, PostNext, BoostPosted,
           ResurfaceOlder, BustFeedCaches, ReleaseClaim, TickFails, PodDies, NextDay
  <2> QED
    BY <1>0, <2>1, Sizes DEF Day
<1>6. boosted' \subseteq [row : Prompt, until : Nat]
  <2>1. boosted \subseteq [row : Prompt, until : Nat]
    BY <1>0 DEF TypeOK
  <2>2. ASSUME NEW p \in Pods, BoostPosted(p) PROVE boosted' \subseteq [row : Prompt, until : Nat]
    <3>1. boosted' = boosted \cup Boosts(tick[p].row, today + 2)
      BY <2>2 DEF BoostPosted
    <3>2. tick[p].row \in SUBSET Prompt
      BY <1>0 DEF Tick
    <3> QED
      BY <1>0, <2>1, <3>1, <3>2, BoostTypes
  <2>3. ASSUME NEW p \in Pods, ResurfaceOlder(p)
        PROVE  boosted' \subseteq [row : Prompt, until : Nat]
    <3>1. PICK picked \in SUBSET (Public(prompts) \ {b.row : b \in boosted}) :
             boosted' = boosted \cup Boosts(picked, today + 1)
      BY <2>3 DEF ResurfaceOlder, DayOf
    <3>2. picked \in SUBSET Prompt
      BY <1>0 DEF Public
    <3> QED
      BY <1>0, <2>1, <3>1, <3>2, BoostTypes
  <2>4. CASE boosted' \subseteq boosted
    BY <2>1, <2>4
  <2> QED
    BY <2>2, <2>3, <2>4 DEF DailyStep, Step, ClaimDay, FindSystem, FindExisting, PostNext,
           BustFeedCaches, ReleaseClaim, TickFails, PodDies, NextDay
<1>7. prompts' \subseteq Prompt /\ gone' = gone /\ IsFiniteSet(prompts' \cup gone')
  <2>1. ASSUME NEW p \in Pods, PostNext(p)
        PROVE prompts' \subseteq Prompt /\ gone' = gone /\ IsFiniteSet(prompts' \cup gone')
    <3>1. PICK i \in tick[p].todo : Adds(Pool[i], TRUE, TRUE)
      BY <2>1, TickEffect
    <3>2. i \in DOMAIN Pool
      BY <1>0 DEF Tick
    <3>3. Pool[i] \in Titles
      BY <3>2, Lists
    <3> QED
      BY <3>1, <3>3, RowAdded DEF Adds
  <2>2. CASE UNCHANGED <<prompts, gone>>
    BY <1>0, <2>2
  <2> QED
    BY <2>1, <2>2 DEF DailyStep, Step, ClaimDay, FindSystem, FindExisting, BoostPosted,
           ResurfaceOlder, BustFeedCaches, ReleaseClaim, TickFails, PodDies, NextDay
<1>8. SearchTypeOK'
  BY <1>0, <1>2, <1>7 DEF TypeOK, SearchTypeOK, searchVars
<1>9. account' \in BOOLEAN /\ seed' \in Seeding
  BY <1>0, <1>2 DEF TypeOK
<1> QED
  BY <1>0, <1>1, <1>2, <1>3, <1>4, <1>5, <1>6, <1>7, <1>8, <1>9 DEF PublishingTypes, TypeOK

LEMMA SeedTypes ==
    ASSUME PublishingTypes, SeedNext
    PROVE  PublishingTypes'
<1>0. TypeOK /\ IsFiniteSet(prompts \cup gone) /\ prompts \subseteq Prompt /\ gone \subseteq Prompt
      /\ seed \in Seeding /\ seed.todo \in Seq(Titles)
  BY DEF PublishingTypes, TypeOK, SearchTypeOK, Seeding
<1>1. UNCHANGED <<searchVars, daily>>
  BY DEF SeedNext, StartSeed, UpsertSystem, LookUp, FillGap, RemoveRetired, EndSeed, SeedFails
<1>2. /\ prompts' \cup gone' \subseteq Prompt /\ IsFiniteSet(prompts' \cup gone')
  <2>1. CASE FillGap
    <3>1. Head(seed.todo) \in Titles
      BY <1>0, <2>1, ListGoesOn DEF FillGap, PublishingTypes
    <3>2. Adds(Head(seed.todo), TRUE, TRUE)
      BY <2>1 DEF FillGap, Adds
    <3> QED
      BY <1>0, <3>1, <3>2, RowAdded DEF Adds
  <2>2. CASE RemoveRetired
    BY <1>0, <2>2, RetiredGone
  <2>3. CASE UNCHANGED <<prompts, gone>>
    BY <1>0, <2>3
  <2> QED
    BY <2>1, <2>2, <2>3 DEF SeedNext, StartSeed, UpsertSystem, LookUp, EndSeed, SeedFails
<1>3. seed' \in Seeding /\ (seed'.missing => seed'.todo # <<>>)
  <2>1. ASSUME NEW stage \in {"off", "account", "bank", "top", "done"}, NEW todo \in Seq(Titles),
               SeedAt(stage, todo)
        PROVE  seed' \in Seeding /\ (seed'.missing => seed'.todo # <<>>)
    BY <2>1 DEF SeedAt, Seeding
  <2>2. Bank \in Seq(Titles) /\ Top \in Seq(Titles) /\ <<>> \in Seq(Titles)
        /\ seed.stage \in {"off", "account", "bank", "top", "done"}
    BY <1>0, NothingLeft, ListsAssumption DEF Seeding
  <2>3. CASE StartSeed \/ UpsertSystem \/ RemoveRetired \/ EndSeed \/ SeedFails
    BY <2>1, <2>2, <2>3 DEF StartSeed, UpsertSystem, RemoveRetired, EndSeed, SeedFails
  <2>4. CASE seed.todo # <<>> /\ SeedAt(seed.stage, Tail(seed.todo))
    <3>1. Tail(seed.todo) \in Seq(Titles)
      BY <1>0, <2>4, ListGoesOn
    <3> QED
      BY <2>1, <2>2, <2>4, <3>1
  <2>5. CASE seed.todo # <<>> /\ seed' = [seed EXCEPT !.missing = TRUE]
    <3>1. \A x \in Seeding : [x EXCEPT !.missing = TRUE] \in Seeding
                           /\ [x EXCEPT !.missing = TRUE].todo = x.todo
      BY DEF Seeding
    <3> QED
      BY <1>0, <2>5, <3>1
  <2>6. CASE LookUp
    BY <2>4, <2>5, <2>6 DEF LookUp
  <2>7. CASE FillGap
    BY <2>4, <2>7 DEF FillGap, PublishingTypes
  <2> QED
    BY <2>3, <2>6, <2>7 DEF SeedNext
<1>4. account' \in BOOLEAN /\ {seeds, failures}' \subseteq Nat
  <2>1. seeds \in Nat /\ failures \in Nat /\ account \in BOOLEAN
    BY <1>0 DEF TypeOK
  <2>2. account' = account \/ account' = TRUE
    BY DEF SeedNext, StartSeed, UpsertSystem, LookUp, FillGap, RemoveRetired, EndSeed, SeedFails
  <2>3. seeds' = seeds \/ seeds' = seeds + 1
    BY DEF SeedNext, StartSeed, UpsertSystem, LookUp, FillGap, RemoveRetired, EndSeed, SeedFails
  <2>4. failures' = failures \/ failures' = failures + 1
    BY DEF SeedNext, StartSeed, UpsertSystem, LookUp, FillGap, RemoveRetired, EndSeed, SeedFails,
           Trouble
  <2>5. account' \in BOOLEAN
    BY <2>1, <2>2
  <2>6. {seeds, failures}' \subseteq Nat
    BY <2>1, <2>3, <2>4
  <2> QED
    BY <2>5, <2>6
<1>5. SearchTypeOK'
  BY <1>0, <1>1, <1>2 DEF TypeOK, SearchTypeOK, searchVars
<1>6. /\ boosted' \subseteq [row : Prompt, until : Nat] /\ today' \in Day
      /\ {claimed, served, failed, died}' \subseteq SUBSET Day
      /\ tick' \in [Pods -> Tick] /\ posts' \in [Day -> Nat]
  BY <1>0, <1>1 DEF TypeOK, daily
<1> QED
  BY <1>2, <1>3, <1>4, <1>5, <1>6 DEF PublishingTypes, TypeOK

LEMMA OtherTypes ==
    ASSUME PublishingTypes, Others
    PROVE  PublishingTypes'
<1>0. TypeOK /\ IsFiniteSet(prompts \cup gone) /\ SearchTypeOK
      /\ prompts \subseteq Prompt /\ gone \subseteq Prompt /\ writes \subseteq Prompt
      /\ index \subseteq Prompt /\ healed \subseteq Prompt /\ rebuilds \in Nat
  BY DEF PublishingTypes, TypeOK, SearchTypeOK
<1>1. UNCHANGED <<gone, account, daily, seed, seeds, failures>>
  BY DEF Others, CreatePrompt, SearchNext, Indexed, IndexFailed, ReindexAll
<1>2. CASE SearchNext
  <2>1. UNCHANGED prompts /\ SearchTypeOK'
    BY <1>0, <1>2 DEF SearchNext, Indexed, IndexFailed, ReindexAll, SearchTypeOK
  <2> QED
    BY <1>0, <1>1, <2>1 DEF PublishingTypes, TypeOK, daily
<1>3. ASSUME NEW own \in Own, CreatePrompt(own[1], own[2]) PROVE PublishingTypes'
  <2>1. own[1] \in Titles /\ own[2] \in BOOLEAN
    BY ListsAssumption
  <2>2. Adds(own[1], FALSE, own[2]) /\ UNCHANGED <<index, healed, rebuilds>>
        /\ writes' = writes \cup {NewRow(own[1], FALSE, own[2])}
    BY <1>3 DEF CreatePrompt, Adds, IndexPrompt
  <2>3. NewRow(own[1], FALSE, own[2]) \in Prompt
    BY <2>1, NewRowType
  <2>4. prompts' \subseteq Prompt /\ IsFiniteSet(prompts' \cup gone')
    BY <2>1, <2>2, RowAdded
  <2>5. SearchTypeOK'
    BY <1>0, <2>2, <2>3, <2>4 DEF SearchTypeOK, Adds
  <2> QED
    BY <1>0, <1>1, <2>4, <2>5 DEF PublishingTypes, TypeOK, daily
<1> QED
  BY <1>2, <1>3 DEF Others

LEMMA PublishingTypesStep == PublishingTypes /\ [Next]_vars => PublishingTypes'
<1>1. PublishingTypes /\ UNCHANGED vars => PublishingTypes'
  BY DEF PublishingTypes, TypeOK, SearchTypeOK, vars
<1> QED
  BY <1>1, DailyTypes, SeedTypes, OtherTypes DEF Next, DailyStep, Others

(* Rows, documents, ticks and the seed keep their types whatever races and *)
(* fails: what is posted and boosted is a row, what is indexed a document. *)
THEOREM PublishingTypeCorrect == Spec => []TypeOK
<1>1. PublishingTypes => TypeOK
  BY DEF PublishingTypes
<1> QED
  BY <1>1, PublishingTypesInit, PublishingTypesStep, PTL DEF Spec

-----------------------------------------------------------------------------
(* What a step does to the rows.                                           *)

LEMMA DailyRows ==
    ASSUME PublishingTypes, TickInv, DailyStep
    PROVE  /\ UNCHANGED <<seed, searchVars, gone>> /\ prompts \subseteq prompts' \cup gone'
           /\ \A t : t \notin PoolTitles => OfSystem(t)' = OfSystem(t)
           /\ OneRowPerTitle => OneRowPerTitle'
<1>1. UNCHANGED <<seed, searchVars, gone>>
  BY DEF DailyStep, Step, ClaimDay, FindSystem, FindExisting, PostNext, BoostPosted,
         ResurfaceOlder, BustFeedCaches, ReleaseClaim, TickFails, PodDies, NextDay
<1>2. ASSUME NEW p \in Pods, PostNext(p)
      PROVE  /\ prompts \subseteq prompts' \cup gone'
             /\ \A t : t \notin PoolTitles => OfSystem(t)' = OfSystem(t)
             /\ OneRowPerTitle => OneRowPerTitle'
  <2>1. PICK i \in tick[p].todo : Adds(Pool[i], TRUE, TRUE)
    BY <1>2, TickEffect
  <2>2. i \in DOMAIN Pool
    BY DEF Tick, PublishingTypes, TypeOK
  <2>3. Pool[i] \in Titles /\ Pool[i] \in PoolTitles
    BY <2>2, Lists
  <2>4. OfSystem(Pool[i]) = {}
    BY <1>2 DEF PostNext, TickInv
  <2> QED
    BY <2>1, <2>3, <2>4, RowAdded
<1>3. CASE UNCHANGED prompts
  BY <1>1, <1>3, RowsKept
<1> QED
  BY <1>1, <1>2, <1>3 DEF DailyStep, Step, ClaimDay, FindSystem, FindExisting, BoostPosted,
         ResurfaceOlder, BustFeedCaches, ReleaseClaim, TickFails, PodDies, NextDay

LEMMA SeedRows ==
    ASSUME PublishingTypes, SeedInv, SeedNext
    PROVE  /\ UNCHANGED <<daily, searchVars>> /\ prompts \cup gone \subseteq prompts' \cup gone'
           /\ \A t \in PoolTitles : OfSystem(t)' = OfSystem(t) /\ (t \in Used => t \in Used')
           /\ OneRowPerTitle => OneRowPerTitle'
<1>1. UNCHANGED <<daily, searchVars>>
  BY DEF SeedNext, StartSeed, UpsertSystem, LookUp, FillGap, RemoveRetired, EndSeed, SeedFails
<1>2. CASE FillGap
  <2> DEFINE t == Head(seed.todo)
  <2>1. seed.todo \in Seq(Titles) /\ seed.todo # <<>> /\ seed.missing
    BY <1>2 DEF FillGap, PublishingTypes, TypeOK, Seeding
  <2>2. seed.stage \in {"bank", "top"}
    BY <2>1 DEF SeedInv
  <2>3. t \in BankTitles \cup TopTitles /\ t \in Titles
    BY <2>1, <2>2, ListGoesOn DEF SeedInv
  <2>4. t \notin PoolTitles
    BY <2>3, Lists
  <2>5. OfSystem(t) = {}
    BY <2>1 DEF SeedInv
  <2>6. Adds(t, TRUE, TRUE)
    BY <1>2 DEF FillGap, Adds
  <2> HIDE DEF t
  <2>7. gone' = gone
    BY <2>6 DEF Adds
  <2> QED
    BY <1>1, <2>3, <2>4, <2>5, <2>6, <2>7, RowAdded
<1>3. CASE RemoveRetired
  <2>1. \A t \in PoolTitles : t \notin Retired
    BY Lists
  <2> QED
    BY <1>1, <1>3, <2>1, RetiredGone
<1>4. CASE UNCHANGED <<prompts, gone>>
  BY <1>1, <1>4, RowsKept
<1> QED
  BY <1>2, <1>3, <1>4 DEF SeedNext, StartSeed, UpsertSystem, LookUp, EndSeed, SeedFails

LEMMA OtherRows ==
    ASSUME PublishingTypes, Others
    PROVE  /\ UNCHANGED <<daily, seed, gone>> /\ prompts \subseteq prompts' \cup gone'
           /\ \A t : OfSystem(t)' = OfSystem(t) /\ (t \in Used => t \in Used')
           /\ OneRowPerTitle => OneRowPerTitle'
<1>1. UNCHANGED <<daily, seed, gone>>
  BY DEF Others, CreatePrompt, SearchNext, Indexed, IndexFailed, ReindexAll
<1>2. CASE SearchNext
  <2>1. UNCHANGED prompts
    BY <1>2 DEF SearchNext, Indexed, IndexFailed, ReindexAll
  <2> QED
    BY <1>1, <2>1, RowsKept
<1>3. ASSUME NEW own \in Own, CreatePrompt(own[1], own[2])
      PROVE  /\ prompts \subseteq prompts' \cup gone'
             /\ \A t : OfSystem(t)' = OfSystem(t) /\ (t \in Used => t \in Used')
             /\ OneRowPerTitle => OneRowPerTitle'
  <2>1. own[1] \in Titles /\ own[2] \in BOOLEAN
    BY ListsAssumption
  <2>2. Adds(own[1], FALSE, own[2])
    BY <1>3 DEF CreatePrompt, Adds
  <2> QED
    BY <2>1, <2>2, RowAdded
<1> QED
  BY <1>1, <1>2, <1>3 DEF Others

LEMMA RebuiltStep ==
    ASSUME PublishingTypes, SeedInv, TickInv, RebuiltInv, Next
    PROVE  RebuiltInv'
<1>1. CASE DailyStep
  BY <1>1, DailyRows DEF RebuiltInv, searchVars
<1>2. CASE SeedNext
  BY <1>2, SeedRows DEF RebuiltInv, searchVars
<1>3. CASE Others
  <2>1. gone' = gone /\ prompts \subseteq prompts' \cup gone'
    BY <1>3, OtherRows
  <2>2. /\ index \subseteq index'
        /\ healed' = healed \/ (healed' = prompts /\ prompts \subseteq index')
    BY <1>3 DEF Others, CreatePrompt, SearchNext, Indexed, IndexFailed, ReindexAll
  <2> QED
    BY <2>1, <2>2 DEF RebuiltInv
<1> QED
  BY <1>1, <1>2, <1>3 DEF Next, DailyStep, Others

-----------------------------------------------------------------------------
(* The seed.                                                               *)

LEMMA SeedFrame ==
    ASSUME SeedInv, UNCHANGED seed,
           \A t \in BankTitles \cup TopTitles \cup Retired : OfSystem(t)' = OfSystem(t),
           PublishingTypes
    PROVE  SeedInv'
<1>1. ASSUME seed.missing PROVE Head(seed.todo) \in BankTitles \cup TopTitles
  <2>1. seed.todo # <<>> /\ seed.stage \in {"bank", "top"}
    BY <1>1 DEF SeedInv, PublishingTypes
  <2>2. CASE seed.stage = "bank"
    BY <2>1, <2>2, ListGoesOn DEF SeedInv
  <2>3. CASE seed.stage = "top"
    BY <2>1, <2>3, ListGoesOn DEF SeedInv
  <2> QED
    BY <2>1, <2>2, <2>3
<1> QED
  BY <1>1 DEF SeedInv

LEMMA SeedStep ==
    ASSUME PublishingTypes, SeedInv, SeedNext
    PROVE  SeedInv'
<1>0. PICK head : head = Head(seed.todo)
  OBVIOUS
<1>1. /\ <<>> \in Seq(BankTitles) /\ <<>> \in Seq(TopTitles)
      /\ \A t : t \notin Range(<<>>)
      /\ Bank \in Seq(BankTitles) /\ Top \in Seq(TopTitles)
      /\ BankTitles = Range(Bank) /\ TopTitles = Range(Top)
  BY Lists, NothingLeft DEF BankTitles, TopTitles
<1>2. CASE StartSeed \/ SeedFails
  <2>1. seed'.stage \in {"account", "off"} /\ seed'.todo = <<>> /\ ~seed'.missing
    BY <1>2 DEF StartSeed, SeedFails, SeedAt
  <2> QED
    BY <2>1 DEF SeedInv
<1>3. CASE UpsertSystem
  <2>1. seed'.stage = "bank" /\ seed'.todo = Bank /\ ~seed'.missing
    BY <1>3 DEF UpsertSystem, SeedAt
  <2> QED
    BY <1>1, <2>1 DEF SeedInv
<1>4. ASSUME seed.todo # <<>>
      PROVE  /\ seed.stage \in {"bank", "top"}
             /\ seed.stage = "bank" =>
                   /\ head \in BankTitles /\ Tail(seed.todo) \in Seq(BankTitles)
                   /\ \A t : t \in Range(seed.todo) <=> t = head \/ t \in Range(Tail(seed.todo))
             /\ seed.stage = "top" =>
                   /\ head \in TopTitles /\ Tail(seed.todo) \in Seq(TopTitles)
                   /\ \A t : t \in Range(seed.todo) <=> t = head \/ t \in Range(Tail(seed.todo))
  <2>1. seed.stage \in {"bank", "top"}
    BY <1>4 DEF SeedInv
  <2>2. CASE seed.stage = "bank"
    BY <1>0, <1>4, <2>1, <2>2, ListGoesOn DEF SeedInv
  <2>3. CASE seed.stage = "top"
    BY <1>0, <1>4, <2>1, <2>3, ListGoesOn DEF SeedInv
  <2> QED
    BY <2>1, <2>2, <2>3
<1>5. ASSUME seed.todo # <<>>, SeedAt(seed.stage, Tail(seed.todo)), OfSystem(head)' # {},
             \A u : OfSystem(u) \subseteq OfSystem(u)',
             \A u \in Retired : OfSystem(u)' = OfSystem(u)
      PROVE  SeedInv'
  <2>1. seed'.stage = seed.stage /\ seed'.todo = Tail(seed.todo) /\ ~seed'.missing
    BY <1>5 DEF SeedAt
  <2>2. CASE seed.stage = "bank"
    <3>1. \A t \in BankTitles : t \in Range(Tail(seed.todo)) \/ OfSystem(t)' # {}
      BY <1>4, <1>5, <2>2 DEF SeedInv
    <3> QED
      BY <1>4, <1>5, <2>1, <2>2, <3>1 DEF SeedInv
  <2>3. CASE seed.stage = "top"
    <3>1. \A t \in TopTitles : t \in Range(Tail(seed.todo)) \/ OfSystem(t)' # {}
      BY <1>4, <1>5, <2>3 DEF SeedInv
    <3>2. (\A t \in BankTitles : OfSystem(t)' # {}) /\ (\A t \in Retired : OfSystem(t)' = {})
      BY <1>5, <2>3 DEF SeedInv
    <3> QED
      BY <1>4, <1>5, <2>1, <2>3, <3>1, <3>2 DEF SeedInv
  <2> QED
    BY <1>4, <1>5, <2>2, <2>3
<1>6. CASE LookUp
  <2>0. UNCHANGED prompts /\ seed.todo # <<>>
    BY <1>6 DEF LookUp
  <2>1. \A u : OfSystem(u)' = OfSystem(u)
    BY <2>0, RowsKept
  <2>2. CASE OfSystem(head) = {}
    <3>1. seed' = [seed EXCEPT !.missing = TRUE]
      BY <1>0, <1>6, <2>2 DEF LookUp
    <3>2. \A x \in Seeding : [x EXCEPT !.missing = TRUE].todo = x.todo
                          /\ [x EXCEPT !.missing = TRUE].stage = x.stage
      BY DEF Seeding
    <3>3. seed'.todo = seed.todo /\ seed'.stage = seed.stage
      BY <3>1, <3>2 DEF PublishingTypes, TypeOK
    <3> QED
      BY <1>0, <2>0, <2>1, <2>2, <3>3 DEF SeedInv
  <2>3. CASE OfSystem(head) # {}
    <3>1. SeedAt(seed.stage, Tail(seed.todo))
      BY <1>0, <1>6, <2>3 DEF LookUp
    <3> QED
      BY <1>5, <2>0, <2>1, <2>3, <3>1
  <2> QED
    BY <2>2, <2>3
<1>7. CASE FillGap
  <2>1. seed.todo # <<>> /\ SeedAt(seed.stage, Tail(seed.todo)) /\ Adds(head, TRUE, TRUE)
    BY <1>0, <1>7 DEF FillGap, Adds, PublishingTypes
  <2>2. head \in BankTitles \cup TopTitles
    BY <1>4, <2>1
  <2>3. head \in Titles /\ head \notin Retired
    BY <2>2, Lists
  <2>4. /\ \A u : u # head => OfSystem(u)' = OfSystem(u)
        /\ \A u : OfSystem(u) \subseteq OfSystem(u)'
        /\ OfSystem(head)' # {}
    BY <2>1, <2>3, RowAdded
  <2>5. \A u \in Retired : OfSystem(u)' = OfSystem(u)
    BY <2>3, <2>4
  <2> QED
    BY <1>5, <2>1, <2>4, <2>5
<1>8. CASE RemoveRetired
  <2>1. seed'.stage = "top" /\ seed'.todo = Top /\ ~seed'.missing
        /\ seed.stage = "bank" /\ seed.todo = <<>>
    BY <1>8 DEF RemoveRetired, SeedAt
  <2>2. \A t \in BankTitles : t \notin Retired
    BY Lists
  <2>3. /\ \A t \in Retired : OfSystem(t)' = {}
        /\ \A t \in BankTitles : OfSystem(t)' = OfSystem(t)
    BY <1>8, <2>2, RetiredGone
  <2>4. \A t \in BankTitles : OfSystem(t) # {}
    BY <1>1, <2>1 DEF SeedInv
  <2> QED
    BY <1>1, <2>1, <2>3, <2>4 DEF SeedInv
<1>9. CASE EndSeed
  <2>1. seed'.stage = "done" /\ seed'.todo = <<>> /\ ~seed'.missing
        /\ seed.stage = "top" /\ seed.todo = <<>> /\ UNCHANGED prompts
    BY <1>9 DEF EndSeed, SeedAt
  <2>2. \A u : OfSystem(u)' = OfSystem(u)
    BY <2>1, RowsKept
  <2> QED
    BY <1>1, <2>1, <2>2 DEF SeedInv
<1> QED
  BY <1>2, <1>3, <1>6, <1>7, <1>8, <1>9 DEF SeedNext

LEMMA SeedInvStep ==
    ASSUME PublishingTypes, SeedInv, TickInv, Next
    PROVE  SeedInv'
<1>1. CASE DailyStep
  <2>1. \A t \in BankTitles \cup TopTitles \cup Retired : t \notin PoolTitles
    BY Lists
  <2> QED
    BY <1>1, <2>1, DailyRows, SeedFrame
<1>2. CASE Others
  BY <1>2, OtherRows, SeedFrame
<1> QED
  BY <1>1, <1>2, SeedStep DEF Next, DailyStep, Others

LEMMA OneRowStep ==
    ASSUME PublishingTypes, SeedInv, TickInv, OneRowPerTitle, Next
    PROVE  OneRowPerTitle'
BY DailyRows, SeedRows, OtherRows DEF Next, DailyStep, Others

-----------------------------------------------------------------------------
(* The daily worker.                                                       *)

LEMMA TickTypes ==
    ASSUME PublishingTypes, NEW p \in Pods
    PROVE  /\ tick[p].day \in Day /\ tick[p].todo \subseteq DOMAIN Pool
           /\ IsFiniteSet(tick[p].todo)
           /\ posts \in [Day -> Nat] /\ today \in Day
<1>1. /\ tick[p] \in Tick /\ posts \in [Day -> Nat] /\ today \in Day
  BY DEF PublishingTypes, TypeOK
<1>2. IsFiniteSet(DOMAIN Pool)
  <2>1. DOMAIN Pool = 1 .. Len(Pool) /\ Len(Pool) \in Nat
    BY Lists, LenProperties
  <2>2. 1 \in Int /\ Len(Pool) \in Int
    BY <2>1
  <2> QED
    BY <2>1, <2>2, FS_Interval
<1>3. tick[p].day \in Day /\ tick[p].todo \subseteq DOMAIN Pool
  BY <1>1 DEF Tick
<1> QED
  BY <1>1, <1>2, <1>3, FS_Subset

(* Nobody but p works, before the step and after it.                       *)
LEMMA OthersIdle ==
    ASSUME TickInv, NEW p \in Pods, Working(p) \/ today \notin claimed,
           NEW stage, NEW day, NEW todo, Moved(p, stage, day, todo)
    PROVE  \A q \in Pods : q # p =>
              ~Working(q) /\ tick'[q] = tick[q] /\ tick'[q].stage = "off"
BY DEF TickInv, Working, Moved

LEMMA TickKept ==
    ASSUME TickInv, NEW p \in Pods, Working(p) \/ today \notin claimed,
           NEW stage, NEW day, NEW todo, Moved(p, stage, day, todo),
           stage # "off" => day = today' /\ today' \in claimed',
           stage \in {"post", "boost"} => \A i \in todo : OfSystem(Pool[i])' = {},
           stage = "release" => day \in failed'
    PROVE  TickInv'
<1>1. \A q \in Pods : q # p => tick'[q].stage = "off"
  BY OthersIdle
<1>2. tick'[p].stage = stage /\ tick'[p].day = day /\ tick'[p].todo = todo
  BY DEF Moved
<1> QED
  BY <1>1, <1>2 DEF TickInv, Working

LEMMA PendingIs ==
    ASSUME NEW T \in Pending
    PROVE  /\ T \subseteq DOMAIN Pool /\ IsFiniteSet(T)
           /\ \A i \in T : Pool[i] \notin Used
           /\ Cardinality(T) \in Nat /\ Cardinality(T) <= PerDay
           /\ Cardinality(T) < PerDay => \A i \in DOMAIN Pool : i \in T \/ Pool[i] \in Used
<1>1. /\ T \in SUBSET Fresh
      /\ Cardinality(T) = IF Cardinality(Fresh) < PerDay THEN Cardinality(Fresh) ELSE PerDay
  BY DEF Pending, DayOf
<1>2. Fresh \in SUBSET DOMAIN Pool /\ \A i \in DOMAIN Pool : i \in Fresh <=> Pool[i] \notin Used
  BY DEF Fresh
<1>3. IsFiniteSet(DOMAIN Pool)
  <2>1. DOMAIN Pool = 1 .. Len(Pool) /\ Len(Pool) \in Nat
    BY Lists, LenProperties
  <2>2. 1 \in Int /\ Len(Pool) \in Int
    BY <2>1
  <2> QED
    BY <2>1, <2>2, FS_Interval
<1>4. IsFiniteSet(Fresh)
  BY <1>2, <1>3, FS_Subset
<1>5. IsFiniteSet(T) /\ (Cardinality(Fresh) = Cardinality(T) => Fresh = T)
  BY <1>1, <1>4, FS_Subset
<1>6. Cardinality(Fresh) \in Nat /\ Cardinality(T) \in Nat
  BY <1>4, <1>5, FS_CardinalityType
<1>7. Cardinality(T) <= PerDay /\ (Cardinality(T) < PerDay => Cardinality(Fresh) = Cardinality(T))
  BY <1>1, <1>6, Sizes
<1> QED
  BY <1>1, <1>2, <1>5, <1>6, <1>7

LEMMA TickFrame ==
    ASSUME PublishingTypes, TickInv, UNCHANGED daily,
           \A t \in PoolTitles : OfSystem(t)' = OfSystem(t)
    PROVE  TickInv'
<1>1. \A p \in Pods : \A i \in tick[p].todo : Pool[i] \in PoolTitles
  BY TickTypes, Lists
<1>2. UNCHANGED <<tick, today, claimed, failed>>
  BY DEF daily
<1> QED
  BY <1>1, <1>2 DEF TickInv, Working

LEMMA DayOfWork ==
    ASSUME TickInv, NEW p \in Pods, Working(p)
    PROVE  tick[p].day = today /\ today \in claimed
BY DEF TickInv

LEMMA TickInvDaily ==
    ASSUME PublishingTypes, TickInv, NEW p \in Pods, Step(p) \/ TickFails(p) \/ PodDies(p)
    PROVE  TickInv'
<1>1. CASE ClaimDay(p)
  <2>1. Moved(p, "account", today, {}) /\ today \notin claimed /\ today' = today
        /\ today' \in claimed'
    BY <1>1, TickEffect DEF ClaimDay
  <2> QED
    BY <2>1, TickKept
<1>2. ASSUME NEW s \in {"pool", "resurface", "bust"}, Working(p),
             Moved(p, s, tick[p].day, tick[p].todo), UNCHANGED <<today, claimed>>
      PROVE  TickInv'
  <2>1. PICK d, T : d = tick[p].day /\ T = tick[p].todo
    OBVIOUS
  <2>2. Moved(p, s, d, T) /\ d = today' /\ today' \in claimed'
    BY <1>2, <2>1, DayOfWork
  <2> QED
    BY <1>2, <2>2, TickKept
<1>3. CASE FindSystem(p)
  <2>1. PICK s \in {"pool", "resurface"} : Moved(p, s, tick[p].day, tick[p].todo)
    BY <1>3, TickEffect
  <2>2. Working(p) /\ UNCHANGED <<today, claimed>>
    BY <1>3 DEF FindSystem, Working
  <2> QED
    BY <1>2, <2>1, <2>2
<1>4. CASE FindExisting(p)
  <2>1. PICK T \in Pending :
           Moved(p, IF T = {} THEN "resurface" ELSE "post", tick[p].day, T)
    BY <1>4, TickEffect
  <2>2. PICK d, s : d = tick[p].day /\ s = IF T = {} THEN "resurface" ELSE "post"
    OBVIOUS
  <2>3. Working(p) /\ UNCHANGED <<today, claimed, prompts>>
    BY <1>4 DEF FindExisting, Working
  <2>4. Moved(p, s, d, T) /\ d = today' /\ today' \in claimed' /\ s \in {"resurface", "post"}
    BY <2>1, <2>2, <2>3, DayOfWork
  <2>5. \A i \in T : Pool[i] \notin Used
    BY PendingIs
  <2>6. \A i \in T : OfSystem(Pool[i])' = {}
    BY <2>3, <2>5 DEF OfSystem, Used
  <2> QED
    BY <2>3, <2>4, <2>6, TickKept
<1>5. CASE PostNext(p)
  <2>1. PICK i \in tick[p].todo : Moved(p, "boost", tick[p].day, tick[p].todo \ {i})
                                  /\ Adds(Pool[i], TRUE, TRUE)
    BY <1>5, TickEffect
  <2>2. PICK d, T : d = tick[p].day /\ T = tick[p].todo \ {i}
    OBVIOUS
  <2>3. Working(p) /\ UNCHANGED <<today, claimed>> /\ tick[p].stage = "post"
    BY <1>5 DEF PostNext, Working
  <2>4. Moved(p, "boost", d, T) /\ d = today' /\ today' \in claimed'
    BY <2>1, <2>2, <2>3, DayOfWork
  <2>5. ASSUME NEW j \in T PROVE OfSystem(Pool[j])' = {}
    <3>1. i \in DOMAIN Pool /\ j \in DOMAIN Pool /\ i # j /\ OfSystem(Pool[j]) = {}
      BY <2>2, <2>3, TickTypes DEF TickInv
    <3>2. Pool[i] # Pool[j] /\ Pool[i] \in Titles
      BY <3>1, Lists
    <3>3. OfSystem(Pool[j])' = OfSystem(Pool[j])
      BY <2>1, <3>2, RowAdded
    <3> QED
      BY <3>1, <3>3
  <2> QED
    BY <2>3, <2>4, <2>5, TickKept
<1>6. CASE BoostPosted(p)
  <2>1. PICK d, s, T : /\ d = tick[p].day /\ T = tick[p].todo
                       /\ s = IF tick[p].todo = {} THEN "bust" ELSE "post"
    OBVIOUS
  <2>2. Working(p) /\ UNCHANGED <<today, claimed, prompts>> /\ tick[p].stage = "boost"
    BY <1>6 DEF BoostPosted, Working
  <2>3. Moved(p, s, d, T) /\ d = today' /\ today' \in claimed' /\ s \in {"bust", "post"}
    BY <1>6, <2>1, <2>2, DayOfWork, TickEffect
  <2>4. \A i \in T : OfSystem(Pool[i])' = {}
    BY <2>1, <2>2 DEF TickInv, OfSystem
  <2> QED
    BY <2>2, <2>3, <2>4, TickKept
<1>7. CASE ResurfaceOlder(p)
  <2>1. Moved(p, "bust", tick[p].day, tick[p].todo)
    BY <1>7, TickEffect
  <2>2. Working(p) /\ UNCHANGED <<today, claimed>>
    BY <1>7 DEF ResurfaceOlder, Working
  <2> QED
    BY <1>2, <2>1, <2>2
<1>8. CASE BustFeedCaches(p) \/ ReleaseClaim(p) \/ PodDies(p)
  <2>1. PICK d, T : Moved(p, "off", d, T)
    BY <1>8, TickEffect
  <2>2. Working(p)
    BY <1>8 DEF BustFeedCaches, ReleaseClaim, PodDies, Working
  <2> QED
    BY <2>1, <2>2, TickKept
<1>9. CASE TickFails(p)
  <2>1. PICK d, T : d = tick[p].day /\ T = tick[p].todo
    OBVIOUS
  <2>2. Working(p) /\ UNCHANGED <<today, claimed>> /\ failed' = failed \cup {tick[p].day}
    BY <1>9 DEF TickFails, Working
  <2>3. Moved(p, "release", d, T) /\ d = today' /\ today' \in claimed' /\ d \in failed'
    BY <1>9, <2>1, <2>2, DayOfWork, TickEffect
  <2> QED
    BY <2>2, <2>3, TickKept
<1> QED
  BY <1>1, <1>3, <1>4, <1>5, <1>6, <1>7, <1>8, <1>9 DEF Step

LEMMA TickInvStep ==
    ASSUME PublishingTypes, SeedInv, TickInv, Next
    PROVE  TickInv'
<1>1. CASE NextDay
  <2>1. \A p \in Pods : ~Working(p) /\ tick' = tick
    BY <1>1 DEF NextDay
  <2> QED
    BY <2>1 DEF TickInv, Working
<1>2. CASE SeedNext
  BY <1>2, SeedRows, TickFrame
<1>3. CASE Others
  BY <1>3, OtherRows, TickFrame
<1> QED
  BY <1>1, <1>2, <1>3, TickInvDaily DEF Next, Others

(* Of a day without trouble: what it has got.                              *)
DayOK(e) ==
    /\ posts[e] <= PerDay
    /\ e \notin claimed => posts[e] = 0 /\ e \notin served
    /\ e \in served => Met(e)

LEMMA DayKept ==
    ASSUME TickInv, NEW p \in Pods, Working(p) \/ today \notin claimed,
           NEW stage, NEW day, NEW todo, Moved(p, stage, day, todo),
           \A e \in Day \ (failed' \cup died') :
              DayOK(e)' /\ (stage # "off" /\ day = e => TickOnDay(p, e)')
    PROVE  DayInv'
<1>1. \A q \in Pods : q # p => tick'[q].stage = "off"
  BY OthersIdle
<1>2. tick'[p].stage = stage /\ tick'[p].day = day
  BY DEF Moved
<1>3. ASSUME NEW q \in Pods, NEW e \in Day \ (failed' \cup died'), Working(q)', tick'[q].day = e
      PROVE  TickOnDay(q, e)'
  <2>1. q = p
    BY <1>1, <1>3 DEF Working
  <2> QED
    BY <1>2, <1>3, <2>1 DEF Working
<1> QED
  BY <1>3 DEF DayInv, DayOK

LEMMA DayStays ==
    ASSUME NEW e, posts'[e] = posts[e], UNCHANGED <<claimed, served>>, DayOK(e),
           \A t \in PoolTitles : t \in Used => t \in Used'
    PROVE  DayOK(e)'
BY DEF DayOK, Met

LEMMA DayFrame ==
    ASSUME PublishingTypes, DayInv, UNCHANGED daily,
           \A t \in PoolTitles : t \in Used => t \in Used'
    PROVE  DayInv'
<1>1. UNCHANGED <<tick, posts, claimed, served, failed, died>>
  BY DEF daily
<1>2. \A i \in DOMAIN Pool : Pool[i] \in PoolTitles
  BY Lists
<1>3. \A e : Met(e) => Met(e)'
  BY <1>1 DEF Met
<1>4. \A p \in Pods : \A e : TickOnDay(p, e) => TickOnDay(p, e)'
  BY <1>1, <1>2, <1>3 DEF TickOnDay
<1> QED
  BY <1>1, <1>3, <1>4 DEF DayInv, Working

LEMMA DayInvDaily ==
    ASSUME PublishingTypes, TickInv, DayInv, NEW p \in Pods, Step(p) \/ TickFails(p) \/ PodDies(p)
    PROVE  DayInv'
<1>0. /\ posts \in [Day -> Nat] /\ tick[p].day \in Day
      /\ tick[p].todo \subseteq DOMAIN Pool /\ IsFiniteSet(tick[p].todo)
      /\ Cardinality(tick[p].todo) \in Nat /\ PerDay \in Nat /\ PerDay > 0
      /\ \A e \in Day : posts[e] \in Nat
  BY TickTypes, Sizes, FS_CardinalityType
<1>1. \A e \in Day \ (failed \cup died) :
         DayOK(e) /\ (Working(p) /\ tick[p].day = e => TickOnDay(p, e))
  BY DEF DayInv, DayOK
<1>2. CASE ClaimDay(p)
  <2>1. /\ Moved(p, "account", today, {}) /\ today \notin claimed /\ claimed' = claimed \cup {today}
        /\ UNCHANGED <<prompts, posts, served, failed, died>>
    BY <1>2, TickEffect DEF ClaimDay
  <2>2. Used' = Used
    BY <2>1, RowsKept
  <2>3. \A e \in Day \ (failed' \cup died') : DayOK(e)'
    BY <1>1, <2>1, <2>2 DEF DayOK, Met
  <2>4. \A e \in Day \ (failed' \cup died') : today = e => TickOnDay(p, e)'
    BY <1>1, <2>1 DEF DayOK, TickOnDay, Moved
  <2>5. PICK d : d = today
    OBVIOUS
  <2> QED
    BY <2>1, <2>3, <2>4, <2>5, DayKept
<1>3. CASE FindSystem(p)
  <2>1. PICK s \in {"pool", "resurface"} : Moved(p, s, tick[p].day, tick[p].todo)
    BY <1>3, TickEffect
  <2>2. PICK d, T : d = tick[p].day /\ T = tick[p].todo
    OBVIOUS
  <2>3. /\ Working(p) /\ tick[p].stage = "account"
        /\ UNCHANGED <<prompts, posts, served, claimed, failed, died>>
    BY <1>3 DEF FindSystem, Working
  <2>4. \A e \in Day \ (failed' \cup died') : DayOK(e)'
    BY <1>1, <2>3, RowsKept, DayStays
  <2>5. Moved(p, s, d, T)
    BY <2>1, <2>2
  <2>6. \A e \in Day \ (failed' \cup died') : d = e => TickOnDay(p, e)'
    BY <1>1, <2>2, <2>3, <2>5 DEF TickOnDay, Moved
  <2> QED
    BY <2>3, <2>4, <2>5, <2>6, DayKept
<1>4. CASE FindExisting(p)
  <2>1. PICK T \in Pending :
           Moved(p, IF T = {} THEN "resurface" ELSE "post", tick[p].day, T)
    BY <1>4, TickEffect
  <2>2. PICK d, s : d = tick[p].day /\ s = IF T = {} THEN "resurface" ELSE "post"
    OBVIOUS
  <2>3. /\ Working(p) /\ tick[p].stage = "pool"
        /\ UNCHANGED <<prompts, posts, served, claimed, failed, died>>
    BY <1>4 DEF FindExisting, Working
  <2>4. \A e \in Day \ (failed' \cup died') : DayOK(e)'
    BY <1>1, <2>3, RowsKept, DayStays
  <2>5. Moved(p, s, d, T) /\ s \in {"resurface", "post"}
    BY <2>1, <2>2
  <2>6. ASSUME NEW e \in Day \ (failed' \cup died'), d = e PROVE TickOnDay(p, e)'
    <3>1. posts'[e] = 0 /\ e \notin served'
      BY <1>1, <2>2, <2>3, <2>6 DEF TickOnDay
    <3>2. /\ Cardinality(T) \in Nat /\ Cardinality(T) <= PerDay
          /\ Cardinality(T) < PerDay => \A i \in DOMAIN Pool : i \in T \/ Pool[i] \in Used
      BY PendingIs
    <3>3. Used' = Used
      BY <2>3, RowsKept
    <3>4. tick'[p].stage = s /\ tick'[p].todo = T
      BY <2>5 DEF Moved
    <3> QED
      BY <2>5, <3>1, <3>2, <3>3, <3>4 DEF TickOnDay
  <2> QED
    BY <2>3, <2>4, <2>5, <2>6, DayKept
<1>5. CASE PostNext(p)
  <2>1. PICK i \in tick[p].todo : Moved(p, "boost", tick[p].day, tick[p].todo \ {i})
                                  /\ Adds(Pool[i], TRUE, TRUE)
    BY <1>5, TickEffect
  <2>2. PICK d, T : d = tick[p].day /\ T = tick[p].todo \ {i}
    OBVIOUS
  <2>3. /\ Working(p) /\ tick[p].stage = "post" /\ posts' = [posts EXCEPT ![d] = @ + 1]
        /\ UNCHANGED <<served, claimed, failed, died>>
    BY <1>5, <2>2 DEF PostNext, Working
  <2>4. Moved(p, "boost", d, T)
    BY <2>1, <2>2
  <2>5. i \in DOMAIN Pool /\ Pool[i] \in Titles
    BY <1>0, Lists
  <2>6. Used \subseteq Used' /\ Pool[i] \in Used'
    BY <2>1, <2>5, RowAdded
  <2>7. Cardinality(T) = Cardinality(tick[p].todo) - 1
    BY <1>0, <2>2, FS_RemoveElement
  <2>8. d \in claimed
    BY <2>2, <2>3, DayOfWork
  <2>9. posts'[d] = posts[d] + 1 /\ \A e \in Day : e # d => posts'[e] = posts[e]
    BY <1>0, <2>2, <2>3
  <2>10. ASSUME NEW e \in Day \ (failed' \cup died'), d = e
         PROVE  DayOK(e)' /\ TickOnDay(p, e)'
    <3>1. /\ e \notin served /\ posts[e] + Cardinality(tick[p].todo) <= PerDay
          /\ posts[e] + Cardinality(tick[p].todo) < PerDay =>
                \A j \in DOMAIN Pool : j \in tick[p].todo \/ Pool[j] \in Used
      BY <1>1, <2>2, <2>3, <2>10 DEF TickOnDay
    <3>2. posts'[e] + Cardinality(T) = posts[e] + Cardinality(tick[p].todo)
          /\ Cardinality(T) \in Nat /\ posts'[e] \in Nat
      <4>1. IsFiniteSet(T)
        BY <1>0, <2>2, FS_RemoveElement
      <4>2. Cardinality(T) \in Nat
        BY <4>1, FS_CardinalityType
      <4> QED
        BY <1>0, <2>7, <2>9, <2>10, <4>2
    <3>3. posts'[e] <= PerDay
      BY <1>0, <3>1, <3>2
    <3>4. \A j \in DOMAIN Pool :
             j \in tick[p].todo \/ Pool[j] \in Used => j \in T \/ Pool[j] \in Used'
      BY <2>2, <2>6
    <3>5. tick'[p].stage = "boost" /\ tick'[p].todo = T
      BY <2>4 DEF Moved
    <3> QED
      BY <2>3, <2>8, <2>10, <3>1, <3>2, <3>3, <3>4, <3>5 DEF DayOK, TickOnDay
  <2>11. ASSUME NEW e \in Day \ (failed' \cup died'), d # e PROVE DayOK(e)'
    BY <1>1, <2>3, <2>6, <2>9, <2>11, DayStays
  <2> QED
    BY <2>3, <2>4, <2>10, <2>11, DayKept
<1>6. CASE BoostPosted(p)
  <2>1. PICK d, s, T : /\ d = tick[p].day /\ T = tick[p].todo
                       /\ s = IF tick[p].todo = {} THEN "bust" ELSE "post"
    OBVIOUS
  <2>2. /\ Working(p) /\ tick[p].stage = "boost"
        /\ UNCHANGED <<prompts, posts, served, claimed, failed, died>>
    BY <1>6 DEF BoostPosted, Working
  <2>3. Moved(p, s, d, T) /\ s \in {"bust", "post"}
    BY <1>6, <2>1, TickEffect
  <2>4. \A e \in Day \ (failed' \cup died') : DayOK(e)'
    BY <1>1, <2>2, RowsKept, DayStays
  <2>5. ASSUME NEW e \in Day \ (failed' \cup died'), d = e PROVE TickOnDay(p, e)'
    <3>1. /\ e \notin served /\ posts[e] + Cardinality(T) <= PerDay
          /\ posts[e] + Cardinality(T) < PerDay =>
                \A j \in DOMAIN Pool : j \in T \/ Pool[j] \in Used
      BY <1>1, <2>1, <2>2, <2>5 DEF TickOnDay
    <3>2. tick'[p].stage = s /\ tick'[p].todo = T
      BY <2>3 DEF Moved
    <3>3. Used' = Used
      BY <2>2, RowsKept
    <3>4. ASSUME s = "bust" PROVE Met(e)'
      <4>1. T = {} /\ Cardinality(T) = 0
        BY <2>1, <3>4, FS_EmptySet
      <4>2. posts[e] < PerDay => \A j \in DOMAIN Pool : Pool[j] \in Used
        BY <1>0, <3>1, <4>1
      <4>3. posts[e] \in 1 .. PerDay - 1 => posts[e] < PerDay
        BY <1>0
      <4> QED
        BY <2>2, <3>3, <4>2, <4>3, Lists DEF Met
    <3> QED
      BY <2>2, <2>3, <3>1, <3>2, <3>3, <3>4 DEF TickOnDay
  <2> QED
    BY <2>2, <2>3, <2>4, <2>5, DayKept
<1>7. CASE ResurfaceOlder(p)
  <2>1. PICK d, T : d = tick[p].day /\ T = tick[p].todo
    OBVIOUS
  <2>2. /\ Working(p) /\ tick[p].stage = "resurface"
        /\ UNCHANGED <<prompts, posts, served, claimed, failed, died>>
    BY <1>7 DEF ResurfaceOlder, Working
  <2>3. Moved(p, "bust", d, T)
    BY <1>7, <2>1, TickEffect
  <2>4. \A e \in Day \ (failed' \cup died') : DayOK(e)'
    BY <1>1, <2>2, RowsKept, DayStays
  <2>5. \A e \in Day \ (failed' \cup died') : d = e => TickOnDay(p, e)'
    BY <1>1, <2>1, <2>2, <2>3 DEF TickOnDay, Moved, Met
  <2> QED
    BY <2>2, <2>3, <2>4, <2>5, DayKept
<1>8. CASE BustFeedCaches(p)
  <2>1. PICK d, T : d = tick[p].day /\ T = tick[p].todo
    OBVIOUS
  <2>2. /\ Working(p) /\ tick[p].stage = "bust" /\ served' = served \cup {d}
        /\ UNCHANGED <<prompts, posts, claimed, failed, died>>
    BY <1>8, <2>1 DEF BustFeedCaches, Working
  <2>3. Moved(p, "off", d, T) /\ d \in claimed
    BY <1>8, <2>1, <2>2, TickEffect, DayOfWork
  <2>4. Used' = Used
    BY <2>2, RowsKept
  <2>5. \A e \in Day \ (failed' \cup died') : e = d => Met(e)
    BY <1>1, <2>1, <2>2 DEF TickOnDay
  <2>6. \A e \in Day \ (failed' \cup died') : DayOK(e)'
    BY <1>1, <2>2, <2>3, <2>4, <2>5 DEF DayOK, Met
  <2> QED
    BY <2>2, <2>3, <2>6, DayKept
<1>9. CASE ReleaseClaim(p)
  <2>1. PICK d, T : d = tick[p].day /\ T = tick[p].todo
    OBVIOUS
  <2>2. /\ Working(p) /\ tick[p].stage = "release" /\ claimed' = claimed \ {d}
        /\ UNCHANGED <<prompts, posts, served, failed, died>>
    BY <1>9, <2>1 DEF ReleaseClaim, Working
  <2>3. Moved(p, "off", d, T) /\ d \in failed
    BY <1>9, <2>1, <2>2, TickEffect DEF TickInv
  <2>4. Used' = Used
    BY <2>2, RowsKept
  <2>5. \A e \in Day \ (failed' \cup died') : DayOK(e)'
    BY <1>1, <2>2, <2>3, <2>4 DEF DayOK, Met
  <2> QED
    BY <2>2, <2>3, <2>5, DayKept
<1>10. CASE TickFails(p)
  <2>1. PICK d, T : d = tick[p].day /\ T = tick[p].todo
    OBVIOUS
  <2>2. /\ Working(p) /\ failed' = failed \cup {d}
        /\ UNCHANGED <<prompts, posts, served, claimed, died>>
    BY <1>10, <2>1 DEF TickFails, Working
  <2>3. Moved(p, "release", d, T)
    BY <1>10, <2>1, TickEffect
  <2>4. \A e \in Day \ (failed' \cup died') : DayOK(e)' /\ d # e
    BY <1>1, <2>2, RowsKept, DayStays
  <2> QED
    BY <2>2, <2>3, <2>4, DayKept
<1>11. CASE PodDies(p)
  <2>1. /\ Working(p) /\ died' = died \cup {tick[p].day}
        /\ UNCHANGED <<prompts, posts, served, claimed, failed>>
    BY <1>11 DEF PodDies, Working
  <2>2. Moved(p, "off", 1, {})
    BY <1>11, TickEffect
  <2>3. \A e \in Day \ (failed' \cup died') : DayOK(e)'
    BY <1>1, <2>1, RowsKept, DayStays
  <2> QED
    BY <2>1, <2>2, <2>3, DayKept
<1> QED
  BY <1>2, <1>3, <1>4, <1>5, <1>6, <1>7, <1>8, <1>9, <1>10, <1>11 DEF Step

LEMMA DayInvStep ==
    ASSUME PublishingTypes, SeedInv, TickInv, DayInv, Next
    PROVE  DayInv'
<1>1. CASE NextDay
  <2>1. /\ \A p \in Pods : ~Working(p) /\ tick' = tick
        /\ UNCHANGED <<prompts, posts, served, claimed, failed, died>>
    BY <1>1 DEF NextDay
  <2>2. Used' = Used
    BY <2>1, RowsKept
  <2> QED
    BY <2>1, <2>2 DEF DayInv, Working, Met
<1>2. CASE SeedNext
  BY <1>2, SeedRows, DayFrame
<1>3. CASE Others
  BY <1>3, OtherRows, DayFrame
<1> QED
  BY <1>1, <1>2, <1>3, DayInvDaily DEF Next, Others

-----------------------------------------------------------------------------
(* The properties.                                                         *)

LEMMA PublishingInvInit == Init => PublishingInv
<1> SUFFICES ASSUME Init PROVE PublishingInv
  OBVIOUS
<1>1. RebuiltInv
  BY DEF Init, SearchInit, RebuiltInv
<1>2. OneRowPerTitle
  <2>1. \A r \in prompts : \E t \in Retired : r = SystemRow(t, 0)
    BY DEF Init
  <2>2. \A t, u : SystemRow(t, 0).title = SystemRow(u, 0).title => t = u
    BY DEF SystemRow
  <2> QED
    BY <2>1, <2>2 DEF OneRowPerTitle
<1>3. SeedInv
  BY DEF Init, SeedInv
<1>4. \A p \in Pods : tick[p] = NoTick
  BY DEF Init
<1>5. \A p \in Pods : tick[p].stage = "off"
  BY <1>4, IdleTick
<1>6. TickInv
  BY <1>5 DEF TickInv, Working
<1>7. DayInv
  BY <1>5, Sizes DEF Init, DayInv, Working
<1> QED
  BY <1>1, <1>2, <1>3, <1>6, <1>7 DEF PublishingInv

LEMMA PublishingInvStep == PublishingTypes /\ PublishingInv /\ [Next]_vars => PublishingInv'
<1> SUFFICES ASSUME PublishingTypes, PublishingInv, [Next]_vars PROVE PublishingInv'
  OBVIOUS
<1>1. CASE Next
  BY <1>1, RebuiltStep, OneRowStep, SeedInvStep, TickInvStep, DayInvStep DEF PublishingInv
<1>2. CASE UNCHANGED vars
  <2>1. OneRowPerTitle' /\ RebuiltInv'
    BY <1>2 DEF PublishingInv, OneRowPerTitle, RebuiltInv, vars
  <2>2. \A t : OfSystem(t)' = OfSystem(t) /\ (t \in Used => t \in Used')
    BY <1>2, RowsKept DEF vars
  <2>3. UNCHANGED <<seed, daily>>
    BY <1>2 DEF vars, daily
  <2> QED
    BY <2>1, <2>2, <2>3, SeedFrame, TickFrame, DayFrame DEF PublishingInv
<1> QED
  BY <1>1, <1>2

LEMMA PublishingInvariant == Spec => [](PublishingTypes /\ PublishingInv)
BY PublishingTypesInit, PublishingTypesStep, PublishingInvInit, PublishingInvStep, PTL DEF Spec

(* Whatever fails, dies, races or seeds again: one row per title of the    *)
(* system's lists, a seed that ended has done all of it, one pod works for *)
(* a day, and a day without trouble gets its share of the pool             *)
(* (DailyPromptsService.tick, seed.ts).                                    *)
THEOREM SystemPostsAsPlanned == Spec => []PostedAsPlanned
<1>1. PublishingTypes /\ PublishingInv => PostedAsPlanned
  <2> SUFFICES ASSUME PublishingTypes, PublishingInv PROVE PostedAsPlanned
    OBVIOUS
  <2>1. \A r, s \in prompts : r.system /\ s.system /\ r.title = s.title => r = s
    BY DEF PublishingInv, OneRowPerTitle
  <2>2. ASSUME seed.stage = "done"
        PROVE  /\ \A t \in BankTitles \cup TopTitles : OfSystem(t) # {}
               /\ \A t \in Retired : OfSystem(t) = {}
    BY <2>2, NothingLeft DEF PublishingInv, SeedInv
  <2>3. \A p, q \in Pods : Working(p) /\ Working(q) => p = q
    BY DEF PublishingInv, TickInv
  <2>4. \A d \in Day \ (failed \cup died) :
           /\ posts[d] <= PerDay
           /\ d \in served /\ posts[d] \in 1 .. PerDay - 1 => PoolTitles \subseteq Used
    BY DEF PublishingInv, DayInv, Met
  <2> QED
    BY <2>1, <2>2, <2>3, <2>4 DEF PostedAsPlanned
<1> QED
  BY <1>1, PublishingInvariant, PTL

(* Lost and late index writes and deleted rows notwithstanding, a search   *)
(* shows public prompts only and finds each one that the last rebuild read *)
(* and that is there still (SearchService.searchAll, searchPostgres).      *)
THEOREM SearchIsSound == Spec => []SearchSound
<1>1. PublishingTypes /\ PublishingInv => SearchSound
  <2> SUFFICES ASSUME PublishingInv PROVE SearchSound
    OBVIOUS
  <2>1. healed \subseteq index /\ healed \subseteq prompts \cup gone
    BY DEF PublishingInv, RebuiltInv
  <2>2. \A rows : Public(Public(rows)) = Public(rows)
    BY DEF Public
  <2>3. Public(healed) \ gone \subseteq Public(index)
    BY <2>1 DEF Public
  <2>4. Public(healed) \ gone \subseteq Public(prompts)
    BY <2>1 DEF Public
  <2> QED
    BY <2>2, <2>3, <2>4 DEF SearchSound, Answers, SearchAll, SearchPostgres
<1> QED
  BY <1>1, PublishingInvariant, PTL

=============================================================================
