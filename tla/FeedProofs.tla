----------------------------- MODULE FeedProofs -----------------------------
(***************************************************************************)
(* How readers come to a room: what holds of Feed for any readers,         *)
(* writers, categories, page sizes and bounds, and, from "Overflow" on, of *)
(* Overflow for any number of joins in flight, any crowd and any number of *)
(* rooms.                                                                  *)
(***************************************************************************)
EXTENDS Feed, Overflow, FiniteSetTheorems, SequenceTheorems, TLAPS

-----------------------------------------------------------------------------
(* The invariant, of a table t and a reader's record x, so that a step's   *)
(* two states can be spoken of alike.                                      *)

HeldIn(t, c) ==
    {p \in DOMAIN t : t[p].state = "PUBLIC" /\ (c = AllCategories \/ t[p].category = c)}

(* What a step may do to the table: rows are added and published.          *)
Grows(t, u) ==
    /\ DOMAIN t \subseteq DOMAIN u
    /\ \A p \in DOMAIN t :
          /\ u[p].category = t[p].category
          /\ t[p].state = "PUBLIC" => u[p].state = "PUBLIC"

CursorOf(x) == IF x.pages = <<>> THEN 0 ELSE x.pages[Len(x.pages)].next

(* The parts of a page are disjoint, and its cursor is a row of it ...     *)
Solid(page) ==
    /\ page.pinned \cap page.live = {} /\ page.pinned \cap page.personal = {}
    /\ page.pinned \cap page.stream = {} /\ page.live \cap page.personal = {}
    /\ page.live \cap page.stream = {} /\ page.personal \cap page.stream = {}
    /\ page.next # 0 => page.next \in page.stream

(* ... its lowest, where rows go by creation ...                           *)
Ordered(page) == page.next # 0 => \A p \in page.stream : page.next <= p

(* ... and whatever the feed held is on the page or below the cursor.      *)
Covers(page) ==
    \A h \in page.held : h \in Shown(page) \/ (page.next # 0 /\ h < page.next)

FirstOK(t, f, page) ==
    /\ Solid(page) /\ page.held \subseteq HeldIn(t, f.category)
    /\ f.sort = "new" => Ordered(page) /\ Covers(page)

Seen(pages, h) ==
    \E i \in DOMAIN pages : h \in Shown(pages[i]) \/ (i > 1 /\ h \in pages[i].boosted)

(* Of the list a reader has collected.                                     *)
PagesOK(t, x) ==
    /\ \A i \in DOMAIN x.pages :
          /\ Solid(x.pages[i])
          /\ i > 1 \/ x.feed.sort = "new" => Ordered(x.pages[i])
          /\ ~x.member => x.pages[i].personal = {}
    /\ \A i, j \in DOMAIN x.pages : i < j =>
          x.pages[i].next # 0 /\ \A q \in x.pages[j].stream : q < x.pages[i].next
    /\ x.pages # <<>> =>
          /\ x.pages[1].held \subseteq HeldIn(t, x.feed.category)
          /\ x.feed.sort = "new" => \A h \in x.pages[1].held :
                Seen(x.pages, h) \/ (CursorOf(x) # 0 /\ h < CursorOf(x))

(* Of the page a request is putting together.                              *)
Reading == {"boosts", "live", "personal", "rows", "answer"}

DraftOK(t, x) ==
    LET d == x.draft IN
    /\ x.stage = "cache" => x.pages = <<>>
    /\ x.stage = "cache" => ~x.member
    /\ x.stage \in Reading /\ x.pages # <<>> => CursorOf(x) # 0
    /\ x.stage = "personal" => x.member
    /\ ~x.member => d.personal = {}
    /\ d.pinned = {}
    /\ x.stage = "live" => d.live = {}
    /\ x.stage \in {"live", "personal"} => d.personal = {}
    /\ x.stage \in {"live", "personal", "rows"} => d.stream = {} /\ d.next = 0
    /\ d.boosted \cap d.live = {} /\ d.boosted \cap d.personal = {}
    /\ d.boosted \cap d.stream = {} /\ Solid(d)
    /\ x.stage = "answer" =>
          /\ d.held \subseteq HeldIn(t, x.feed.category)
          /\ x.pages # <<>> => /\ x.pages[1].held \subseteq d.held
                              /\ \A q \in d.stream : q < CursorOf(x)
          /\ x.pages # <<>> \/ x.feed.sort = "new" =>
                /\ Ordered(d)
                /\ \A h \in d.held : CursorOf(x) = 0 \/ h < CursorOf(x) =>
                      \/ h \in d.boosted \cup d.live \cup d.personal \cup d.stream
                      \/ d.next # 0 /\ h < d.next

(* Writers: a row is committed once, by the handler that inserted it.      *)
WriterOK ==
    /\ \A w \in Writers : writer[w].stage \in {"commit", "boost", "repin"} =>
          writer[w].prompt \in DOMAIN prompts
    /\ \A w \in Writers : AtW(w, "commit") => prompts[writer[w].prompt].state = "pending"
    /\ \A v, w \in Writers :
          AtW(v, "commit") /\ AtW(w, "commit") /\ writer[v].prompt = writer[w].prompt => v = w

CacheOK == \A f \in DOMAIN cache : FirstOK(prompts, f, cache[f]) /\ cache[f].personal = {}

FeedTypes == TypeOK /\ WriterOK

FeedInv ==
    /\ CacheOK
    /\ \A r \in Readers : PagesOK(prompts, reader[r]) /\ DraftOK(prompts, reader[r])

-----------------------------------------------------------------------------
(* Sequences without repetition, as the boosts are.                        *)

LEMMA RemovedOnce ==
    ASSUME NEW S, NEW s \in Seq(S), IsInjective(s), NEW p
    PROVE  /\ RemoveFirst(s, p) \in Seq(S) /\ IsInjective(RemoveFirst(s, p))
           /\ \A i \in DOMAIN RemoveFirst(s, p) : RemoveFirst(s, p)[i] # p
<1>0. Len(s) \in Nat /\ DOMAIN s = 1 .. Len(s) /\ \A i \in 1 .. Len(s) : s[i] \in S
  BY LenProperties
<1>1. CASE \A i \in 1 .. Len(s) : s[i] # p
  BY <1>0, <1>1 DEF RemoveFirst
<1>2. ASSUME NEW k \in 1 .. Len(s), s[k] = p
      PROVE  /\ RemoveFirst(s, p) \in Seq(S) /\ IsInjective(RemoveFirst(s, p))
             /\ \A i \in DOMAIN RemoveFirst(s, p) : RemoveFirst(s, p)[i] # p
  <2> DEFINE a == SubSeq(s, 1, k - 1)
             b == SubSeq(s, k + 1, Len(s))
             t == a \o b
  <2>1. RemoveFirst(s, p) = t
    <3>1. {i \in 1 .. Len(s) : s[i] = p} = {k}
      BY <1>0, <1>2 DEF IsInjective
    <3>2. Min({k}) = k
      BY <1>0 DEF Min
    <3>3. SelectInSeq(s, LAMBDA v : v = p) = k
      BY <3>1, <3>2 DEF SelectInSeq
    <3> QED
      BY <1>2, <3>3 DEF RemoveFirst, RemoveAt
  <2>2. /\ a \in Seq(S) /\ Len(a) = k - 1 /\ \A i \in 1 .. k - 1 : a[i] = s[i]
    <3>1. 1 \in Int /\ k - 1 \in Int /\ \A i \in 1 .. k - 1 : s[i] \in S
      BY <1>0
    <3>2. /\ a \in Seq(S) /\ Len(a) = IF 1 <= k - 1 THEN k - 1 - 1 + 1 ELSE 0
          /\ \A i \in 1 .. k - 1 - 1 + 1 : a[i] = s[1 + i - 1]
      BY <3>1, SubSeqProperties
    <3> HIDE DEF a
    <3> QED
      BY <1>0, <3>2
  <2>3. /\ b \in Seq(S) /\ Len(b) = Len(s) - k /\ \A i \in 1 .. Len(s) - k : b[i] = s[k + i]
    <3>1. k + 1 \in Int /\ Len(s) \in Int /\ \A i \in k + 1 .. Len(s) : s[i] \in S
      BY <1>0
    <3>2. /\ b \in Seq(S) /\ Len(b) = IF k + 1 <= Len(s) THEN Len(s) - (k + 1) + 1 ELSE 0
          /\ \A i \in 1 .. Len(s) - (k + 1) + 1 : b[i] = s[k + 1 + i - 1]
      BY <3>1, SubSeqProperties
    <3> HIDE DEF b
    <3>3. Len(b) = Len(s) - k
      <4>1. \A n \in Nat : \A j \in 1 .. n :
               (IF j + 1 <= n THEN n - (j + 1) + 1 ELSE 0) = n - j
        OBVIOUS
      <4> QED
        BY <1>0, <1>2, <3>2, <4>1
    <3>4. \A i \in 1 .. Len(s) - k : i \in 1 .. Len(s) - (k + 1) + 1 /\ k + 1 + i - 1 = k + i
      BY <1>0
    <3> QED
      BY <3>2, <3>3, <3>4
  <2> HIDE DEF a, b
  <2>4. /\ t \in Seq(S) /\ Len(t) = Len(s) - 1
        /\ \A i \in 1 .. Len(s) - 1 : t[i] = IF i <= k - 1 THEN s[i] ELSE s[i + 1]
    <3>1. /\ t \in Seq(S) /\ Len(t) = Len(a) + Len(b)
          /\ \A i \in 1 .. Len(a) + Len(b) : t[i] = IF i <= Len(a) THEN a[i] ELSE b[i - Len(a)]
      BY <2>2, <2>3, ConcatProperties
    <3> HIDE DEF t
    <3>2. Len(t) = Len(s) - 1
      BY <1>0, <2>2, <2>3, <3>1
    <3>3. ASSUME NEW i \in 1 .. Len(s) - 1
          PROVE  t[i] = IF i <= k - 1 THEN s[i] ELSE s[i + 1]
      <4>1. t[i] = IF i <= k - 1 THEN a[i] ELSE b[i - (k - 1)]
        BY <1>0, <2>2, <2>3, <3>1
      <4>2. i <= k - 1 => a[i] = s[i]
        BY <1>0, <2>2
      <4>3. ~(i <= k - 1) => i - (k - 1) \in 1 .. Len(s) - k /\ k + (i - (k - 1)) = i + 1
        BY <1>0
      <4> QED
        BY <2>3, <4>1, <4>2, <4>3
    <3> QED
      BY <3>1, <3>2, <3>3
  <2> HIDE DEF t
  <2>5. DOMAIN t = 1 .. Len(s) - 1
    BY <2>4, LenProperties
  <2>6. \A i \in DOMAIN t : t[i] # p
    BY <1>0, <1>2, <2>4, <2>5 DEF IsInjective
  <2>7. IsInjective(t)
    BY <1>0, <2>4, <2>5 DEF IsInjective
  <2> QED
    BY <2>1, <2>4, <2>6, <2>7
<1> QED
  BY <1>1, <1>2

LEMMA AppendedOnce ==
    ASSUME NEW S, NEW s \in Seq(S), IsInjective(s), NEW p \in S, \A i \in DOMAIN s : s[i] # p
    PROVE  Append(s, p) \in Seq(S) /\ IsInjective(Append(s, p))
<1>1. Len(s) \in Nat /\ DOMAIN s = 1 .. Len(s)
  BY LenProperties
<1>2. /\ Append(s, p) \in Seq(S) /\ Len(Append(s, p)) = Len(s) + 1
      /\ \A i \in 1 .. Len(s) : Append(s, p)[i] = s[i]
      /\ Append(s, p)[Len(s) + 1] = p
  BY AppendProperties
<1>3. DOMAIN Append(s, p) = 1 .. Len(s) + 1
  BY <1>2, LenProperties
<1> QED
  BY <1>1, <1>2, <1>3 DEF IsInjective

LEMMA InsertedOnce ==
    ASSUME NEW S, NEW s \in Seq(S), IsInjective(s), NEW p \in S, \A i \in DOMAIN s : s[i] # p,
           NEW k \in 1 .. Len(s) + 1
    PROVE  InsertAt(s, k, p) \in Seq(S) /\ IsInjective(InsertAt(s, k, p))
<1>0. Len(s) \in Nat /\ DOMAIN s = 1 .. Len(s) /\ \A i \in 1 .. Len(s) : s[i] \in S
  BY LenProperties
<1> DEFINE a == SubSeq(s, 1, k - 1)
           b == SubSeq(s, k, Len(s))
           c == a \o <<p>>
           t == c \o b
<1>1. /\ a \in Seq(S) /\ Len(a) = k - 1 /\ \A i \in 1 .. k - 1 : a[i] = s[i]
  <2>1. 1 \in Int /\ k - 1 \in Int /\ \A i \in 1 .. k - 1 : s[i] \in S
    BY <1>0
  <2>2. /\ a \in Seq(S) /\ Len(a) = IF 1 <= k - 1 THEN k - 1 - 1 + 1 ELSE 0
        /\ \A i \in 1 .. k - 1 - 1 + 1 : a[i] = s[1 + i - 1]
    BY <2>1, SubSeqProperties
  <2> HIDE DEF a
  <2> QED
    BY <1>0, <2>2
<1>2. /\ b \in Seq(S) /\ Len(b) = Len(s) - k + 1
      /\ \A i \in 1 .. Len(s) - k + 1 : b[i] = s[k + i - 1]
  <2>1. k \in Int /\ Len(s) \in Int /\ \A i \in k .. Len(s) : s[i] \in S
    BY <1>0
  <2>2. /\ b \in Seq(S) /\ Len(b) = IF k <= Len(s) THEN Len(s) - k + 1 ELSE 0
        /\ \A i \in 1 .. Len(s) - k + 1 : b[i] = s[k + i - 1]
    BY <2>1, SubSeqProperties
  <2> HIDE DEF b
  <2> QED
    BY <1>0, <2>2
<1> HIDE DEF a, b
<1>3. /\ c \in Seq(S) /\ Len(c) = k /\ c[k] = p /\ \A i \in 1 .. k - 1 : c[i] = s[i]
  <2>1. c = Append(a, p)
    BY <1>1, AppendIsConcat
  <2> HIDE DEF c
  <2> QED
    BY <1>0, <1>1, <2>1, AppendProperties
<1> HIDE DEF c
<1>4. /\ t \in Seq(S) /\ Len(t) = Len(s) + 1
      /\ \A i \in 1 .. Len(s) + 1 : t[i] = IF i < k THEN s[i] ELSE IF i = k THEN p ELSE s[i - 1]
  <2>1. /\ t \in Seq(S) /\ Len(t) = Len(c) + Len(b)
        /\ \A i \in 1 .. Len(c) + Len(b) : t[i] = IF i <= Len(c) THEN c[i] ELSE b[i - Len(c)]
    BY <1>2, <1>3, ConcatProperties
  <2> HIDE DEF t
  <2>2. Len(t) = Len(s) + 1
    BY <1>0, <1>2, <1>3, <2>1
  <2>3. ASSUME NEW i \in 1 .. Len(s) + 1
        PROVE  t[i] = IF i < k THEN s[i] ELSE IF i = k THEN p ELSE s[i - 1]
    <3>1. t[i] = IF i <= k THEN c[i] ELSE b[i - k]
      BY <1>0, <1>2, <1>3, <2>1
    <3>2. i < k => c[i] = s[i]
      BY <1>0, <1>3
    <3>3. i > k => i - k \in 1 .. Len(s) - k + 1 /\ k + (i - k) - 1 = i - 1
      BY <1>0
    <3> QED
      BY <1>0, <1>2, <1>3, <3>1, <3>2, <3>3
  <2> QED
    BY <2>1, <2>2, <2>3
<1> HIDE DEF t
<1>5. DOMAIN t = 1 .. Len(s) + 1
  BY <1>4, LenProperties
<1>6. IsInjective(t)
  <2> SUFFICES ASSUME NEW i \in 1 .. Len(s) + 1, NEW j \in 1 .. Len(s) + 1, t[i] = t[j], i < j
               PROVE  FALSE
    BY <1>0, <1>5 DEF IsInjective
  <2>1. \A x, y \in 1 .. Len(s) : s[x] = s[y] => x = y
    BY <1>0 DEF IsInjective
  <2>2. CASE i < k /\ j < k
    BY <1>0, <1>4, <2>1, <2>2
  <2>3. CASE i < k /\ j > k
    <3>1. i \in 1 .. Len(s) /\ j - 1 \in 1 .. Len(s) /\ i # j - 1
      BY <1>0, <2>3
    <3> QED
      BY <1>0, <1>4, <2>1, <2>3, <3>1
  <2>4. CASE i > k
    <3>1. i - 1 \in 1 .. Len(s) /\ j - 1 \in 1 .. Len(s) /\ i - 1 # j - 1
      BY <1>0, <2>4
    <3> QED
      BY <1>0, <1>4, <2>1, <2>4, <3>1
  <2>5. CASE i = k
    <3>1. t[j] = s[j - 1] /\ t[i] = p /\ j - 1 \in 1 .. Len(s)
      BY <1>0, <1>4, <2>5
    <3> QED
      BY <1>0, <3>1
  <2>6. CASE j = k
    <3>1. t[i] = s[i] /\ t[j] = p /\ i \in 1 .. Len(s)
      BY <1>0, <1>4, <2>6
    <3> QED
      BY <1>0, <3>1
  <2> QED
    BY <1>0, <2>2, <2>3, <2>4, <2>5, <2>6
<1> QED
  BY <1>4, <1>6 DEF InsertAt, t, c, a, b

LEMMA TailOnce ==
    ASSUME NEW S, NEW s \in Seq(S), IsInjective(s), s # <<>>
    PROVE  Tail(s) \in Seq(S) /\ IsInjective(Tail(s))
<1>1. Len(s) \in Nat /\ DOMAIN s = 1 .. Len(s)
  BY LenProperties
<1>2. /\ Tail(s) \in Seq(S) /\ Len(Tail(s)) = Len(s) - 1
      /\ \A i \in 1 .. Len(Tail(s)) : Tail(s)[i] = s[i + 1]
  BY HeadTailProperties
<1>3. DOMAIN Tail(s) = 1 .. Len(s) - 1
  BY <1>2, LenProperties
<1> QED
  BY <1>1, <1>2, <1>3 DEF IsInjective

-----------------------------------------------------------------------------
(* Types.                                                                  *)

LEMMA IdIsFinite == IsFiniteSet(Id) /\ MaxPrompts \in Nat /\ 0 \notin Id /\ Id \subseteq Nat
<1>1. MaxPrompts \in Nat
  BY FeedBoundsAssumption
<1>2. 1 \in Int /\ MaxPrompts \in Int
  BY <1>1
<1> QED
  BY <1>1, <1>2, FS_Interval DEF Id

LEMMA Constants ==
    /\ PageSize \in Nat \ {0} /\ MaxBoosted \in Nat \ {0} /\ BlockSize \in Nat \ {0}
    /\ MaxOpens \in Nat /\ MaxResurfaced \in Nat
BY SizesAssumption, FeedBoundsAssumption

(* The pages the actions write.                                            *)
LEMMA NoPageType == NoPage \in Page
BY IdIsFinite DEF NoPage, Page

LEMMA PageTypes ==
    ASSUME NEW d \in Page, NEW S \in SUBSET Id, NEW T \in SUBSET Id, NEW n \in 0 .. MaxPrompts
    PROVE  /\ [d EXCEPT !.boosted = S] \in Page
           /\ [d EXCEPT !.live = S] \in Page
           /\ [d EXCEPT !.personal = S] \in Page
           /\ [d EXCEPT !.held = S, !.stream = T, !.next = n] \in Page
           /\ [d EXCEPT !.pinned = S, !.boosted = {}] \in Page
           /\ [d EXCEPT !.held = {}] \in Page
BY DEF Page

(* What Draft and Show do to the readers.                                  *)
LEMMA DraftEffect ==
    ASSUME TypeOK, NEW r \in Readers, NEW stage \in ReaderStage, NEW page \in Page,
           Draft(r, stage, page)
    PROVE  /\ reader' \in [Readers -> Reader]
           /\ reader'[r].stage = stage /\ reader'[r].draft = page
           /\ reader'[r].feed = reader[r].feed /\ reader'[r].member = reader[r].member
           /\ reader'[r].pages = reader[r].pages
           /\ \A d \in Readers : d # r => reader'[d] = reader[d]
<1>1. reader \in [Readers -> Reader]
  BY DEF TypeOK
<1>2. \A x \in Reader :
         /\ [x EXCEPT !.stage = stage, !.draft = page] \in Reader
         /\ [x EXCEPT !.stage = stage, !.draft = page].stage = stage
         /\ [x EXCEPT !.stage = stage, !.draft = page].draft = page
         /\ [x EXCEPT !.stage = stage, !.draft = page].feed = x.feed
         /\ [x EXCEPT !.stage = stage, !.draft = page].member = x.member
         /\ [x EXCEPT !.stage = stage, !.draft = page].pages = x.pages
  BY DEF Reader
<1>3. reader' = [reader EXCEPT ![r] = [reader[r] EXCEPT !.stage = stage, !.draft = page]]
  BY DEF Draft
<1> QED
  BY <1>1, <1>2, <1>3

LEMMA ShowEffect ==
    ASSUME TypeOK, NEW r \in Readers, NEW page \in Page, Show(r, page)
    PROVE  /\ reader' \in [Readers -> Reader]
           /\ reader'[r].stage = "idle" /\ reader'[r].draft = NoPage
           /\ reader'[r].feed = reader[r].feed /\ reader'[r].member = reader[r].member
           /\ reader'[r].pages = Append(reader[r].pages, page)
           /\ \A d \in Readers : d # r => reader'[d] = reader[d]
<1>1. reader \in [Readers -> Reader] /\ reader[r] \in Reader /\ reader[r].pages \in Seq(Page)
  BY DEF TypeOK, Reader
<1> DEFINE pages == Append(reader[r].pages, page)
           x == [reader[r] EXCEPT !.stage = "idle", !.draft = NoPage, !.pages = pages]
<1>2. pages \in Seq(Page)
  BY <1>1, AppendProperties
<1>3. reader' = [reader EXCEPT ![r] = x]
  BY DEF Show
<1> HIDE DEF pages
<1>4. /\ x \in Reader /\ x.stage = "idle" /\ x.draft = NoPage /\ x.pages = pages
      /\ x.feed = reader[r].feed /\ x.member = reader[r].member
  BY <1>1, <1>2, NoPageType DEF Reader, ReaderStage
<1> HIDE DEF x
<1> QED
  BY <1>1, <1>3, <1>4 DEF pages

LEMMA SetsInId ==
    ASSUME TypeOK
    PROVE  /\ DOMAIN prompts = 1 .. Len(prompts) /\ DOMAIN prompts \subseteq Id
           /\ Len(prompts) \in Nat
           /\ Public \subseteq DOMAIN prompts
           /\ \A c : Held(c) \subseteq DOMAIN prompts
           /\ \A c : CurrentlyBoosted(c) \subseteq DOMAIN prompts
<1>1. /\ prompts \in Seq(Row) /\ Len(prompts) <= MaxPrompts /\ boosts \in Seq(DOMAIN prompts)
  BY DEF TypeOK
<1>2. DOMAIN prompts = 1 .. Len(prompts) /\ Len(prompts) \in Nat
  BY <1>1, LenProperties
<1>3. DOMAIN prompts \subseteq Id
  BY <1>1, <1>2, IdIsFinite DEF Id
<1>4. ASSUME NEW c PROVE CurrentlyBoosted(c) \subseteq DOMAIN prompts
  <2> DEFINE n == Len(boosts)
             top == IF n > MaxBoosted THEN SubSeq(boosts, n - MaxBoosted + 1, n) ELSE boosts
  <2>1. n \in Nat /\ \A i \in 1 .. n : boosts[i] \in DOMAIN prompts
    BY <1>1, LenProperties
  <2>2. top \in Seq(DOMAIN prompts)
    <3>1. CASE n > MaxBoosted
      <4>1. n - MaxBoosted + 1 \in Int /\ n \in Int
            /\ \A i \in n - MaxBoosted + 1 .. n : boosts[i] \in DOMAIN prompts
        BY <2>1, <3>1, Constants
      <4>2. SubSeq(boosts, n - MaxBoosted + 1, n) \in Seq(DOMAIN prompts)
        BY <4>1, SubSeqProperties
      <4> QED
        BY <3>1, <4>2
    <3> QED
      BY <1>1, <3>1
  <2>3. \A i \in DOMAIN top : top[i] \in DOMAIN prompts
    <3> HIDE DEF top
    <3> QED
      BY <2>2, LenProperties
  <2> HIDE DEF top
  <2> QED
    BY <2>3 DEF CurrentlyBoosted, ToSet, top
<1> QED
  BY <1>2, <1>3, <1>4 DEF Public, Held

LEMMA CardsType ==
    ASSUME TypeOK, NEW r \in Readers
    PROVE  Cards(r) \in Page
<1>1. reader[r].draft \in Page
  BY DEF TypeOK, Reader
<1>2. reader[r].draft.boosted \cap Public \in SUBSET Id /\ {} \in SUBSET Id /\ 0 \in 0 .. MaxPrompts
  BY SetsInId, IdIsFinite
<1> QED
  BY <1>1, <1>2, PageTypes DEF Cards

LEMMA CacheTypes ==
    ASSUME TypeOK, NEW f \in Feeds, NEW page \in Page, NEW S
    PROVE  /\ DOMAIN CacheWith(f, page) = DOMAIN cache \cup {f}
           /\ DOMAIN CacheWith(f, page) \subseteq Feeds
           /\ \A g \in DOMAIN CacheWith(f, page) : CacheWith(f, page)[g] \in Page
           /\ DOMAIN Restrict(cache, DOMAIN cache \ S) \subseteq DOMAIN cache
           /\ \A g \in DOMAIN Restrict(cache, DOMAIN cache \ S) :
                 Restrict(cache, DOMAIN cache \ S)[g] = cache[g]
BY DEF TypeOK, CacheWith, Restrict

(* What ReadRows reads.                                                    *)
LEMMA RowsRead ==
    ASSUME TypeOK, NEW r \in Readers, ReadRows(r)
    PROVE  LET d == reader[r].draft
               held == Held(Category(r))
               open == Below(held, Cursor(r)) \ (d.boosted \cup d.live \cup d.personal)
               byScore == reader[r].feed.sort = "hot" /\ PageOne(r)
           IN  \E T \in SUBSET open, next \in 0 .. MaxPrompts :
                  /\ Draft(r, "answer", [d EXCEPT !.held = held, !.stream = T, !.next = next])
                  /\ ~byScore => T = Newest(open)
                  /\ next = 0 => T = open
                  /\ next # 0 => next \in T /\ (byScore \/ \A p \in T : next <= p)
<1> DEFINE d == reader[r].draft
           held == Held(Category(r))
           open == Below(held, Cursor(r)) \ (d.boosted \cup d.live \cup d.personal)
           newest == Newest(open)
           byScore == reader[r].feed.sort = "hot" /\ PageOne(r)
           top == IF byScore
                  THEN {T \in SUBSET open : Cardinality(T) = Cardinality(newest)}
                  ELSE {newest}
           last(T) == IF byScore THEN T ELSE {p \in T : \A q \in T : p <= q}
<1>1. open \subseteq Id
  BY SetsInId DEF Below
<1>2. PICK T \in top : \E next \in Cursors(open, T, last(T)) :
         Draft(r, "answer", [d EXCEPT !.held = held, !.stream = T, !.next = next])
  BY DEF ReadRows
<1>3. PICK next \in Cursors(open, T, last(T)) :
         Draft(r, "answer", [d EXCEPT !.held = held, !.stream = T, !.next = next])
  BY <1>2
<1> HIDE DEF open, d, held
<1>4. T \in SUBSET open /\ (~byScore => T = newest)
  BY DEF Newest
<1>5. /\ next \in {0} \cup T
      /\ next = 0 => T = open
      /\ next # 0 => next \in T /\ (byScore \/ \A p \in T : next <= p)
  BY <1>1, <1>4, IdIsFinite DEF Cursors
<1>6. next \in 0 .. MaxPrompts
  BY <1>1, <1>4, <1>5, IdIsFinite DEF Id
<1> HIDE DEF byScore, newest
<1>7. \E T2 \in SUBSET open, next2 \in 0 .. MaxPrompts :
         /\ Draft(r, "answer", [d EXCEPT !.held = held, !.stream = T2, !.next = next2])
         /\ ~byScore => T2 = newest
         /\ next2 = 0 => T2 = open
         /\ next2 # 0 => next2 \in T2 /\ (byScore \/ \A p \in T2 : next2 <= p)
  BY <1>3, <1>4, <1>5, <1>6
<1> QED
  BY <1>7 DEF open, d, held, byScore, newest

LEMMA FeedTypesInit == Init => FeedTypes
<1> SUFFICES ASSUME Init PROVE FeedTypes
  OBVIOUS
<1>1. prompts \in Seq(Row) /\ Len(prompts) <= MaxPrompts
  <2>1. /\ DOMAIN Oldest = 1 .. Len(Oldest) /\ Len(Oldest) \in Nat
        /\ \A p \in DOMAIN Oldest : Oldest[p] \in Categories
    BY OldestAssumption, LenProperties
  <2>2. prompts \in [1 .. Len(Oldest) -> Row]
    BY <2>1 DEF Init, Row
  <2>3. prompts \in Seq(Row)
    BY <2>1, <2>2, SeqDef
  <2>4. Len(prompts) = Len(Oldest)
    BY <2>1, <2>2
  <2> QED
    BY <2>3, <2>4, OldestAssumption
<1>2. boosts \in Seq(DOMAIN prompts) /\ IsInjective(boosts)
  BY EmptySeq DEF Init, IsInjective
<1>3. DOMAIN cache = {}
  BY DEF Init
<1>4. reader \in [Readers -> Reader]
  <2>1. <<>> \in Seq(Page)
    BY EmptySeq
  <2>2. [sort |-> "new", category |-> AllCategories] \in Feeds
    BY FiltersAssumption DEF Feeds
  <2> QED
    BY <2>1, <2>2, NoPageType DEF Init, Reader, ReaderStage
<1>5. writer \in [Writers -> Writer] /\ \A w \in Writers : writer[w].stage = "idle"
  BY IdIsFinite DEF Init, Writer, NoWrite, WriterStage
<1>6. opens \in 0 .. MaxOpens /\ resurfaced \in 0 .. MaxResurfaced
  BY Constants DEF Init
<1> QED
  BY <1>1, <1>2, <1>3, <1>4, <1>5, <1>6 DEF FeedTypes, TypeOK, WriterOK, AtW

(* Readers change neither the table nor the writers.                       *)
LEMMA ReaderTypes ==
    ASSUME TypeOK, NEW r \in Readers,
           Read(r) \/ \E f \in Feeds, member \in BOOLEAN : OpenFeed(r, f, member)
    PROVE  TypeOK' /\ UNCHANGED <<prompts, boosts, writer>>
<1>0. /\ reader \in [Readers -> Reader] /\ reader[r] \in Reader /\ reader[r].draft \in Page
      /\ reader[r].feed \in Feeds /\ \A f \in DOMAIN cache : cache[f] \in Page
  BY DEF TypeOK, Reader
<1>1. ASSUME NEW stage \in ReaderStage, NEW page \in Page, Draft(r, stage, page)
      PROVE  TypeOK' /\ UNCHANGED <<prompts, boosts, writer>>
  BY <1>1, DraftEffect DEF Draft, table, TypeOK
<1>2. {"boosts", "live", "personal", "rows", "answer", "cache"} \subseteq ReaderStage
  BY DEF ReaderStage
<1>3. ASSUME NEW f \in Feeds, NEW member \in BOOLEAN, OpenFeed(r, f, member)
      PROVE  TypeOK' /\ UNCHANGED <<prompts, boosts, writer>>
  <2> DEFINE x == [feed |-> f, member |-> member, pages |-> <<>>, draft |-> NoPage,
                   stage |-> IF member THEN "boosts" ELSE "cache"]
  <2>1. <<>> \in Seq(Page)
    BY EmptySeq
  <2>2. x \in Reader
    BY <1>2, <2>1, NoPageType DEF Reader
  <2>3. reader' = [reader EXCEPT ![r] = x]
    BY <1>3 DEF OpenFeed
  <2> HIDE DEF x
  <2>4. reader' \in [Readers -> Reader]
    BY <1>0, <2>2, <2>3
  <2>5. opens' \in 0 .. MaxOpens
    BY <1>3, Constants DEF OpenFeed, TypeOK
  <2> QED
    BY <1>3, <2>4, <2>5 DEF OpenFeed, table, TypeOK
<1>4. CASE LoadMore(r)
  BY <1>1, <1>2, <1>4, NoPageType DEF LoadMore
<1>5. CASE ReadCache(r)
  <2>1. CASE reader[r].feed \in DOMAIN cache
    <3>1. Show(r, cache[reader[r].feed]) /\ UNCHANGED <<table, cache, writer, opens, resurfaced>>
      BY <1>5, <2>1 DEF ReadCache
    <3>2. reader' \in [Readers -> Reader]
      BY <1>0, <2>1, <3>1, ShowEffect
    <3> QED
      BY <3>1, <3>2 DEF table, TypeOK
  <2>2. CASE reader[r].feed \notin DOMAIN cache
    BY <1>1, <1>2, <1>5, <2>2, NoPageType DEF ReadCache
  <2> QED
    BY <2>1, <2>2
<1>6. CASE ReadBoosts(r)
  <2> DEFINE page == [NoPage EXCEPT !.boosted = CurrentlyBoosted(Category(r))]
             stage == IF PageOne(r) THEN "live" ELSE "rows"
  <2>1. CurrentlyBoosted(Category(r)) \in SUBSET Id /\ {} \in SUBSET Id /\ 0 \in 0 .. MaxPrompts
    BY SetsInId, IdIsFinite
  <2>2. page \in Page
    BY <2>1, NoPageType, PageTypes
  <2>3. Draft(r, stage, page) /\ stage \in ReaderStage
    BY <1>2, <1>6 DEF ReadBoosts
  <2> HIDE DEF page, stage
  <2> QED
    BY <1>1, <2>2, <2>3
<1>7. CASE ReadLive(r)
  <2> DEFINE stage == IF reader[r].member THEN "personal" ELSE "rows"
  <2>1. PICK T \in SUBSET Held(Category(r)) : Draft(r, stage, [reader[r].draft EXCEPT !.live = T])
    BY <1>7 DEF ReadLive, Picks
  <2>2. T \in SUBSET Id /\ {} \in SUBSET Id /\ 0 \in 0 .. MaxPrompts
    BY SetsInId, IdIsFinite
  <2>3. [reader[r].draft EXCEPT !.live = T] \in Page
    BY <1>0, <2>2, PageTypes
  <2> QED
    BY <1>1, <1>2, <2>1, <2>3
<1>8. CASE ReadPersonal(r)
  <2>1. PICK T \in SUBSET Held(Category(r)) :
           Draft(r, "rows", [reader[r].draft EXCEPT !.personal = T])
    BY <1>8 DEF ReadPersonal, Picks
  <2>2. T \in SUBSET Id /\ {} \in SUBSET Id /\ 0 \in 0 .. MaxPrompts
    BY SetsInId, IdIsFinite
  <2>3. [reader[r].draft EXCEPT !.personal = T] \in Page
    BY <1>0, <2>2, PageTypes
  <2> QED
    BY <1>1, <1>2, <2>1, <2>3
<1>9. CASE ReadRows(r)
  <2> DEFINE held == Held(Category(r))
  <2>1. PICK T \in SUBSET held, next \in 0 .. MaxPrompts :
           Draft(r, "answer", [reader[r].draft EXCEPT !.held = held, !.stream = T, !.next = next])
    BY <1>9, RowsRead DEF Below
  <2>2. held \in SUBSET Id /\ T \in SUBSET Id
    BY SetsInId
  <2> HIDE DEF held
  <2>3. [reader[r].draft EXCEPT !.held = held, !.stream = T, !.next = next] \in Page
    BY <1>0, <2>2, PageTypes
  <2> QED
    BY <1>1, <1>2, <2>1, <2>3
<1>10. CASE AnswerPage(r)
  <2>1. reader' \in [Readers -> Reader]
    BY <1>10, CardsType, ShowEffect DEF AnswerPage
  <2>2. DOMAIN cache' \subseteq Feeds /\ \A f \in DOMAIN cache' : cache'[f] \in Page
    <3>1. cache' = cache \/ cache' = CacheWith(reader[r].feed, Cards(r))
      BY <1>10 DEF AnswerPage
    <3> QED
      BY <1>0, <3>1, CardsType, CacheTypes DEF TypeOK
  <2> QED
    BY <1>10, <2>1, <2>2 DEF AnswerPage, table, TypeOK
<1> QED
  BY <1>3, <1>4, <1>5, <1>6, <1>7, <1>8, <1>9, <1>10 DEF Read

(* Writers, and time, leave the readers alone and add to the table.        *)
LEMMA WriterTypes ==
    ASSUME FeedTypes,
           (\E w \in Writers : Write(w)) \/ BoostEnds \/ (\E f \in Feeds : CacheExpires(f))
    PROVE  /\ FeedTypes' /\ UNCHANGED reader /\ Grows(prompts, prompts')
           /\ DOMAIN cache' \subseteq DOMAIN cache /\ \A f \in DOMAIN cache' : cache'[f] = cache[f]
<1> DEFINE Goal == /\ FeedTypes' /\ UNCHANGED reader /\ Grows(prompts, prompts')
                   /\ DOMAIN cache' \subseteq DOMAIN cache
                   /\ \A f \in DOMAIN cache' : cache'[f] = cache[f]
<1>0. /\ TypeOK /\ WriterOK /\ prompts \in Seq(Row) /\ Len(prompts) \in Nat
      /\ boosts \in Seq(DOMAIN prompts) /\ IsInjective(boosts)
      /\ DOMAIN cache \subseteq Feeds /\ \A f \in DOMAIN cache : cache[f] \in Page
      /\ writer \in [Writers -> Writer] /\ DOMAIN prompts = 1 .. Len(prompts)
      /\ DOMAIN prompts \subseteq Id /\ \A w \in Writers : writer[w] \in Writer
      /\ \A p \in DOMAIN prompts : prompts[p] \in Row
  BY SetsInId, LenProperties DEF FeedTypes, TypeOK
<1>a. NoWrite \in Writer /\ NoWrite.stage = "idle"
  BY IdIsFinite DEF NoWrite, Writer, WriterStage
<1>b. Grows(prompts, prompts)
  BY DEF Grows
(* A handler's next turn.                                                  *)
<1>c. ASSUME NEW w \in Writers, NEW stage \in WriterStage, NEW p \in 0 .. MaxPrompts,
             Turn(w, stage, p)
      PROVE  /\ writer' \in [Writers -> Writer] /\ writer'[w].stage = stage
             /\ writer'[w].prompt = p /\ \A v \in Writers : v # w => writer'[v] = writer[v]
  <2>1. \A x \in Writer : /\ [x EXCEPT !.stage = stage, !.prompt = p] \in Writer
                          /\ [x EXCEPT !.stage = stage, !.prompt = p].stage = stage
                          /\ [x EXCEPT !.stage = stage, !.prompt = p].prompt = p
    BY DEF Writer
  <2>2. writer' = [writer EXCEPT ![w] = [writer[w] EXCEPT !.stage = stage, !.prompt = p]]
    BY <1>c DEF Turn
  <2> QED
    BY <1>0, <2>1, <2>2
<1>d. {"idle", "commit", "boost", "repin", "keys", "del"} = WriterStage
  BY DEF WriterStage
(* A row is inserted.                                                      *)
<1>e. ASSUME NEW c \in Categories, NEW state \in {"pending", "PUBLIC"}, Room, Insert(c, state)
      PROVE  /\ prompts' \in Seq(Row) /\ Len(prompts') <= MaxPrompts
             /\ DOMAIN prompts' = 1 .. Len(prompts) + 1
             /\ prompts'[Len(prompts) + 1].state = state
             /\ \A p \in DOMAIN prompts : prompts'[p] = prompts[p]
             /\ Grows(prompts, prompts') /\ boosts \in Seq(DOMAIN prompts')
             /\ Len(prompts) + 1 \in 1 .. MaxPrompts
  <2> DEFINE row == [category |-> c, state |-> state]
  <2>1. row \in Row /\ row.state = state
    BY <1>e DEF Row
  <2>2. prompts' = Append(prompts, row)
    BY <1>e DEF Insert
  <2> HIDE DEF row
  <2>3. /\ prompts' \in Seq(Row) /\ Len(prompts') = Len(prompts) + 1
        /\ \A p \in 1 .. Len(prompts) : prompts'[p] = prompts[p]
        /\ prompts'[Len(prompts) + 1] = row
    BY <1>0, <2>1, <2>2, AppendProperties
  <2>4. DOMAIN prompts' = 1 .. Len(prompts) + 1
    BY <2>3, LenProperties
  <2>5. Len(prompts) + 1 <= MaxPrompts
    BY <1>0, <1>e, IdIsFinite DEF Room
  <2>6. DOMAIN prompts \subseteq DOMAIN prompts'
    BY <1>0, <2>4
  <2>7. boosts \in Seq(DOMAIN prompts')
    BY <1>0, <2>6, SeqMonotonic
  <2> QED
    BY <1>0, <2>1, <2>3, <2>4, <2>5, <2>6, <2>7, IdIsFinite DEF Grows
<1>1. ASSUME NEW w \in Writers, NEW c \in Categories, BeginCreate(w, c) PROVE Goal
  <2>1. Room /\ Insert(c, "pending") /\ AtW(w, "idle") /\ Turn(w, "commit", Len(prompts) + 1)
        /\ UNCHANGED <<boosts, cache, reader, opens, resurfaced>>
    BY <1>1 DEF BeginCreate
  <2>2. /\ prompts' \in Seq(Row) /\ Len(prompts') <= MaxPrompts
        /\ DOMAIN prompts' = 1 .. Len(prompts) + 1
        /\ prompts'[Len(prompts) + 1].state = "pending"
        /\ \A p \in DOMAIN prompts : prompts'[p] = prompts[p]
        /\ Grows(prompts, prompts') /\ boosts \in Seq(DOMAIN prompts')
        /\ Len(prompts) + 1 \in 1 .. MaxPrompts
    BY <1>e, <2>1
  <2>3. /\ writer' \in [Writers -> Writer] /\ writer'[w].stage = "commit"
        /\ writer'[w].prompt = Len(prompts) + 1
        /\ \A v \in Writers : v # w => writer'[v] = writer[v]
    <3>1. Len(prompts) + 1 \in 0 .. MaxPrompts
      BY <1>0, <2>2, IdIsFinite
    <3> QED
      BY <1>c, <1>d, <2>1, <3>1
  <2>4. TypeOK'
    BY <1>0, <2>1, <2>2, <2>3 DEF TypeOK
  <2>5. Len(prompts) + 1 \notin DOMAIN prompts /\ Len(prompts) + 1 \in DOMAIN prompts'
        /\ DOMAIN prompts \subseteq DOMAIN prompts'
    BY <1>0, <2>2 DEF Grows
  <2>6. WriterOK'
    <3>1. \A v \in Writers : v # w /\ AtW(v, "commit") =>
             writer[v].prompt \in DOMAIN prompts /\ writer[v].prompt # Len(prompts) + 1
      BY <1>0, <2>5 DEF WriterOK, AtW
    <3>2. \A v \in Writers : writer'[v].stage \in {"commit", "boost", "repin"} =>
             writer'[v].prompt \in DOMAIN prompts'
      BY <1>0, <2>3, <2>5 DEF WriterOK
    <3>3. \A v \in Writers : AtW(v, "commit")' => prompts'[writer'[v].prompt].state = "pending"
      BY <1>0, <2>2, <2>3, <3>1 DEF WriterOK, AtW
    <3>4. \A u, v \in Writers :
             AtW(u, "commit")' /\ AtW(v, "commit")' /\ writer'[u].prompt = writer'[v].prompt
                => u = v
      BY <1>0, <2>3, <3>1 DEF WriterOK, AtW
    <3> QED
      BY <3>2, <3>3, <3>4 DEF WriterOK
  <2> QED
    BY <2>1, <2>2, <2>4, <2>6 DEF FeedTypes
<1>2. ASSUME NEW w \in Writers, NEW v \in {"PUBLIC", "PRIVATE"}, CommitCreate(w, v) PROVE Goal
  <2> DEFINE p == writer[w].prompt
  <2>1. /\ AtW(w, "commit") /\ prompts' = [prompts EXCEPT ![p].state = v] /\ Turn(w, "boost", p)
        /\ UNCHANGED <<boosts, cache, reader, opens, resurfaced>>
    BY <1>2 DEF CommitCreate
  <2>2. p \in DOMAIN prompts /\ prompts[p].state = "pending" /\ p \in 0 .. MaxPrompts
    BY <1>0, <2>1 DEF WriterOK, AtW, Writer
  <2> HIDE DEF p
  <2>3. prompts[p] \in Row /\ [prompts[p] EXCEPT !.state = v] \in Row
        /\ [prompts[p] EXCEPT !.state = v].state = v
        /\ [prompts[p] EXCEPT !.state = v].category = prompts[p].category
    BY <1>0, <2>2 DEF Row
  <2>4. prompts' = [prompts EXCEPT ![p] = [prompts[p] EXCEPT !.state = v]]
    BY <2>1
  <2>5. /\ prompts' \in Seq(Row) /\ Len(prompts') = Len(prompts)
        /\ \A q \in DOMAIN prompts : prompts'[q] =
              IF q = p THEN [prompts[p] EXCEPT !.state = v] ELSE prompts[q]
    BY <1>0, <2>2, <2>3, <2>4, ExceptSeq
  <2>6. DOMAIN prompts' = DOMAIN prompts
    BY <2>4
  <2>7. Grows(prompts, prompts')
    BY <2>2, <2>3, <2>5, <2>6 DEF Grows
  <2>8. /\ writer' \in [Writers -> Writer] /\ writer'[w].stage = "boost"
        /\ writer'[w].prompt = p /\ \A o \in Writers : o # w => writer'[o] = writer[o]
    BY <1>c, <1>d, <2>1, <2>2
  <2>9. TypeOK'
    BY <1>0, <2>1, <2>5, <2>6, <2>8 DEF TypeOK
  <2>10. WriterOK'
    <3>1. \A o \in Writers : o # w /\ AtW(o, "commit") => writer[o].prompt # p
      BY <1>0, <2>1 DEF WriterOK, p
    <3> QED
      BY <1>0, <2>1, <2>2, <2>5, <2>6, <2>8, <3>1 DEF WriterOK, AtW
  <2> QED
    BY <2>1, <2>7, <2>9, <2>10 DEF FeedTypes
(* A handler moves on, the table stays.                                    *)
<1>3. ASSUME UNCHANGED <<prompts, reader, opens>>, boosts' \in Seq(DOMAIN prompts),
             IsInjective(boosts'), resurfaced' \in 0 .. MaxResurfaced,
             DOMAIN cache' \subseteq DOMAIN cache, \A f \in DOMAIN cache' : cache'[f] = cache[f],
             writer' \in [Writers -> Writer], NEW w \in Writers,
             \A v \in Writers : v # w => writer'[v] = writer[v],
             writer'[w].stage \in {"keys", "idle", "del"}
               \/ (writer'[w].stage = "repin" /\ writer'[w].prompt \in DOMAIN prompts)
      PROVE  Goal
  <2>1. TypeOK'
    BY <1>0, <1>3 DEF TypeOK
  <2>2. WriterOK'
    BY <1>0, <1>3 DEF WriterOK, AtW
  <2> QED
    BY <1>b, <1>3, <2>1, <2>2 DEF FeedTypes
<1>4. ASSUME NEW w \in Writers, writer[w].prompt \in DOMAIN prompts
      PROVE  /\ Others(w) \in Seq(DOMAIN prompts) /\ IsInjective(Others(w))
             /\ \A i \in DOMAIN Others(w) : Others(w)[i] # writer[w].prompt
  BY <1>0, RemovedOnce DEF Others
<1>5. ASSUME NEW w \in Writers, NEW early \in BOOLEAN, Boost(w, early) PROVE Goal
  <2>1. writer[w].prompt \in DOMAIN prompts /\ writer[w].prompt \in 0 .. MaxPrompts
        /\ AtW(w, "boost") /\ Turn(w, "keys", writer[w].prompt)
    BY <1>0, <1>5 DEF Boost, WriterOK, AtW, Writer
  <2>2. boosts' \in Seq(DOMAIN prompts) /\ IsInjective(boosts')
    <3>1. boosts' = boosts \/ boosts' = Append(Others(w), writer[w].prompt)
      BY <1>5 DEF Boost
    <3> QED
      BY <1>0, <1>4, <2>1, <3>1, AppendedOnce
  <2>3. /\ writer' \in [Writers -> Writer] /\ writer'[w].stage = "keys"
        /\ \A v \in Writers : v # w => writer'[v] = writer[v]
    BY <1>c, <1>d, <2>1
  <2>4. UNCHANGED <<prompts, cache, reader, opens, resurfaced>>
    BY <1>5 DEF Boost
  <2>5. resurfaced' \in 0 .. MaxResurfaced
    BY <1>0, <2>4 DEF TypeOK
  <2> QED
    BY <1>3, <2>2, <2>3, <2>4, <2>5
<1>6. ASSUME NEW w \in Writers, NEW p \in DOMAIN prompts, CloneRoom(w, p) PROVE Goal
  <2>1. /\ Room /\ Insert(prompts[p].category, "PUBLIC") /\ prompts[p].category \in Categories
        /\ Turn(w, "keys", Len(prompts) + 1)
        /\ UNCHANGED <<boosts, cache, reader, opens, resurfaced>>
    BY <1>0, <1>6 DEF CloneRoom, Row
  <2>2. /\ prompts' \in Seq(Row) /\ Len(prompts') <= MaxPrompts
        /\ DOMAIN prompts' = 1 .. Len(prompts) + 1
        /\ \A q \in DOMAIN prompts : prompts'[q] = prompts[q]
        /\ Grows(prompts, prompts') /\ boosts \in Seq(DOMAIN prompts')
        /\ Len(prompts) + 1 \in 1 .. MaxPrompts
    BY <1>e, <2>1
  <2>3. /\ writer' \in [Writers -> Writer] /\ writer'[w].stage = "keys"
        /\ \A v \in Writers : v # w => writer'[v] = writer[v]
    <3>1. Len(prompts) + 1 \in 0 .. MaxPrompts
      BY <1>0, <2>2, IdIsFinite
    <3> QED
      BY <1>c, <1>d, <2>1, <3>1
  <2>4. TypeOK'
    BY <1>0, <2>1, <2>2, <2>3 DEF TypeOK
  <2>5. DOMAIN prompts \subseteq DOMAIN prompts'
    BY <2>2 DEF Grows
  <2>6. WriterOK'
    BY <1>0, <2>2, <2>3, <2>5 DEF WriterOK, AtW
  <2> QED
    BY <2>1, <2>2, <2>4, <2>6 DEF FeedTypes
<1>7. ASSUME NEW w \in Writers, NEW p \in DOMAIN prompts, PickOlder(w, p) PROVE Goal
  <2>1. Turn(w, "repin", p) /\ p \in 0 .. MaxPrompts
        /\ UNCHANGED <<prompts, boosts, cache, reader, opens>>
    BY <1>0, <1>7 DEF PickOlder, table, Id
  <2>2. /\ writer' \in [Writers -> Writer] /\ writer'[w].stage = "repin" /\ writer'[w].prompt = p
        /\ \A v \in Writers : v # w => writer'[v] = writer[v]
    BY <1>c, <1>d, <2>1
  <2>3. resurfaced' \in 0 .. MaxResurfaced
    BY <1>0, <1>7, Constants DEF PickOlder, TypeOK
  <2> QED
    BY <1>0, <1>3, <2>1, <2>2, <2>3
<1>8. ASSUME NEW w \in Writers, Repin(w) PROVE Goal
  <2>1. writer[w].prompt \in DOMAIN prompts /\ writer[w].prompt \in 0 .. MaxPrompts
        /\ AtW(w, "repin") /\ Turn(w, "keys", writer[w].prompt)
    BY <1>0, <1>8 DEF Repin, WriterOK, AtW, Writer
  <2>2. boosts' \in Seq(DOMAIN prompts) /\ IsInjective(boosts')
    <3>1. PICK i \in 1 .. Len(Others(w)) + 1 :
             boosts' = InsertAt(Others(w), i, writer[w].prompt)
      BY <1>8 DEF Repin
    <3> QED
      BY <1>4, <2>1, <3>1, InsertedOnce
  <2>3. /\ writer' \in [Writers -> Writer] /\ writer'[w].stage = "keys"
        /\ \A v \in Writers : v # w => writer'[v] = writer[v]
    BY <1>c, <1>d, <2>1
  <2>4. UNCHANGED <<prompts, cache, reader, opens, resurfaced>>
    BY <1>8 DEF Repin
  <2>5. resurfaced' \in 0 .. MaxResurfaced
    BY <1>0, <2>4 DEF TypeOK
  <2> QED
    BY <1>3, <2>2, <2>3, <2>4, <2>5
<1>9. ASSUME NEW w \in Writers, ListKeys(w) \/ DeleteKeys(w) PROVE Goal
  <2>1. UNCHANGED <<prompts, boosts, reader, opens, resurfaced>>
    BY <1>9 DEF ListKeys, DeleteKeys, table
  <2>2. /\ writer' \in [Writers -> Writer] /\ writer'[w].stage \in {"idle", "del"}
        /\ \A v \in Writers : v # w => writer'[v] = writer[v]
    <3>1. [stage |-> "del", prompt |-> writer[w].prompt, keys |-> DOMAIN cache] \in Writer
      BY <1>0, <1>d DEF Writer
    <3>2. \/ writer' = [writer EXCEPT ![w] = NoWrite]
          \/ writer' = [writer EXCEPT ![w] = [stage |-> "del", prompt |-> writer[w].prompt,
                                              keys |-> DOMAIN cache]]
      BY <1>9 DEF ListKeys, DeleteKeys
    <3> QED
      BY <1>0, <1>a, <3>1, <3>2
  <2>3. /\ DOMAIN cache' \subseteq DOMAIN cache /\ \A f \in DOMAIN cache' : cache'[f] = cache[f]
    BY <1>9 DEF ListKeys, DeleteKeys, Restrict
  <2>4. resurfaced' \in 0 .. MaxResurfaced
    BY <1>0, <2>1 DEF TypeOK
  <2> QED
    BY <1>0, <1>3, <2>1, <2>2, <2>3, <2>4
<1>10. CASE BoostEnds
  <2>1. UNCHANGED <<prompts, cache, reader, writer, opens, resurfaced>> /\ boosts' = Tail(boosts)
        /\ boosts # <<>>
    BY <1>10 DEF BoostEnds
  <2>2. boosts' \in Seq(DOMAIN prompts) /\ IsInjective(boosts')
    BY <1>0, <2>1, TailOnce
  <2> QED
    BY <1>0, <1>b, <2>1, <2>2 DEF FeedTypes, TypeOK, WriterOK, AtW
<1>11. ASSUME NEW f \in Feeds, CacheExpires(f) PROVE Goal
  <2>1. UNCHANGED <<prompts, boosts, reader, writer, opens, resurfaced>>
        /\ cache' = Restrict(cache, DOMAIN cache \ {f})
    BY <1>11 DEF CacheExpires, table
  <2>2. DOMAIN cache' \subseteq DOMAIN cache /\ \A g \in DOMAIN cache' : cache'[g] = cache[g]
    BY <2>1 DEF Restrict
  <2> QED
    BY <1>0, <1>b, <2>1, <2>2 DEF FeedTypes, TypeOK, WriterOK, AtW
<1> QED
  BY <1>1, <1>2, <1>5, <1>6, <1>7, <1>8, <1>9, <1>10, <1>11 DEF Write

LEMMA FeedTypesStep ==
    ASSUME FeedTypes, [Next]_vars
    PROVE  FeedTypes'
<1>1. CASE UNCHANGED vars
  BY <1>1 DEF FeedTypes, TypeOK, WriterOK, AtW, vars, table
<1>2. ASSUME NEW r \in Readers,
             Read(r) \/ \E f \in Feeds, member \in BOOLEAN : OpenFeed(r, f, member)
      PROVE  FeedTypes'
  <2>1. TypeOK' /\ UNCHANGED <<prompts, writer>>
    BY <1>2, ReaderTypes DEF FeedTypes
  <2> QED
    BY <2>1 DEF FeedTypes, WriterOK, AtW
<1>3. CASE (\E w \in Writers : Write(w)) \/ BoostEnds \/ (\E f \in Feeds : CacheExpires(f))
  BY <1>3, WriterTypes
<1> QED
  BY <1>1, <1>2, <1>3 DEF Next

(* Whatever the queries find, every page, cached page and draft is one,    *)
(* boosts are prompts, each boosted once, and a handler's row is there.    *)
THEOREM FeedTypeCorrect == Spec => []TypeOK
<1>1. FeedTypes => TypeOK
  BY DEF FeedTypes
<1> QED
  BY <1>1, FeedTypesInit, FeedTypesStep, PTL DEF Spec

-----------------------------------------------------------------------------
(* The invariant's parts survive what others do, and depend on little.     *)

LEMMA HeldIs ==
    ASSUME NEW c
    PROVE  Held(c) = HeldIn(prompts, c)
BY DEF Held, HeldIn, Public, InCategory

LEMMA GrowsHeld ==
    ASSUME NEW t, NEW u, Grows(t, u)
    PROVE  \A c : HeldIn(t, c) \subseteq HeldIn(u, c)
BY DEF Grows, HeldIn

LEMMA ReaderGrows ==
    ASSUME NEW t, NEW u, Grows(t, u), NEW x
    PROVE  /\ PagesOK(t, x) => PagesOK(u, x)
           /\ DraftOK(t, x) => DraftOK(u, x)
           /\ \A f, page : FirstOK(t, f, page) => FirstOK(u, f, page)
<1>1. \A c : HeldIn(t, c) \subseteq HeldIn(u, c)
  BY GrowsHeld
<1>2. PagesOK(t, x) => PagesOK(u, x)
  BY <1>1 DEF PagesOK
<1>3. DraftOK(t, x) => DraftOK(u, x)
  BY <1>1 DEF DraftOK
<1>4. \A f, page : FirstOK(t, f, page) => FirstOK(u, f, page)
  BY <1>1 DEF FirstOK
<1> QED
  BY <1>2, <1>3, <1>4

LEMMA PagesSame ==
    ASSUME NEW t, NEW x, NEW y, PagesOK(t, x),
           y.pages = x.pages, y.feed = x.feed, y.member = x.member
    PROVE  PagesOK(t, y) /\ CursorOf(y) = CursorOf(x)
BY DEF PagesOK, CursorOf

LEMMA EmptyDraft ==
    ASSUME NEW t, NEW x, x.draft = NoPage, x.stage \in {"idle", "cache", "boosts"},
           x.stage = "cache" => x.pages = <<>> /\ ~x.member,
           x.stage = "boosts" /\ x.pages # <<>> => CursorOf(x) # 0
    PROVE  DraftOK(t, x)
BY DEF DraftOK, NoPage, Solid, Reading

(* The rows that fit are the highest.                                      *)
LEMMA NewestTop ==
    ASSUME NEW S \in SUBSET Id, NEW p \in Newest(S), NEW q \in S, q \notin Newest(S)
    PROVE  q < p
<1> SUFFICES ASSUME p <= q PROVE FALSE
  BY IdIsFinite DEF Newest
<1> DEFINE P == {x \in S : x > p}
           Q == {x \in S : x > q}
<1>1. p \in Nat /\ q \in Nat /\ S \subseteq Nat /\ p \in S
  BY IdIsFinite DEF Newest
<1>2. Q \in SUBSET P
  <2>1. \A a \in S : a \in Nat
    BY <1>1
  <2>2. \A a \in S : a > q => a > p
    BY <1>1, <2>1, p <= q
  <2> QED
    BY <2>2
<1>3. IsFiniteSet(P)
  <2>1. P \in SUBSET Id
    OBVIOUS
  <2> HIDE DEF P
  <2> QED
    BY <2>1, IdIsFinite, FS_Subset
<1>4. Cardinality(P) < PageSize /\ ~(Cardinality(Q) < PageSize)
  BY DEF Newest
<1> HIDE DEF P, Q
<1>5. Cardinality(Q) <= Cardinality(P) /\ Cardinality(P) \in Nat /\ Cardinality(Q) \in Nat
  BY <1>2, <1>3, FS_Subset, FS_CardinalityType
<1> QED
  BY <1>4, <1>5, Constants

(* A page joins the list.                                                  *)
LEMMA PageJoins ==
    ASSUME NEW t, NEW x \in Reader, NEW y, NEW page \in Page, PagesOK(t, x),
           y.pages = Append(x.pages, page), y.feed = x.feed, y.member = x.member,
           Solid(page),
           x.pages # <<>> \/ x.feed.sort = "new" => Ordered(page),
           ~x.member => page.personal = {},
           x.pages # <<>> => CursorOf(x) # 0 /\ \A q \in page.stream : q < CursorOf(x),
           x.pages = <<>> => page.held \subseteq HeldIn(t, x.feed.category),
           x.pages = <<>> /\ x.feed.sort = "new" => Covers(page),
           x.pages # <<>> /\ x.feed.sort = "new" =>
              \A h \in x.pages[1].held : h < CursorOf(x) =>
                 h \in Shown(page) \cup page.boosted \/ (page.next # 0 /\ h < page.next)
    PROVE  PagesOK(t, y)
<1> DEFINE n == Len(x.pages)
<1>1. x.pages \in Seq(Page) /\ n \in Nat /\ DOMAIN x.pages = 1 .. n /\ (x.pages # <<>> <=> n > 0)
      /\ \A i \in 1 .. n : x.pages[i] \in Page
  <2>1. x.pages \in Seq(Page)
    BY DEF Reader
  <2> QED
    BY <2>1, LenProperties, EmptySeq
<1>2. /\ y.pages \in Seq(Page) /\ Len(y.pages) = n + 1 /\ y.pages # <<>>
      /\ \A i \in 1 .. n : y.pages[i] = x.pages[i]
      /\ y.pages[n + 1] = page
  BY <1>1, AppendProperties
<1>3. DOMAIN y.pages = 1 .. n + 1
  BY <1>2, LenProperties
<1>4. /\ n > 0 => CursorOf(x) = x.pages[n].next
      /\ CursorOf(y) = page.next
  BY <1>1, <1>2 DEF CursorOf
<1>5. \A z \in Page : z.next \in Nat /\ z.stream \subseteq Nat /\ z.held \subseteq Nat
  <2>1. 0 .. MaxPrompts \subseteq Nat /\ \A S \in SUBSET Id : S \subseteq Nat
    BY IdIsFinite
  <2>2. \A z \in Page : z.next \in 0 .. MaxPrompts /\ z.stream \in SUBSET Id /\ z.held \in SUBSET Id
    BY DEF Page
  <2> QED
    BY <2>1, <2>2
<1>x. /\ \A i \in 1 .. n :
            /\ Solid(x.pages[i])
            /\ i > 1 \/ x.feed.sort = "new" => Ordered(x.pages[i])
            /\ ~x.member => x.pages[i].personal = {}
      /\ \A i, j \in 1 .. n : i < j =>
            x.pages[i].next # 0 /\ \A q \in x.pages[j].stream : q < x.pages[i].next
  BY <1>1 DEF PagesOK
<1> HIDE DEF n
<1>6. ASSUME NEW i \in 1 .. n + 1
      PROVE  /\ Solid(y.pages[i])
             /\ i > 1 \/ y.feed.sort = "new" => Ordered(y.pages[i])
             /\ ~y.member => y.pages[i].personal = {}
  <2>1. CASE i \in 1 .. n
    BY <1>2, <1>x, <2>1
  <2>2. CASE i = n + 1
    BY <1>1, <1>2, <2>2
  <2> QED
    BY <1>1, <1>6, <2>1, <2>2
<1>7. ASSUME NEW i \in 1 .. n + 1, NEW j \in 1 .. n + 1, i < j
      PROVE  y.pages[i].next # 0 /\ \A q \in y.pages[j].stream : q < y.pages[i].next
  <2>1. i \in 1 .. n
    BY <1>1, <1>7
  <2>2. CASE j \in 1 .. n
    BY <1>2, <1>7, <1>x, <2>1, <2>2
  <2>3. CASE j = n + 1 /\ i = n
    <3>1. y.pages[i].next = CursorOf(x) /\ y.pages[j].stream = page.stream
      BY <1>1, <1>2, <1>4, <2>1, <2>3
    <3> QED
      BY <1>1, <2>1, <3>1
  <2>4. CASE j = n + 1 /\ i < n
    <3>1. y.pages[i].next = x.pages[i].next /\ y.pages[j].stream = page.stream
      BY <1>2, <2>1, <2>4
    <3>2. n \in 1 .. n /\ n > 0
      BY <1>1, <2>1
    <3>3. CursorOf(x) # 0 /\ CursorOf(x) = x.pages[n].next /\ x.pages[n].next \in x.pages[n].stream
      BY <1>1, <1>4, <1>x, <3>2 DEF Solid
    <3>4. x.pages[i].next # 0 /\ CursorOf(x) < x.pages[i].next
      BY <1>x, <2>1, <2>4, <3>2, <3>3
    <3>5. CursorOf(x) \in Nat /\ x.pages[i].next \in Nat
      BY <1>1, <1>5, <2>1, <3>2, <3>3
    <3>6. \A q \in page.stream : q \in Nat /\ q < CursorOf(x)
      BY <1>1, <1>5, <3>2
    <3> QED
      BY <3>1, <3>4, <3>5, <3>6
  <2> QED
    BY <1>1, <1>7, <2>1, <2>2, <2>3, <2>4
<1>8. y.pages[1].held \subseteq HeldIn(t, y.feed.category)
  <2>1. CASE n = 0
    BY <1>1, <1>2, <2>1
  <2>2. CASE n > 0
    <3>1. y.pages[1] = x.pages[1]
      BY <1>1, <1>2, <2>2
    <3> QED
      BY <1>1, <2>2, <3>1 DEF PagesOK
  <2> QED
    BY <1>1, <2>1, <2>2
<1>9. ASSUME y.feed.sort = "new", NEW h \in y.pages[1].held
      PROVE  Seen(y.pages, h) \/ (CursorOf(y) # 0 /\ h < CursorOf(y))
  <2>1. CASE n = 0
    <3>1. y.pages[1] = page /\ 1 \in DOMAIN y.pages
      BY <1>1, <1>2, <1>3, <2>1
    <3>2. h \in Shown(page) \/ (page.next # 0 /\ h < page.next)
      BY <1>1, <1>9, <2>1, <3>1 DEF Covers
    <3> QED
      BY <1>4, <3>1, <3>2 DEF Seen
  <2>2. CASE n > 0
    <3>1. h \in x.pages[1].held
      BY <1>1, <1>2, <1>9, <2>2
    <3>2. Seen(x.pages, h) \/ (CursorOf(x) # 0 /\ h < CursorOf(x))
      BY <1>1, <1>9, <2>2, <3>1 DEF PagesOK
    <3>3. CASE Seen(x.pages, h)
      <4>1. PICK i \in 1 .. n : h \in Shown(x.pages[i]) \/ (i > 1 /\ h \in x.pages[i].boosted)
        BY <1>1, <3>3 DEF Seen
      <4>2. i \in DOMAIN y.pages /\ y.pages[i] = x.pages[i]
        BY <1>1, <1>2, <1>3
      <4> QED
        BY <4>1, <4>2 DEF Seen
    <3>4. CASE h < CursorOf(x)
      <4>1. h \in Shown(page) \cup page.boosted \/ (page.next # 0 /\ h < page.next)
        BY <1>1, <1>9, <2>2, <3>1, <3>4
      <4>2. n + 1 \in DOMAIN y.pages /\ n + 1 > 1 /\ y.pages[n + 1] = page
        BY <1>1, <1>2, <1>3, <2>2
      <4> QED
        BY <1>4, <4>1, <4>2 DEF Seen
    <3> QED
      BY <3>2, <3>3, <3>4
  <2> QED
    BY <1>1, <2>1, <2>2
<1> QED
  BY <1>3, <1>6, <1>7, <1>8, <1>9 DEF PagesOK

-----------------------------------------------------------------------------
(* The reader's own steps.                                                 *)

LEMMA ReaderStep ==
    ASSUME TypeOK, CacheOK, NEW r \in Readers, PagesOK(prompts, reader[r]),
           DraftOK(prompts, reader[r]),
           Read(r) \/ \E f \in Feeds, member \in BOOLEAN : OpenFeed(r, f, member)
    PROVE  /\ PagesOK(prompts, reader'[r]) /\ DraftOK(prompts, reader'[r])
           /\ \A d \in Readers : d # r => reader'[d] = reader[d]
           /\ \A f \in DOMAIN cache' :
                 FirstOK(prompts, f, cache'[f]) /\ cache'[f].personal = {}
<1> DEFINE x == reader[r]
           y == reader'[r]
           d == x.draft
           Goal == /\ PagesOK(prompts, y) /\ DraftOK(prompts, y)
                   /\ \A o \in Readers : o # r => reader'[o] = reader[o]
                   /\ \A f \in DOMAIN cache' :
                         FirstOK(prompts, f, cache'[f]) /\ cache'[f].personal = {}
<1>0. /\ reader \in [Readers -> Reader] /\ x \in Reader /\ d \in Page /\ x.feed \in Feeds
      /\ \A f \in DOMAIN cache : cache[f] \in Page
      /\ Cursor(r) = CursorOf(x) /\ (PageOne(r) <=> x.pages = <<>>)
  BY DEF TypeOK, Reader, Cursor, CursorOf, PageOne, Last
(* A request gets on with its page.                                        *)
<1>1. ASSUME NEW stage \in ReaderStage, NEW page \in Page, Draft(r, stage, page)
      PROVE  /\ PagesOK(prompts, y) /\ CursorOf(y) = CursorOf(x)
             /\ y.stage = stage /\ y.draft = page /\ y.pages = x.pages /\ y.feed = x.feed
             /\ y.member = x.member
             /\ \A o \in Readers : o # r => reader'[o] = reader[o]
             /\ \A f \in DOMAIN cache' :
                   FirstOK(prompts, f, cache'[f]) /\ cache'[f].personal = {}
  <2>1. /\ y.stage = stage /\ y.draft = page /\ y.pages = x.pages /\ y.feed = x.feed
        /\ y.member = x.member
        /\ \A o \in Readers : o # r => reader'[o] = reader[o]
    BY <1>1, DraftEffect
  <2>2. UNCHANGED cache
    BY <1>1 DEF Draft
  <2> HIDE DEF x, y
  <2> QED
    BY <2>1, <2>2, PagesSame DEF CacheOK, x
<1>2. {"boosts", "live", "personal", "rows", "answer", "cache"} \subseteq ReaderStage
  BY DEF ReaderStage
<1>3. ASSUME NEW f \in Feeds, NEW member \in BOOLEAN, OpenFeed(r, f, member) PROVE Goal
  <2>1. y = [feed |-> f, member |-> member, pages |-> <<>>, draft |-> NoPage,
             stage |-> IF member THEN "boosts" ELSE "cache"]
        /\ \A o \in Readers : o # r => reader'[o] = reader[o]
    BY <1>0, <1>3 DEF OpenFeed
  <2>2. UNCHANGED cache
    BY <1>3 DEF OpenFeed
  <2>3. y.pages = <<>> /\ DOMAIN y.pages = {} /\ y.draft = NoPage
        /\ y.stage \in {"cache", "boosts"} /\ (y.stage = "cache" => ~y.member)
    BY <2>1
  <2> HIDE DEF y
  <2>4. PagesOK(prompts, y)
    BY <2>3 DEF PagesOK
  <2>5. DraftOK(prompts, y)
    BY <2>3, EmptyDraft
  <2> QED
    BY <2>1, <2>2, <2>4, <2>5 DEF CacheOK
<1>4. CASE LoadMore(r)
  <2>1. Draft(r, "boosts", NoPage) /\ CursorOf(x) # 0
    BY <1>0, <1>4 DEF LoadMore
  <2> HIDE DEF x, y
  <2>2. DraftOK(prompts, y)
    BY <1>1, <1>2, <2>1, NoPageType, EmptyDraft
  <2> QED
    BY <1>1, <1>2, <2>1, <2>2, NoPageType DEF x, y
<1>5. CASE ReadCache(r)
  <2>1. x.stage = "cache" /\ x.pages = <<>> /\ ~x.member
    BY <1>5 DEF ReadCache, AtR, DraftOK
  <2>2. CASE x.feed \in DOMAIN cache
    <3> DEFINE page == cache[x.feed]
    <3>1. Show(r, page) /\ UNCHANGED cache
      BY <1>5, <2>2 DEF ReadCache
    <3>2. page \in Page /\ FirstOK(prompts, x.feed, page) /\ page.personal = {}
      BY <1>0, <2>2 DEF CacheOK
    <3>3. /\ y.stage = "idle" /\ y.draft = NoPage /\ y.feed = x.feed /\ y.member = x.member
          /\ y.pages = Append(x.pages, page)
          /\ \A o \in Readers : o # r => reader'[o] = reader[o]
      BY <3>1, <3>2, ShowEffect
    <3> HIDE DEF page, x, y
    <3>4. PagesOK(prompts, x)
      BY DEF x
    <3>5. PagesOK(prompts, y)
      BY <1>0, <2>1, <3>2, <3>3, <3>4, PageJoins DEF FirstOK
    <3>6. DraftOK(prompts, y)
      BY <3>3, EmptyDraft
    <3> QED
      BY <3>1, <3>3, <3>5, <3>6 DEF CacheOK, x, y
  <2>3. CASE x.feed \notin DOMAIN cache
    <3>1. Draft(r, "boosts", NoPage)
      BY <1>5, <2>3 DEF ReadCache
    <3> HIDE DEF x, y
    <3>2. DraftOK(prompts, y)
      BY <1>1, <1>2, <2>1, <3>1, NoPageType, EmptyDraft
    <3> QED
      BY <1>1, <1>2, <3>1, <3>2, NoPageType DEF x, y
  <2> QED
    BY <2>2, <2>3
<1>6. CASE ReadBoosts(r)
  <2> DEFINE page == [NoPage EXCEPT !.boosted = CurrentlyBoosted(Category(r))]
             stage == IF PageOne(r) THEN "live" ELSE "rows"
  <2>1. CurrentlyBoosted(Category(r)) \in SUBSET Id /\ {} \in SUBSET Id /\ 0 \in 0 .. MaxPrompts
    BY SetsInId, IdIsFinite
  <2>2. page \in Page
    BY <2>1, NoPageType, PageTypes
  <2>3. Draft(r, stage, page) /\ stage \in ReaderStage /\ x.stage = "boosts"
    BY <1>2, <1>6 DEF ReadBoosts, AtR
  <2>4. page.pinned = {} /\ page.live = {} /\ page.personal = {} /\ page.stream = {}
        /\ page.next = 0
    BY DEF NoPage
  <2>5. x.pages # <<>> => CursorOf(x) # 0
    BY <2>3 DEF DraftOK, Reading
  <2>6. stage \in {"live", "rows"}
    OBVIOUS
  <2> HIDE DEF page, stage, x, y
  <2>7. /\ PagesOK(prompts, y) /\ CursorOf(y) = CursorOf(x)
        /\ y.stage = stage /\ y.draft = page /\ y.pages = x.pages
    BY <1>1, <2>2, <2>3
  <2>8. DraftOK(prompts, y)
    BY <2>4, <2>5, <2>6, <2>7 DEF DraftOK, Solid
  <2> QED
    BY <1>1, <2>2, <2>3, <2>8 DEF x, y
<1>7. CASE ReadLive(r)
  <2> DEFINE stage == IF x.member THEN "personal" ELSE "rows"
  <2>1. PICK T \in SUBSET (Held(Category(r)) \ d.boosted) :
           Draft(r, stage, [d EXCEPT !.live = T])
    BY <1>7 DEF ReadLive, Picks
  <2>2. T \in SUBSET Id /\ {} \in SUBSET Id /\ 0 \in 0 .. MaxPrompts
    BY SetsInId, IdIsFinite
  <2> DEFINE page == [d EXCEPT !.live = T]
  <2>3. page \in Page
    BY <1>0, <2>2, PageTypes
  <2>4. page.live = T /\ page.pinned = d.pinned /\ page.personal = d.personal
        /\ page.stream = d.stream /\ page.next = d.next /\ page.boosted = d.boosted
    BY <1>0 DEF Page
  <2>5. x.stage = "live" /\ DraftOK(prompts, x)
    BY <1>7 DEF ReadLive, AtR
  <2>6. stage \in {"personal", "rows"} /\ stage \in ReaderStage /\ (stage = "personal" => x.member)
    BY <1>2
  <2>7. T \cap d.boosted = {}
    OBVIOUS
  <2>8. Draft(r, stage, page)
    BY <2>1
  <2> HIDE DEF page, stage, x, y
  <2>9. /\ PagesOK(prompts, y) /\ CursorOf(y) = CursorOf(x)
        /\ y.stage = stage /\ y.draft = page /\ y.pages = x.pages /\ y.member = x.member
    BY <1>1, <2>3, <2>6, <2>8
  <2>10. DraftOK(prompts, y)
    BY <2>4, <2>5, <2>6, <2>7, <2>9 DEF DraftOK, Solid, Reading
  <2> QED
    BY <1>1, <2>3, <2>6, <2>8, <2>10 DEF x, y
<1>8. CASE ReadPersonal(r)
  <2>1. PICK T \in SUBSET (Held(Category(r)) \ (d.boosted \cup d.live)) :
           Draft(r, "rows", [d EXCEPT !.personal = T])
    BY <1>8 DEF ReadPersonal, Picks
  <2>2. T \in SUBSET Id /\ {} \in SUBSET Id /\ 0 \in 0 .. MaxPrompts
    BY SetsInId, IdIsFinite
  <2> DEFINE page == [d EXCEPT !.personal = T]
  <2>3. page \in Page
    BY <1>0, <2>2, PageTypes
  <2>4. page.personal = T /\ page.pinned = d.pinned /\ page.live = d.live
        /\ page.stream = d.stream /\ page.next = d.next /\ page.boosted = d.boosted
    BY <1>0 DEF Page
  <2>5. x.stage = "personal" /\ DraftOK(prompts, x)
    BY <1>8 DEF ReadPersonal, AtR
  <2>6. T \cap d.boosted = {} /\ T \cap d.live = {}
    OBVIOUS
  <2>7. Draft(r, "rows", page)
    BY <2>1
  <2> HIDE DEF page, x, y
  <2>8. /\ PagesOK(prompts, y) /\ CursorOf(y) = CursorOf(x)
        /\ y.stage = "rows" /\ y.draft = page /\ y.pages = x.pages /\ y.member = x.member
    BY <1>1, <1>2, <2>3, <2>7
  <2>9. DraftOK(prompts, y)
    BY <2>4, <2>5, <2>6, <2>8 DEF DraftOK, Solid, Reading
  <2> QED
    BY <1>1, <1>2, <2>3, <2>7, <2>9 DEF x, y
<1>9. CASE ReadRows(r)
  <2> DEFINE held == Held(Category(r))
             open == Below(held, Cursor(r)) \ (d.boosted \cup d.live \cup d.personal)
             byScore == x.feed.sort = "hot" /\ PageOne(r)
  <2>1. PICK T \in SUBSET open, next \in 0 .. MaxPrompts :
           /\ Draft(r, "answer", [d EXCEPT !.held = held, !.stream = T, !.next = next])
           /\ ~byScore => T = Newest(open)
           /\ next = 0 => T = open
           /\ next # 0 => next \in T /\ (byScore \/ \A p \in T : next <= p)
    BY <1>9, RowsRead
  <2> DEFINE page == [d EXCEPT !.held = held, !.stream = T, !.next = next]
  <2>2. held \in SUBSET Id /\ T \in SUBSET Id /\ open \in SUBSET Id
    BY SetsInId DEF Below
  <2>a. held = HeldIn(prompts, x.feed.category)
    BY HeldIs DEF Category
  <2> HIDE DEF held
  <2>3. page \in Page
    BY <1>0, <2>2, PageTypes
  <2>4. page.held = held /\ page.stream = T /\ page.next = next /\ page.pinned = d.pinned
        /\ page.live = d.live /\ page.personal = d.personal /\ page.boosted = d.boosted
    BY <1>0 DEF Page
  <2>5. x.stage = "rows" /\ DraftOK(prompts, x) /\ PagesOK(prompts, x)
    BY <1>9 DEF ReadRows, AtR
  <2>6. T \cap d.boosted = {} /\ T \cap d.live = {} /\ T \cap d.personal = {}
    OBVIOUS
  <2>7. \A q \in T : CursorOf(x) = 0 \/ q < CursorOf(x)
    BY <1>0 DEF Below
  <2>8. Draft(r, "answer", page)
    BY <2>1
  <2>9. x.pages # <<>> \/ x.feed.sort = "new" => ~byScore
    BY <1>0
  <2>10. \A h \in held : CursorOf(x) = 0 \/ h < CursorOf(x) =>
            h \in open \/ h \in d.boosted \cup d.live \cup d.personal
    BY <1>0 DEF Below
  <2> HIDE DEF page, x, y, open, byScore
  <2>11. /\ PagesOK(prompts, y) /\ CursorOf(y) = CursorOf(x) /\ y.feed = x.feed
         /\ y.stage = "answer" /\ y.draft = page /\ y.pages = x.pages /\ y.member = x.member
    BY <1>1, <1>2, <2>3, <2>8
  <2>12. ASSUME ~byScore, NEW h \in held, CursorOf(x) = 0 \/ h < CursorOf(x)
         PROVE  \/ h \in d.boosted \cup d.live \cup d.personal \cup T
                \/ next # 0 /\ h < next
    <3>1. h \in open \/ h \in d.boosted \cup d.live \cup d.personal
      BY <2>10, <2>12
    <3>2. ASSUME h \in open, h \notin T, next # 0 PROVE h < next
      BY <2>1, <2>2, <2>12, <3>2, NewestTop
    <3> QED
      BY <2>1, <3>1, <3>2
  <2>13. x.pages # <<>> => CursorOf(x) # 0 /\ x.pages[1].held \subseteq held
    BY <2>5, <2>a DEF DraftOK, Reading, PagesOK
  <2>14. Ordered(page) \/ byScore
    BY <2>1, <2>4 DEF Ordered
  <2>15. Solid(page) /\ page.pinned = {} /\ (~x.member => page.personal = {})
         /\ page.boosted \cap page.live = {} /\ page.boosted \cap page.personal = {}
         /\ page.boosted \cap page.stream = {}
    BY <2>1, <2>4, <2>5, <2>6 DEF DraftOK, Solid
  <2>16. DraftOK(prompts, y)
    BY <2>4, <2>7, <2>9, <2>11, <2>12, <2>13, <2>14, <2>15, <2>a DEF DraftOK, Reading
  <2> QED
    BY <1>1, <1>2, <2>3, <2>8, <2>16 DEF x, y
<1>10. CASE AnswerPage(r)
  <2> DEFINE page == Cards(r)
  <2>1. x.stage = "answer" /\ DraftOK(prompts, x) /\ Show(r, page) /\ page \in Page
    BY <1>10, CardsType DEF AnswerPage, AtR
  <2>2. /\ y.stage = "idle" /\ y.draft = NoPage /\ y.feed = x.feed /\ y.member = x.member
        /\ y.pages = Append(x.pages, page)
        /\ \A o \in Readers : o # r => reader'[o] = reader[o]
    BY <2>1, ShowEffect
  <2>3. /\ page.live = d.live /\ page.personal = d.personal /\ page.stream = d.stream
        /\ page.next = d.next
        /\ x.pages = <<>> => page.pinned = d.boosted \cap Public /\ page.held = d.held
        /\ x.pages # <<>> => page.pinned = d.pinned /\ page.boosted = d.boosted
    BY <1>0 DEF Cards, Page
  <2>4. d.held \subseteq Public
    BY <2>1 DEF DraftOK, HeldIn, Public
  <2> HIDE DEF page, x, y
  <2>5. Solid(page) /\ (~x.member => page.personal = {})
    <3>1. page.pinned \subseteq d.boosted
      BY <2>1, <2>3 DEF DraftOK
    <3> QED
      BY <2>1, <2>3, <3>1 DEF DraftOK, Solid
  <2>6. x.pages # <<>> \/ x.feed.sort = "new" => Ordered(page)
    BY <2>1, <2>3 DEF DraftOK, Ordered
  <2>7. x.pages # <<>> => CursorOf(x) # 0 /\ \A q \in page.stream : q < CursorOf(x)
    BY <2>1, <2>3 DEF DraftOK, Reading
  <2>8. x.pages = <<>> => page.held \subseteq HeldIn(prompts, x.feed.category)
    BY <2>1, <2>3 DEF DraftOK
  <2>9. ASSUME x.pages = <<>>, x.feed.sort = "new" PROVE Covers(page)
    <3>1. CursorOf(x) = 0
      BY <2>9 DEF CursorOf
    <3>2. \A h \in d.held : \/ h \in d.boosted \cup d.live \cup d.personal \cup d.stream
                            \/ d.next # 0 /\ h < d.next
      BY <2>1, <2>9, <3>1 DEF DraftOK
    <3> QED
      BY <2>3, <2>4, <2>9, <3>2 DEF Covers, Shown
  <2>10. ASSUME x.pages # <<>>, NEW h \in x.pages[1].held, h < CursorOf(x)
         PROVE  h \in Shown(page) \cup page.boosted \/ (page.next # 0 /\ h < page.next)
    <3>1. h \in d.held
      BY <2>1, <2>10 DEF DraftOK
    <3>2. \/ h \in d.boosted \cup d.live \cup d.personal \cup d.stream
          \/ d.next # 0 /\ h < d.next
      BY <2>1, <2>10, <3>1 DEF DraftOK
    <3> QED
      BY <2>3, <2>10, <3>2 DEF Shown
  <2>11. PagesOK(prompts, x)
    BY DEF x
  <2>12. PagesOK(prompts, y)
    BY <1>0, <2>1, <2>2, <2>5, <2>6, <2>7, <2>8, <2>9, <2>10, <2>11, PageJoins
  <2>13. DraftOK(prompts, y)
    BY <2>2, EmptyDraft
  <2>14. \A f \in DOMAIN cache' : FirstOK(prompts, f, cache'[f]) /\ cache'[f].personal = {}
    <3>1. CASE UNCHANGED cache
      BY <3>1 DEF CacheOK
    <3>2. CASE x.pages = <<>> /\ ~x.member /\ cache' = CacheWith(x.feed, page)
      <4>1. FirstOK(prompts, x.feed, page) /\ page.personal = {}
        BY <2>5, <2>6, <2>8, <2>9, <3>2 DEF FirstOK
      <4> QED
        BY <3>2, <4>1 DEF CacheOK, CacheWith
    <3> QED
      BY <1>0, <1>10, <3>1, <3>2 DEF AnswerPage, x, page
  <2> QED
    BY <2>2, <2>12, <2>13, <2>14 DEF x, y
<1> QED
  BY <1>3, <1>4, <1>5, <1>6, <1>7, <1>8, <1>9, <1>10 DEF Read

LEMMA FeedInvStep ==
    ASSUME FeedTypes, FeedInv, [Next]_vars
    PROVE  FeedInv'
<1>0. TypeOK /\ CacheOK
  BY DEF FeedTypes, FeedInv
<1>1. CASE UNCHANGED vars
  BY <1>1 DEF FeedInv, CacheOK, vars, table
<1>2. ASSUME NEW r \in Readers,
             Read(r) \/ \E f \in Feeds, member \in BOOLEAN : OpenFeed(r, f, member)
      PROVE  FeedInv'
  <2>1. UNCHANGED prompts
    BY <1>0, <1>2, ReaderTypes
  <2>2. /\ PagesOK(prompts, reader'[r]) /\ DraftOK(prompts, reader'[r])
        /\ \A d \in Readers : d # r => reader'[d] = reader[d]
        /\ \A f \in DOMAIN cache' : FirstOK(prompts, f, cache'[f]) /\ cache'[f].personal = {}
    BY <1>0, <1>2, ReaderStep DEF FeedInv
  <2>3. \A d \in Readers : PagesOK(prompts, reader'[d]) /\ DraftOK(prompts, reader'[d])
    BY <2>2 DEF FeedInv
  <2> QED
    BY <2>1, <2>2, <2>3 DEF FeedInv, CacheOK
<1>3. CASE (\E w \in Writers : Write(w)) \/ BoostEnds \/ (\E f \in Feeds : CacheExpires(f))
  <2>1. /\ UNCHANGED reader /\ Grows(prompts, prompts')
        /\ DOMAIN cache' \subseteq DOMAIN cache /\ \A f \in DOMAIN cache' : cache'[f] = cache[f]
    BY <1>3, WriterTypes
  <2>2. \A r \in Readers : PagesOK(prompts', reader[r]) /\ DraftOK(prompts', reader[r])
    BY <2>1, ReaderGrows DEF FeedInv
  <2>3. \A f \in DOMAIN cache' :
           FirstOK(prompts', f, cache'[f]) /\ cache'[f].personal = {}
    BY <1>0, <2>1, ReaderGrows DEF CacheOK
  <2> QED
    BY <2>1, <2>2, <2>3 DEF FeedInv, CacheOK
<1> QED
  BY <1>1, <1>2, <1>3 DEF Next

LEMMA FeedInvInit == Init => FeedInv
<1> SUFFICES ASSUME Init PROVE FeedInv
  OBVIOUS
<1>1. DOMAIN cache = {}
  BY DEF Init
<1>2. ASSUME NEW r \in Readers PROVE PagesOK(prompts, reader[r]) /\ DraftOK(prompts, reader[r])
  <2>1. reader[r].pages = <<>> /\ reader[r].draft = NoPage /\ reader[r].stage = "idle"
    BY DEF Init
  <2>2. DOMAIN reader[r].pages = {}
    BY <2>1
  <2> QED
    BY <2>1, <2>2, EmptyDraft DEF PagesOK
<1> QED
  BY <1>1, <1>2 DEF FeedInv, CacheOK

LEMMA FeedInvariant == Spec => [](FeedTypes /\ FeedInv)
BY FeedTypesInit, FeedTypesStep, FeedInvInit, FeedInvStep, PTL DEF Spec

-----------------------------------------------------------------------------
(* The properties.                                                         *)

LEMMA FourParts ==
    ASSUME NEW page \in Page, Solid(page)
    PROVE  Cardinality(Shown(page)) =
               Cardinality(page.pinned) + Cardinality(page.live)
                   + Cardinality(page.personal) + Cardinality(page.stream)
<1> DEFINE a == page.pinned
           b == page.live
           c == page.personal
           d == page.stream
<1>1. a \in SUBSET Id /\ b \in SUBSET Id /\ c \in SUBSET Id /\ d \in SUBSET Id
  BY DEF Page
<1>2. a \cap b = {} /\ (a \cup b) \cap c = {} /\ (a \cup b \cup c) \cap d = {}
  BY DEF Solid
<1>3. Shown(page) = a \cup b \cup c \cup d
  BY DEF Shown
<1> HIDE DEF a, b, c, d
<1>4. IsFiniteSet(a) /\ IsFiniteSet(b) /\ IsFiniteSet(c) /\ IsFiniteSet(d)
  BY <1>1, IdIsFinite, FS_Subset
<1>5. ASSUME NEW S, IsFiniteSet(S), NEW T, IsFiniteSet(T), S \cap T = {}
      PROVE  IsFiniteSet(S \cup T) /\ Cardinality(S \cup T) = Cardinality(S) + Cardinality(T)
             /\ Cardinality(S) \in Nat /\ Cardinality(T) \in Nat
  <2>1. IsFiniteSet(S \cup T)
        /\ Cardinality(S \cup T) = Cardinality(S) + Cardinality(T) - Cardinality(S \cap T)
    BY <1>5, FS_Union
  <2>2. Cardinality(S \cap T) = 0 /\ Cardinality(S) \in Nat /\ Cardinality(T) \in Nat
    BY <1>5, FS_EmptySet, FS_CardinalityType
  <2> QED
    BY <2>1, <2>2
<1>6. IsFiniteSet(a \cup b) /\ Cardinality(a \cup b) = Cardinality(a) + Cardinality(b)
  BY <1>2, <1>4, <1>5
<1>7. IsFiniteSet(a \cup b \cup c)
      /\ Cardinality(a \cup b \cup c) = Cardinality(a \cup b) + Cardinality(c)
  BY <1>2, <1>4, <1>5, <1>6
<1>8. Cardinality(a \cup b \cup c \cup d) = Cardinality(a \cup b \cup c) + Cardinality(d)
  BY <1>2, <1>4, <1>5, <1>7
<1>9. Cardinality(Shown(page)) = Cardinality(a) + Cardinality(b) + Cardinality(c) + Cardinality(d)
  BY <1>3, <1>6, <1>7, <1>8
<1> QED
  BY <1>9 DEF a, b, c, d

(* However prompts are created, published, cloned and boosted while        *)
(* somebody reads, each of his pages lies below the one before, and none   *)
(* shows a prompt twice in its four parts (PromptsService.feed).           *)
THEOREM PagesGoOn == Spec => []PagesAdvance
<1>1. FeedTypes /\ FeedInv => PagesAdvance
  <2> SUFFICES ASSUME FeedTypes, FeedInv, NEW r \in Readers, NEW i \in DOMAIN reader[r].pages
               PROVE
        /\ i > 1 \/ reader[r].feed.sort = "new" =>
              \A j \in DOMAIN reader[r].pages : i < j =>
                  \A p \in reader[r].pages[i].stream, q \in reader[r].pages[j].stream : q < p
        /\ Cardinality(Shown(reader[r].pages[i])) =
              Cardinality(reader[r].pages[i].pinned) + Cardinality(reader[r].pages[i].live)
                  + Cardinality(reader[r].pages[i].personal)
                  + Cardinality(reader[r].pages[i].stream)
    BY DEF PagesAdvance
  <2>1. PagesOK(prompts, reader[r]) /\ reader[r].pages \in Seq(Page)
    BY DEF FeedInv, FeedTypes, TypeOK, Reader
  <2>2. \A j \in DOMAIN reader[r].pages : reader[r].pages[j] \in Page
    BY <2>1
  <2> DEFINE page == reader[r].pages[i]
  <2>3. Solid(page) /\ page \in Page
        /\ (i > 1 \/ reader[r].feed.sort = "new" => Ordered(page))
    BY <2>1, <2>2 DEF PagesOK
  <2>4. ASSUME i > 1 \/ reader[r].feed.sort = "new",
               NEW j \in DOMAIN reader[r].pages, i < j,
               NEW p \in page.stream, NEW q \in reader[r].pages[j].stream
        PROVE  q < p
    <3>1. page.next # 0 /\ q < page.next
      BY <2>1, <2>4 DEF PagesOK
    <3>2. page.next <= p
      BY <2>3, <2>4, <3>1 DEF Ordered
    <3>3. page.next \in 0 .. MaxPrompts /\ p \in Id /\ q \in Id
      BY <2>2, <2>3 DEF Page
    <3>4. page.next \in Nat /\ p \in Nat /\ q \in Nat
      BY <3>3, IdIsFinite
    <3> QED
      BY <3>1, <3>2, <3>4
  <2> QED
    BY <2>3, <2>4, FourParts
<1> QED
  BY <1>1, FeedInvariant, PTL

(* Whoever has read "new" to the end has seen every prompt that was public *)
(* when his first page was read, but for those boosted while he read.      *)
THEOREM ReadsItAll == Spec => []NothingSkipped
<1>1. FeedTypes /\ FeedInv => NothingSkipped
  <2> SUFFICES ASSUME FeedTypes, FeedInv, NEW r \in Readers,
                      reader[r].feed.sort = "new", reader[r].pages # <<>>,
                      Last(reader[r].pages).next = 0, NEW h \in reader[r].pages[1].held
               PROVE  h \in Items(r) \cup
                          UNION {reader[r].pages[i].boosted : i \in 2 .. Len(reader[r].pages)}
    BY DEF NothingSkipped
  <2>1. PagesOK(prompts, reader[r]) /\ reader[r].pages \in Seq(Page)
    BY DEF FeedInv, FeedTypes, TypeOK, Reader
  <2>2. CursorOf(reader[r]) = 0
    BY DEF CursorOf, Last
  <2>3. Seen(reader[r].pages, h)
    BY <2>1, <2>2 DEF PagesOK
  <2>4. PICK i \in DOMAIN reader[r].pages :
           h \in Shown(reader[r].pages[i]) \/ (i > 1 /\ h \in reader[r].pages[i].boosted)
    BY <2>3 DEF Seen
  <2>5. i \in 1 .. Len(reader[r].pages) /\ Len(reader[r].pages) \in Nat
    BY <2>1, LenProperties
  <2>6. CASE h \in Shown(reader[r].pages[i])
    BY <2>6 DEF Items
  <2>7. CASE i > 1 /\ h \in reader[r].pages[i].boosted
    <3>1. i \in 2 .. Len(reader[r].pages)
      BY <2>5, <2>7
    <3> QED
      BY <2>7, <3>1
  <2> QED
    BY <2>4, <2>6, <2>7
<1> QED
  BY <1>1, FeedInvariant, PTL

(* Nobody who is not signed in is shown picks made for somebody, in his    *)
(* own page or in the first page that everybody shares (cr:cache:feed).    *)
THEOREM PicksAreHisOwn == Spec => []PicksStayPrivate
<1>1. FeedTypes /\ FeedInv => PicksStayPrivate
  BY DEF FeedInv, PicksStayPrivate, PagesOK
<1> QED
  BY <1>1, FeedInvariant, PTL

-----------------------------------------------------------------------------
(* Overflow: the inductive invariant.                                      *)

DataOK ==
    /\ subject \in {"prompt", "topic"}
    /\ seated \in Seq(Nat) /\ Len(seated) <= MaxRooms
    /\ number \in Seq(Nat) /\ Len(number) = Len(seated)
    /\ leaves \in Nat /\ direct \in Nat

(* A request knows rooms that are there: none is ever closed.              *)
JoinsOK ==
    /\ join \in [Joins -> JoinRecord]
    /\ \A x \in Joins :
        /\ ~At(x, "idle") => join[x].room \in DOMAIN seated
        /\ join[x].rest \subseteq DOMAIN seated
        /\ join[x].found <= Len(seated)

(* Topic rooms are numbered as they were created, so a request that counted *)
(* fewer than there are now chooses a number that is taken.                *)
Numbered == subject = "topic" => \A j \in DOMAIN number : number[j] = j

(* Every room a request has ruled out is still crowded, unless it missed a *)
(* room that was created since.                                            *)
Complete(x) == At(x, "siblings") /\ join[x].found = Len(seated)

Rightly(x) ==
    /\ At(x, "recount") \/ At(x, "find") \/ At(x, "siblings") => Crowded(join[x].room)
    /\ Complete(x) => \A i \in DOMAIN seated \ join[x].rest : Crowded(i)

RuledOut == subject = "topic" /\ leaves = 0 => \A x \in Joins : Rightly(x)

OneOpen == subject = "topic" /\ leaves = 0 => \A i, j \in Open : i = j

(* When every room is crowded, some request is on its way to create one    *)
(* that nobody will refuse.                                                *)
OnItsWay(x) ==
    \/ At(x, "count") \/ At(x, "recount") \/ At(x, "find")
    \/ At(x, "siblings") /\ (subject = "prompt" \/ Complete(x))

CopyComing == direct = 0 /\ Open = {} => \E x \in Joins : OnItsWay(x)

OverflowInv ==
    DataOK /\ JoinsOK /\ Numbered /\ RuledOut /\ OneOpen /\ CopyComing

-----------------------------------------------------------------------------
(* Seats.                                                                  *)

(* What a step other than a leave does to the rooms that are there.        *)
NobodyLeaves ==
    /\ Len(seated') = Len(seated)
    /\ \A i \in DOMAIN seated : seated'[i] >= seated[i]

(* A room counted anew is still a room.                                    *)
LEMMA CountAnew ==
    ASSUME NEW s \in Seq(Nat), NEW i \in DOMAIN s, NEW n \in Nat
    PROVE  /\ [s EXCEPT ![i] = n] \in Seq(Nat)
           /\ Len([s EXCEPT ![i] = n]) = Len(s)
           /\ DOMAIN [s EXCEPT ![i] = n] = DOMAIN s
OBVIOUS

(* Without a leave, rooms that were crowded stay so.                       *)
LEMMA StayCrowded ==
    ASSUME DataOK, DataOK', NobodyLeaves
    PROVE  /\ DOMAIN seated' = DOMAIN seated
           /\ \A i \in DOMAIN seated : Crowded(i) => Crowded(i)'
           /\ Open' \subseteq Open
<1>1. DOMAIN seated' = 1 .. Len(seated') /\ DOMAIN seated = 1 .. Len(seated)
  BY DEF DataOK
<1>2. DOMAIN seated' = DOMAIN seated
  BY <1>1 DEF NobodyLeaves
<1>3. \A i \in DOMAIN seated : seated[i] \in Nat /\ seated'[i] \in Nat
  BY <1>2 DEF DataOK
<1>4. \A i \in DOMAIN seated : Crowded(i) => Crowded(i)'
  BY <1>3, CrowdAssumption DEF Crowded, NobodyLeaves
<1> QED BY <1>2, <1>4 DEF Open

(* A new room is the only one with space, when the others have none.       *)
LEMMA NewRoom ==
    ASSUME DataOK, DataOK', seated' = Append(seated, 0)
    PROVE  /\ Len(seated') = Len(seated) + 1
           /\ DOMAIN seated' = DOMAIN seated \cup {Len(seated) + 1}
           /\ Open' = Open \cup {Len(seated) + 1}
<1>1. Len(seated') = Len(seated) + 1
  BY DEF DataOK
<1>2. DOMAIN seated' = 1 .. Len(seated') /\ DOMAIN seated = 1 .. Len(seated)
  BY DEF DataOK
<1>3. Len(seated) \in Nat
  BY DEF DataOK
<1>4. DOMAIN seated' = DOMAIN seated \cup {Len(seated) + 1}
  BY <1>1, <1>2, <1>3
<1>5. \A i \in DOMAIN seated : seated'[i] = seated[i]
  BY <1>2 DEF DataOK
<1>6. seated'[Len(seated) + 1] = 0
  BY DEF DataOK
<1>7. ~(0 >= Crowd)
  BY CrowdAssumption
<1> QED BY <1>1, <1>4, <1>5, <1>6, <1>7 DEF Open, Crowded

-----------------------------------------------------------------------------
(* Each action of Overflow.                                                *)

LEMMA OverflowInitInv == OverflowInit => OverflowInv
<1> SUFFICES ASSUME OverflowInit PROVE OverflowInv
  OBVIOUS
<1>1. Len(seated) = 1 /\ DOMAIN seated = {1} /\ seated[1] \in {0, 1}
  BY DEF OverflowInit
<1>2. DataOK
  BY OverflowBoundsAssumption DEF OverflowInit, DataOK
<1>3. JoinsOK
  <2>1. Idle \in JoinRecord
    BY OverflowBoundsAssumption DEF Idle, JoinRecord, Stage
  <2> QED BY <1>1, <2>1 DEF OverflowInit, JoinsOK, Idle, At
<1>4. Numbered
  BY DEF OverflowInit, Numbered
<1>5. RuledOut
  BY DEF OverflowInit, RuledOut, Rightly, Complete, At, Idle
<1>6. OneOpen
  BY <1>1 DEF OneOpen, Open
<1>7. CopyComing
  BY <1>1, CrowdAssumption DEF CopyComing, Open, Crowded
<1> QED BY <1>2, <1>3, <1>4, <1>5, <1>6, <1>7 DEF OverflowInv

(* A seat taken through a join: its own request now watches the room.      *)
LEMMA TakeSeatInv ==
    ASSUME OverflowInv, NEW x \in Joins, NEW i \in DOMAIN seated,
           NEW again \in BOOLEAN, TakeSeat(x, i, again)
    PROVE  OverflowInv'
<1>0. /\ subject' = subject /\ number' = number /\ leaves' = leaves /\ direct' = direct
      /\ At(x, "idle")
      /\ join' = [join EXCEPT ![x] = [Idle EXCEPT !.stage = "count", !.room = i]]
  BY DEF TakeSeat
<1>1. seated[i] \in Nat
  BY DEF OverflowInv, DataOK
<1>2. seated' \in Seq(Nat) /\ NobodyLeaves
  <2>1. CASE again
    BY <2>1, <1>1 DEF TakeSeat, NobodyLeaves, OverflowInv, DataOK
  <2>2. CASE ~again
    <3>1. seated' = [seated EXCEPT ![i] = seated[i] + 1]
      BY <2>2 DEF TakeSeat
    <3>2. seated \in Seq(Nat) /\ seated[i] + 1 \in Nat
      BY <1>1 DEF OverflowInv, DataOK
    <3>3. seated' \in Seq(Nat) /\ Len(seated') = Len(seated)
      BY <3>1, <3>2, CountAnew
    <3>4. \A j \in DOMAIN seated : seated'[j] >= seated[j]
      BY <3>1, <3>2
    <3> QED BY <3>3, <3>4 DEF NobodyLeaves
  <2> QED BY <2>1, <2>2
<1>3. DataOK'
  BY <1>0, <1>2 DEF NobodyLeaves, OverflowInv, DataOK
<1>4. /\ DOMAIN seated' = DOMAIN seated
      /\ \A j \in DOMAIN seated : Crowded(j) => Crowded(j)'
      /\ Open' \subseteq Open
  BY <1>2, <1>3, StayCrowded DEF OverflowInv
<1>5. join'[x] = [stage |-> "count", room |-> i, rest |-> {}, found |-> 0]
  BY <1>0 DEF OverflowInv, JoinsOK, Idle
<1>6. \A y \in Joins : y # x => join'[y] = join[y]
  BY <1>0 DEF OverflowInv, JoinsOK
<1>7. JoinsOK'
  <2>1. i \in 0 .. MaxRooms
    BY OverflowBoundsAssumption DEF OverflowInv, DataOK
  <2>2. join'[x] \in JoinRecord
    BY <1>5, <2>1, OverflowBoundsAssumption DEF JoinRecord, Stage
  <2>3. join' \in [Joins -> JoinRecord]
    BY <1>0, <1>5, <2>2 DEF OverflowInv, JoinsOK
  <2>4. Len(seated) \in Nat
    BY DEF OverflowInv, DataOK
  <2>5. /\ join'[x].room \in DOMAIN seated' /\ join'[x].rest \subseteq DOMAIN seated'
        /\ join'[x].found <= Len(seated')
    BY <1>2, <1>4, <1>5, <2>4 DEF NobodyLeaves
  <2>6. ASSUME NEW y \in Joins, y # x
        PROVE  /\ ~At(y, "idle")' => join'[y].room \in DOMAIN seated'
               /\ join'[y].rest \subseteq DOMAIN seated'
               /\ join'[y].found <= Len(seated')
    BY <2>6, <1>2, <1>4, <1>6 DEF OverflowInv, JoinsOK, NobodyLeaves, At
  <2> QED BY <2>3, <2>5, <2>6 DEF JoinsOK
<1>8. Numbered'
  BY <1>0 DEF OverflowInv, Numbered
<1>9. RuledOut'
  BY <1>0, <1>2, <1>4, <1>5, <1>6
  DEF OverflowInv, JoinsOK, RuledOut, Rightly, Complete, NobodyLeaves, At
<1>10. OneOpen'
  BY <1>0, <1>4 DEF OverflowInv, OneOpen
<1>11. CopyComing'
  BY <1>5 DEF CopyComing, OnItsWay, At
<1> QED BY <1>3, <1>7, <1>8, <1>9, <1>10, <1>11 DEF OverflowInv

(* A request that goes on while nothing else changes.                      *)
LEMMA AdvanceInv ==
    ASSUME OverflowInv, NEW x \in Joins, NEW rec \in JoinRecord,
           join' = [join EXCEPT ![x] = rec],
           UNCHANGED <<subject, seated, number, leaves, direct>>,
           rec.stage # "idle" => rec.room \in DOMAIN seated,
           rec.rest \subseteq DOMAIN seated, rec.found <= Len(seated),
           subject = "topic" /\ leaves = 0 => Rightly(x)',
           Open = {} /\ OnItsWay(x) => OnItsWay(x)'
    PROVE  OverflowInv'
<1>1. join'[x] = rec /\ \A y \in Joins : y # x => join'[y] = join[y]
  BY DEF OverflowInv, JoinsOK
<1>2. Open' = Open
  BY DEF Open, Crowded
<1>3. DataOK' /\ Numbered' /\ OneOpen'
  BY <1>2 DEF OverflowInv, DataOK, Numbered, OneOpen
<1>4. JoinsOK'
  <2>1. join' \in [Joins -> JoinRecord]
    BY DEF OverflowInv, JoinsOK
  <2>2. ASSUME NEW y \in Joins
        PROVE  /\ ~At(y, "idle")' => join'[y].room \in DOMAIN seated'
               /\ join'[y].rest \subseteq DOMAIN seated'
               /\ join'[y].found <= Len(seated')
    BY <1>1 DEF OverflowInv, JoinsOK, At
  <2> QED BY <2>1, <2>2 DEF JoinsOK
<1>5. RuledOut'
  <2>1. ASSUME subject = "topic", leaves = 0, NEW y \in Joins, y # x
        PROVE  Rightly(y)'
    BY <2>1, <1>1 DEF OverflowInv, RuledOut, Rightly, Complete, Crowded, At
  <2> QED BY <2>1 DEF RuledOut
<1>6. CopyComing'
  <2>1. SUFFICES ASSUME direct = 0, Open = {}
                 PROVE  \E y \in Joins : OnItsWay(y)'
    BY <1>2 DEF CopyComing
  <2>2. PICK y \in Joins : OnItsWay(y)
    BY <2>1 DEF OverflowInv, CopyComing
  <2>3. CASE y = x
    BY <2>1, <2>2, <2>3
  <2>4. CASE y # x
    BY <1>1, <2>2, <2>4 DEF OnItsWay, Complete, At
  <2> QED BY <2>3, <2>4
<1> QED BY <1>3, <1>4, <1>5, <1>6 DEF OverflowInv

(* The same for a step that only turns the stage.                          *)
LEMMA GotoInv ==
    ASSUME OverflowInv, NEW x \in Joins, NEW stage \in {"recount", "find"},
           Goto(x, stage), ~At(x, "idle"), Crowded(join[x].room),
           UNCHANGED <<subject, seated, number, leaves, direct>>
    PROVE  OverflowInv'
<1> DEFINE rec == [join[x] EXCEPT !.stage = stage]
<1>1. join[x] \in JoinRecord
  BY DEF OverflowInv, JoinsOK
<1>2. rec \in JoinRecord
  BY <1>1 DEF JoinRecord, Stage
<1>3. join' = [join EXCEPT ![x] = rec]
  BY DEF Goto
<1>4. /\ rec.room = join[x].room /\ rec.rest = join[x].rest
      /\ rec.found = join[x].found /\ rec.stage = stage
  BY <1>1 DEF JoinRecord
<1>5. join'[x] = rec
  BY <1>3 DEF OverflowInv, JoinsOK
<1>6. Rightly(x)' /\ OnItsWay(x)'
  BY <1>4, <1>5 DEF Rightly, OnItsWay, Complete, Crowded, At
<1>7. /\ rec.room \in DOMAIN seated /\ rec.rest \subseteq DOMAIN seated
      /\ rec.found <= Len(seated)
  BY <1>4 DEF OverflowInv, JoinsOK
<1> QED BY <1>2, <1>3, <1>6, <1>7, AdvanceInv

(* One that ends, unless somebody must still create a room.                *)
LEMMA FinishInv ==
    ASSUME OverflowInv, NEW x \in Joins, Finish(x), Open # {} \/ ~OnItsWay(x),
           UNCHANGED <<subject, seated, number, leaves, direct>>
    PROVE  OverflowInv'
<1>1. Idle \in JoinRecord
  BY OverflowBoundsAssumption DEF Idle, JoinRecord, Stage
<1>2. join' = [join EXCEPT ![x] = Idle]
  BY DEF Finish
<1>3. join'[x] = Idle
  BY <1>2 DEF OverflowInv, JoinsOK
<1>4. Rightly(x)'
  BY <1>3 DEF Rightly, Complete, Idle, At
<1>5. Idle.rest \subseteq DOMAIN seated /\ Idle.found <= Len(seated) /\ Idle.stage = "idle"
  BY DEF Idle, OverflowInv, DataOK
<1> QED BY <1>1, <1>2, <1>4, <1>5, AdvanceInv

LEMMA CountSeatsInv ==
    ASSUME OverflowInv, NEW x \in Joins, CountSeats(x)
    PROVE  OverflowInv'
<1>1. join[x].room \in DOMAIN seated /\ ~At(x, "idle")
  BY DEF CountSeats, OverflowInv, JoinsOK, At
<1>2. CASE ~Crowded(join[x].room)
  BY <1>1, <1>2, FinishInv DEF CountSeats, Open
<1>3. CASE Crowded(join[x].room)
  BY <1>1, <1>3, GotoInv DEF CountSeats
<1> QED BY <1>2, <1>3

LEMMA RecountInv ==
    ASSUME OverflowInv, NEW x \in Joins, Recount(x)
    PROVE  OverflowInv'
<1>1. join[x].room \in DOMAIN seated /\ ~At(x, "idle")
  BY DEF Recount, OverflowInv, JoinsOK, At
<1>2. CASE ~Crowded(join[x].room)
  BY <1>1, <1>2, FinishInv DEF Recount, Open
<1>3. CASE Crowded(join[x].room)
  BY <1>1, <1>3, GotoInv DEF Recount
<1> QED BY <1>2, <1>3

(* A topic's siblings are all there are, so the list is complete.          *)
LEMMA FindSiblingsInv ==
    ASSUME OverflowInv, NEW x \in Joins, FindSiblings(x)
    PROVE  OverflowInv'
<1>1. PICK S \in SUBSET DOMAIN seated :
        /\ IF subject = "topic" \/ Len(seated) <= Considered
           THEN S = DOMAIN seated ELSE Cardinality(S) = Considered
        /\ join' = [join EXCEPT ![x].stage = "siblings",
                                ![x].rest = S \ {join[x].room},
                                ![x].found = Cardinality(S)]
  BY DEF FindSiblings
<1> DEFINE rec == [join[x] EXCEPT !.stage = "siblings", !.rest = S \ {join[x].room},
                                  !.found = Cardinality(S)]
<1>2. Len(seated) \in Nat /\ DOMAIN seated = 1 .. Len(seated)
  BY DEF OverflowInv, DataOK
<1>3. IsFiniteSet(DOMAIN seated) /\ Cardinality(DOMAIN seated) = Len(seated)
  BY <1>2, FS_Interval
<1>4. Cardinality(S) \in Nat /\ Cardinality(S) <= Len(seated)
  BY <1>1, <1>3, FS_Subset, FS_CardinalityType
<1>5. join[x] \in JoinRecord /\ join[x].room \in DOMAIN seated /\ At(x, "find")
  BY DEF OverflowInv, JoinsOK, FindSiblings, At
<1>6. join' = [join EXCEPT ![x] = rec]
  BY <1>1 DEF OverflowInv, JoinsOK
<1>7. rec \in JoinRecord
  <2>1. S \subseteq 1 .. MaxRooms /\ Cardinality(S) \in 0 .. MaxRooms
    BY <1>2, <1>4, OverflowBoundsAssumption DEF OverflowInv, DataOK
  <2> QED BY <2>1, <1>5 DEF JoinRecord, Stage
<1>8. /\ join'[x].stage = "siblings" /\ join'[x].room = join[x].room
      /\ join'[x].rest = S \ {join[x].room} /\ join'[x].found = Cardinality(S)
  BY <1>5, <1>6 DEF JoinRecord, OverflowInv, JoinsOK
<1>9. UNCHANGED <<subject, seated, number, leaves, direct>>
  BY DEF FindSiblings
<1>10. ASSUME subject = "topic", leaves = 0
       PROVE  Rightly(x)'
  <2>1. Crowded(join[x].room) /\ S = DOMAIN seated
    BY <1>1, <1>5, <1>10 DEF OverflowInv, RuledOut, Rightly
  <2> QED BY <2>1, <1>8, <1>9 DEF Rightly, Complete, Crowded, At
<1>11. OnItsWay(x)'
  <2>1. CASE subject = "prompt"
    BY <2>1, <1>8, <1>9 DEF OnItsWay, At
  <2>2. CASE subject = "topic"
    BY <2>2, <1>1, <1>3, <1>8, <1>9 DEF OnItsWay, Complete, At
  <2> QED BY <2>1, <2>2 DEF OverflowInv, DataOK
<1> QED
  <2>1. rec.room \in DOMAIN seated /\ rec.rest \subseteq DOMAIN seated /\ rec.found <= Len(seated)
    BY <1>1, <1>4, <1>5 DEF JoinRecord
  <2>2. subject = "topic" /\ leaves = 0 => Rightly(x)'
    BY <1>10
  <2> QED BY <2>1, <2>2, <1>6, <1>7, <1>9, <1>11, AdvanceInv

(* A sibling is ruled out because it is crowded.                           *)
LEMMA CountSiblingInv ==
    ASSUME OverflowInv, NEW x \in Joins, CountSibling(x)
    PROVE  OverflowInv'
<1>1. PICK i \in join[x].rest :
        IF Crowded(i) THEN join' = [join EXCEPT ![x].rest = @ \ {i}] ELSE Finish(x)
  BY DEF CountSibling
<1>2. i \in DOMAIN seated /\ At(x, "siblings")
  BY DEF OverflowInv, JoinsOK, CountSibling
<1>3. UNCHANGED <<subject, seated, number, leaves, direct>>
  BY DEF CountSibling
<1>4. CASE ~Crowded(i)
  BY <1>1, <1>2, <1>3, <1>4, FinishInv DEF Open
<1>5. CASE Crowded(i)
  <2> DEFINE rec == [join[x] EXCEPT !.rest = @ \ {i}]
  <2>1. join[x] \in JoinRecord
    BY DEF OverflowInv, JoinsOK
  <2>2. rec \in JoinRecord
    BY <2>1 DEF JoinRecord
  <2>3. /\ rec.room = join[x].room /\ rec.rest = join[x].rest \ {i}
        /\ rec.found = join[x].found /\ rec.stage = "siblings"
    BY <2>1, <1>2 DEF JoinRecord, At
  <2>4. join' = [join EXCEPT ![x] = rec]
    BY <1>1, <1>5
  <2>5. join'[x] = rec
    BY <2>4 DEF OverflowInv, JoinsOK
  <2>6. /\ rec.room \in DOMAIN seated /\ rec.rest \subseteq DOMAIN seated
        /\ rec.found <= Len(seated)
    BY <2>3, <1>2 DEF OverflowInv, JoinsOK, At
  <2>7. ASSUME subject = "topic", leaves = 0
        PROVE  Rightly(x)'
    <3>1. Rightly(x)
      BY <2>7 DEF OverflowInv, RuledOut
    <3> QED BY <3>1, <2>3, <2>5, <1>2, <1>3, <1>5 DEF Rightly, Complete, Crowded, At
  <2>8. OnItsWay(x) => OnItsWay(x)'
    BY <2>3, <2>5, <1>2, <1>3 DEF OnItsWay, Complete, At
  <2>9. subject = "topic" /\ leaves = 0 => Rightly(x)'
    BY <2>7
  <2> QED BY <2>2, <2>4, <2>6, <2>8, <2>9, <1>3, AdvanceInv
<1> QED BY <1>4, <1>5

(* The copy is the only room with space; a number that is taken is that of *)
(* a request whose list was no longer complete.                            *)
LEMMA CreateCopyInv ==
    ASSUME OverflowInv, NEW x \in Joins, CreateCopy(x)
    PROVE  OverflowInv'
<1> DEFINE next == join[x].found + 1
           taken == subject = "topic" /\ \E j \in DOMAIN number : number[j] = next
<1>1. /\ At(x, "siblings") /\ join[x].rest = {} /\ Finish(x)
      /\ UNCHANGED <<subject, leaves, direct>>
  BY DEF CreateCopy
<1>2. /\ Len(seated) \in Nat /\ DOMAIN seated = 1 .. Len(seated)
      /\ Len(number) = Len(seated) /\ DOMAIN number = 1 .. Len(seated)
  BY DEF OverflowInv, DataOK
<1>3. join[x].found \in Nat /\ join[x].found <= Len(seated)
  BY DEF OverflowInv, JoinsOK, JoinRecord
<1>4. subject = "topic" => (taken <=> join[x].found < Len(seated))
  <2>1. SUFFICES ASSUME subject = "topic" PROVE taken <=> next \in 1 .. Len(seated)
    BY <1>2, <1>3
  <2>2. \A j \in DOMAIN number : number[j] = j
    BY <2>1 DEF OverflowInv, Numbered
  <2> QED BY <2>1, <2>2, <1>2
<1>5. CASE taken
  <2>1. UNCHANGED <<seated, number>>
    BY <1>5 DEF CreateCopy
  <2>2. ~OnItsWay(x)
    BY <1>1, <1>3, <1>4, <1>5, <1>2 DEF OnItsWay, Complete, At
  <2> QED BY <2>1, <2>2, <1>1, FinishInv
<1>6. CASE ~taken
  <2>1. /\ Len(seated) < MaxRooms /\ seated' = Append(seated, 0)
        /\ number' = Append(number, IF subject = "topic" THEN next ELSE 0)
    BY <1>6 DEF CreateCopy
  <2>2. DataOK'
    <3>1. seated' \in Seq(Nat) /\ number' \in Seq(Nat)
      BY <2>1, <1>3 DEF OverflowInv, DataOK
    <3>2. Len(seated') = Len(seated) + 1 /\ Len(number') = Len(seated) + 1
      BY <2>1, <1>2 DEF OverflowInv, DataOK
    <3> QED BY <3>1, <3>2, <2>1, <1>1, <1>2, OverflowBoundsAssumption
            DEF OverflowInv, DataOK
  <2>3. /\ Len(seated') = Len(seated) + 1
        /\ DOMAIN seated' = DOMAIN seated \cup {Len(seated) + 1}
        /\ Open' = Open \cup {Len(seated) + 1}
    BY <2>1, <2>2, NewRoom DEF OverflowInv
  <2>4. join'[x] = Idle /\ \A y \in Joins : y # x => join'[y] = join[y]
    BY <1>1 DEF Finish, OverflowInv, JoinsOK
  <2>5. JoinsOK'
    <3>1. Idle \in JoinRecord
      BY OverflowBoundsAssumption DEF Idle, JoinRecord, Stage
    <3>2. join' \in [Joins -> JoinRecord]
      BY <3>1, <1>1 DEF Finish, OverflowInv, JoinsOK
    <3>3. ASSUME NEW y \in Joins, y # x
          PROVE  /\ ~At(y, "idle")' => join'[y].room \in DOMAIN seated'
                 /\ join'[y].rest \subseteq DOMAIN seated'
                 /\ join'[y].found <= Len(seated')
      <4>1. join[y].found \in Nat
        BY DEF OverflowInv, JoinsOK, JoinRecord
      <4> QED BY <4>1, <3>3, <1>2, <2>3, <2>4 DEF OverflowInv, JoinsOK, At
    <3> QED BY <3>2, <3>3, <2>3, <2>4, <1>2 DEF JoinsOK, Idle, At
  <2>6. subject = "topic" => join[x].found = Len(seated)
    BY <1>2, <1>3, <1>4, <1>6
  <2>7. Numbered'
    <3>1. SUFFICES ASSUME subject = "topic", NEW j \in DOMAIN number'
                   PROVE  number'[j] = j
      BY <1>1 DEF Numbered
    <3>2. number' = Append(number, Len(seated) + 1)
      BY <2>1, <2>6, <3>1
    <3>3. j \in 1 .. Len(seated) + 1
      BY <2>2, <2>3 DEF DataOK
    <3> QED BY <3>1, <3>2, <3>3, <1>2 DEF OverflowInv, DataOK, Numbered
  <2>8. \A i \in DOMAIN seated : Crowded(i)' = Crowded(i)
    <3>1. \A i \in DOMAIN seated : seated'[i] = seated[i]
      BY <2>1, <1>2 DEF OverflowInv, DataOK
    <3> QED BY <3>1 DEF Crowded
  <2>9. RuledOut'
    <3>1. SUFFICES ASSUME subject = "topic", leaves = 0, NEW y \in Joins
                   PROVE  Rightly(y)'
      BY <1>1 DEF RuledOut
    <3>2. CASE y = x
      BY <3>2, <2>4 DEF Rightly, Complete, Idle, At
    <3>3. CASE y # x
      <4>1. join'[y] = join[y] /\ Rightly(y) /\ join[y].found <= Len(seated)
        BY <3>1, <3>3, <2>4 DEF OverflowInv, RuledOut, JoinsOK
      <4>2. join[y].found \in Nat
        BY DEF OverflowInv, JoinsOK, JoinRecord
      <4>3. ~Complete(y)'
        BY <4>1, <4>2, <1>2, <2>3 DEF Complete
      <4>4. ~At(y, "idle") => join[y].room \in DOMAIN seated
        BY DEF OverflowInv, JoinsOK
      <4> QED BY <4>1, <4>3, <4>4, <2>8 DEF Rightly, Crowded, At
    <3> QED BY <3>2, <3>3
  <2>10. OneOpen'
    <3>1. SUFFICES ASSUME subject = "topic", leaves = 0
                   PROVE  Open = {}
      BY <3>1, <2>3, <1>1 DEF OneOpen
    <3>2. Complete(x) /\ Rightly(x)
      BY <3>1, <2>6, <1>1 DEF Complete, OverflowInv, RuledOut
    <3> QED BY <3>2, <1>1 DEF Rightly, Open
  <2>11. CopyComing'
    BY <2>3 DEF CopyComing
  <2> QED BY <2>2, <2>5, <2>7, <2>9, <2>10, <2>11 DEF OverflowInv
<1> QED BY <1>5, <1>6

(* A seat given up: what was crowded may have space, nothing fills up.     *)
LEMMA LeaveInv ==
    ASSUME OverflowInv, NEW i \in DOMAIN seated, Leave(i)
    PROVE  OverflowInv'
<1>1. /\ seated[i] > 0 /\ seated' = [seated EXCEPT ![i] = seated[i] - 1]
      /\ leaves' = leaves + 1 /\ UNCHANGED <<subject, number, join, direct>>
  BY DEF Leave
<1>2. seated[i] \in Nat /\ seated[i] - 1 \in Nat
  BY <1>1 DEF OverflowInv, DataOK
<1>3. /\ seated' \in Seq(Nat) /\ Len(seated') = Len(seated)
      /\ DOMAIN seated' = DOMAIN seated
  BY <1>1, <1>2, CountAnew DEF OverflowInv, DataOK
<1>4. DataOK' /\ Numbered'
  BY <1>1, <1>3 DEF OverflowInv, DataOK, Numbered
<1>5. JoinsOK'
  BY <1>1, <1>3 DEF OverflowInv, JoinsOK, At
<1>6. leaves' # 0
  BY <1>1 DEF OverflowInv, DataOK
<1>7. RuledOut' /\ OneOpen'
  BY <1>6 DEF RuledOut, OneOpen
<1>8. CopyComing'
  <2>1. ASSUME NEW j \in DOMAIN seated
        PROVE  seated[j] \in Nat /\ seated'[j] \in Nat /\ seated'[j] <= seated[j]
    <3>1. seated[j] \in Nat
      BY DEF OverflowInv, DataOK
    <3>2. CASE j = i
      BY <3>1, <3>2, <1>1, <1>2
    <3>3. CASE j # i
      BY <3>1, <3>3, <1>1
    <3> QED BY <3>2, <3>3
  <2>2. Open \subseteq Open'
    BY <2>1, <1>3, CrowdAssumption DEF Open, Crowded
  <2> QED BY <2>2, <1>1, <1>3 DEF OverflowInv, CopyComing, OnItsWay, Complete, At
<1> QED BY <1>4, <1>5, <1>7, <1>8 DEF OverflowInv

(* A seat nobody counted: nothing is promised any more.                    *)
LEMMA SeatDirectlyInv ==
    ASSUME OverflowInv, NEW i \in DOMAIN seated, SeatDirectly(i)
    PROVE  OverflowInv'
<1>1. /\ subject = "prompt" /\ seated' = [seated EXCEPT ![i] = seated[i] + 1]
      /\ direct' = direct + 1 /\ UNCHANGED <<subject, number, join, leaves>>
  BY DEF SeatDirectly
<1>2. seated[i] + 1 \in Nat
  BY DEF OverflowInv, DataOK
<1>3. /\ seated' \in Seq(Nat) /\ Len(seated') = Len(seated)
      /\ DOMAIN seated' = DOMAIN seated
  BY <1>1, <1>2, CountAnew DEF OverflowInv, DataOK
<1>4. DataOK' /\ Numbered'
  BY <1>1, <1>3 DEF OverflowInv, DataOK, Numbered
<1>5. JoinsOK'
  BY <1>1, <1>3 DEF OverflowInv, JoinsOK, At
<1>6. direct' # 0 /\ subject' # "topic"
  BY <1>1 DEF OverflowInv, DataOK
<1>7. RuledOut' /\ OneOpen' /\ CopyComing'
  BY <1>6 DEF RuledOut, OneOpen, CopyComing
<1> QED BY <1>4, <1>5, <1>7 DEF OverflowInv

-----------------------------------------------------------------------------
(* Every step of Overflow.                                                 *)

LEMMA OverflowNextInv ==
    ASSUME OverflowInv, [OverflowNext]_overflowVars
    PROVE  OverflowInv'
<1>1. CASE UNCHANGED overflowVars
  <2>1. UNCHANGED <<subject, seated, number, join, leaves, direct>>
    BY <1>1 DEF overflowVars
  <2> QED BY <2>1 DEF OverflowInv, DataOK, JoinsOK, Numbered, RuledOut, Rightly, OneOpen,
                     CopyComing, OnItsWay, Complete, Open, Crowded, At
<1>2. ASSUME NEW x \in Joins, NEW i \in DOMAIN seated, NEW again \in BOOLEAN,
             TakeSeat(x, i, again)
      PROVE  OverflowInv'
  BY <1>2, TakeSeatInv
<1>3. ASSUME NEW x \in Joins, Step(x)
      PROVE  OverflowInv'
  BY <1>3, CountSeatsInv, RecountInv, FindSiblingsInv, CountSiblingInv, CreateCopyInv
     DEF Step
<1>4. ASSUME NEW i \in DOMAIN seated, Leave(i) \/ SeatDirectly(i)
      PROVE  OverflowInv'
  BY <1>4, LeaveInv, SeatDirectlyInv
<1> QED BY <1>1, <1>2, <1>3, <1>4 DEF OverflowNext

LEMMA AlwaysOverflowInv == OverflowSpec => []OverflowInv
BY OverflowInitInv, OverflowNextInv, PTL DEF OverflowSpec

-----------------------------------------------------------------------------
(* Theorems about Overflow.                                                *)

(* Every variable keeps its type, and no two rooms of a topic have one     *)
(* slug, however many joins run maybeDuplicateTopic at once.               *)
THEOREM OverflowTypeCorrect == OverflowSpec => []OverflowTypeOK
<1>1. OverflowInv => OverflowTypeOK
  BY DEF OverflowInv, DataOK, JoinsOK, Numbered, OverflowTypeOK
<1> QED BY <1>1, AlwaysOverflowInv, PTL

(* Whenever join and what it started are done, a subject whose seats were  *)
(* taken by joins has a room with space: the next person has somewhere to  *)
(* go.                                                                     *)
THEOREM AlwaysSomewhere == OverflowSpec => []StaysJoinable
<1>1. OverflowInv => StaysJoinable
  BY DEF OverflowInv, CopyComing, OnItsWay, Complete, StaysJoinable, AtRest, At
<1> QED BY <1>1, AlwaysOverflowInv, PTL

(* While nobody leaves, joins that overlap never give a topic two rooms    *)
(* with space.                                                             *)
THEOREM NoSpiral == OverflowSpec => []OneSpareTopic
<1>1. ASSUME OverflowInv, subject = "topic", leaves = 0
      PROVE  Cardinality(Open) <= 1
  <2>1. CASE Open = {}
    BY <2>1, FS_EmptySet
  <2>2. CASE Open # {}
    <3>1. PICK i \in Open : TRUE
      BY <2>2
    <3>2. Open = {i}
      BY <1>1, <3>1 DEF OverflowInv, OneOpen
    <3>3. Cardinality({i}) = 1
      BY FS_Singleton
    <3> QED BY <3>2, <3>3
  <2> QED BY <2>1, <2>2
<1>2. OverflowInv => OneSpareTopic
  BY <1>1 DEF OneSpareTopic
<1> QED BY <1>2, AlwaysOverflowInv, PTL

=============================================================================
