-------------------------------- MODULE Feed --------------------------------
(***************************************************************************)
(* The prompt feed: PromptsService.feed page by page (prompts.service.ts,  *)
(* cursor.ts), the list in which a reader collects the pages               *)
(* (use-infinite-feed.ts), and the handlers that change what it shows: a   *)
(* new prompt, the clone of a full room, the daily worker's boosts.        *)
(*                                                                         *)
(* A prompt is its place in the order (createdAt, id).  Who sits where,    *)
(* what somebody prefers and how prompts score changes at any time: what a *)
(* query finds of it is a choice.                                          *)
(***************************************************************************)
EXTENDS Naturals, FiniteSets, SequencesExt, Functions

CONSTANTS Readers, Writers, Categories,
          AllCategories,           \* no category chosen
          Chosen,                  \* what readers choose: categories or all
          PageSize, MaxBoosted,    \* PAGE_SIZE, MAX_BOOSTED_ON_PAGE
          BlockSize,               \* the limits of the live and personal blocks
          Oldest,                  \* the prompts there at the start
          MaxPrompts, MaxOpens, MaxResurfaced    \* bounds

ASSUME FiltersAssumption ==
    AllCategories \notin Categories /\ AllCategories \in Chosen
        /\ Chosen \subseteq Categories \cup {AllCategories}
ASSUME SizesAssumption == {PageSize, MaxBoosted, BlockSize} \subseteq Nat \ {0}
ASSUME FeedBoundsAssumption == {MaxPrompts, MaxOpens, MaxResurfaced} \subseteq Nat
ASSUME OldestAssumption == Oldest \in Seq(Categories) /\ Len(Oldest) <= MaxPrompts

VARIABLES
    prompts,     \* the table, by (createdAt, id)
    boosts,      \* cr:boost, by expiry
    cache,       \* the cr:cache:feed keys that are set
    reader,      \* each reader's list and his request in flight
    writer,      \* each handler that publishes or boosts
    opens,       \* lists opened so far
    resurfaced   \* older prompts boosted so far

table == <<prompts, boosts>>
vars == <<table, cache, reader, writer, opens, resurfaced>>

Feeds == [sort : {"new", "hot"}, category : Chosen]
Id == 1 .. MaxPrompts

(* A row is pending until its transaction commits.                         *)
Row == [category : Categories, state : {"pending", "PUBLIC", "PRIVATE"}]

(* pinned, live and personal are the blocks in front of page one, stream   *)
(* is the keyset page and next its cursor (0: no more).  Two fields are    *)
(* not in the answer: what the feed held when page one was read, and what  *)
(* a later page left out as boosted.                                       *)
Page == [pinned : SUBSET Id, live : SUBSET Id, personal : SUBSET Id,
         stream : SUBSET Id, next : 0 .. MaxPrompts,
         held : SUBSET Id, boosted : SUBSET Id]

NoPage == [pinned |-> {}, live |-> {}, personal |-> {}, stream |-> {},
           next |-> 0, held |-> {}, boosted |-> {}]
NoWrite == [stage |-> "idle", prompt |-> 0, keys |-> {}]

ReaderStage == {"idle", "cache", "boosts", "live", "personal", "rows", "answer"}
WriterStage == {"idle", "commit", "boost", "repin", "keys", "del"}

Reader == [feed : Feeds, member : BOOLEAN, pages : Seq(Page), stage : ReaderStage, draft : Page]
Writer == [stage : WriterStage, prompt : 0 .. MaxPrompts, keys : SUBSET Feeds]

TypeOK ==
    /\ prompts \in Seq(Row) /\ Len(prompts) <= MaxPrompts
    /\ boosts \in Seq(DOMAIN prompts) /\ IsInjective(boosts)
    /\ DOMAIN cache \subseteq Feeds /\ \A f \in DOMAIN cache : cache[f] \in Page
    /\ reader \in [Readers -> Reader]
    /\ writer \in [Writers -> Writer]
    /\ opens \in 0 .. MaxOpens /\ resurfaced \in 0 .. MaxResurfaced

Init ==
    /\ prompts = [p \in DOMAIN Oldest |-> [category |-> Oldest[p], state |-> "PUBLIC"]]
    /\ boosts = <<>>
    /\ cache = <<>>
    /\ reader = [r \in Readers |-> [feed |-> [sort |-> "new", category |-> AllCategories],
                                     member |-> FALSE, pages |-> <<>>,
                                     stage |-> "idle", draft |-> NoPage]]
    /\ writer = [w \in Writers |-> NoWrite]
    /\ opens = 0 /\ resurfaced = 0

-----------------------------------------------------------------------------

Public == {p \in DOMAIN prompts : prompts[p].state = "PUBLIC"}
InCategory(p, c) == c = AllCategories \/ prompts[p].category = c
Held(c) == {p \in Public : InCategory(p, c)}

(* currentlyBoostedIds: the cap first, then the category.                  *)
CurrentlyBoosted(c) ==
    LET n == Len(boosts)
        top == IF n > MaxBoosted THEN SubSeq(boosts, n - MaxBoosted + 1, n) ELSE boosts
    IN {p \in ToSet(top) : InCategory(p, c)}

(* Mutants: the cursor's own row comes again; the cursor is the row that   *)
(* did not fit.                                                            *)
BelowOrAt(S, cursor) == {p \in S : cursor = 0 \/ p <= cursor}
CursorOfExtraRow(open, page, last) ==
    IF page = open THEN {0} ELSE {p \in open \ page : \A q \in open \ page : q <= p}

Below(S, cursor) == {p \in S : cursor = 0 \/ p < cursor}
Newest(S) == {p \in S : Cardinality({q \in S : q > p}) < PageSize}

(* toPage: a row more than fits on the page tells that there is a next     *)
(* one, and the last row on the page is the cursor.                        *)
Cursors(open, page, last) == IF page = open THEN {0} ELSE last

-----------------------------------------------------------------------------
(* Readers.                                                                *)

AtR(r, stage) == reader[r].stage = stage
PageOne(r) == reader[r].pages = <<>>
Category(r) == reader[r].feed.category
Cursor(r) == IF PageOne(r) THEN 0 ELSE Last(reader[r].pages).next

Draft(r, stage, page) ==
    /\ reader' = [reader EXCEPT ![r].stage = stage, ![r].draft = page]
    /\ UNCHANGED <<table, cache, writer, opens, resurfaced>>

Show(r, page) ==
    reader' = [reader EXCEPT ![r].stage = "idle", ![r].draft = NoPage,
                             ![r].pages = Append(@, page)]

(* A list is opened, or fetched again from its first page.                 *)
OpenFeed(r, f, member) ==
    /\ AtR(r, "idle")
    /\ opens < MaxOpens
    /\ opens' = opens + 1
    /\ reader' = [reader EXCEPT ![r] =
           [feed |-> f, member |-> member, pages |-> <<>>, draft |-> NoPage,
            stage |-> IF member THEN "boosts" ELSE "cache"]]
    /\ UNCHANGED <<table, cache, writer, resurfaced>>

LoadMore(r) ==
    /\ AtR(r, "idle")
    /\ Cursor(r) # 0
    /\ Draft(r, "boosts", NoPage)

ReadCache(r) ==
    /\ AtR(r, "cache")
    /\ IF reader[r].feed \in DOMAIN cache
       THEN /\ Show(r, cache[reader[r].feed])
            /\ UNCHANGED <<table, cache, writer, opens, resurfaced>>
       ELSE Draft(r, "boosts", NoPage)

ReadBoosts(r) ==
    /\ AtR(r, "boosts")
    /\ Draft(r, IF PageOne(r) THEN "live" ELSE "rows",
             [NoPage EXCEPT !.boosted = CurrentlyBoosted(Category(r))])

(* Rooms with people and a free seat, and the viewer's own picks: whatever *)
(* they are now, but not what page one shows already.                      *)
Picks(S) == {T \in SUBSET S : Cardinality(T) <= BlockSize}

ReadLive(r) ==
    LET d == reader[r].draft IN
    /\ AtR(r, "live")
    /\ \E T \in Picks(Held(Category(r)) \ d.boosted) :
          Draft(r, IF reader[r].member THEN "personal" ELSE "rows", [d EXCEPT !.live = T])

ReadPersonal(r) ==
    LET d == reader[r].draft IN
    /\ AtR(r, "personal")
    /\ \E T \in Picks(Held(Category(r)) \ (d.boosted \cup d.live)) :
          Draft(r, "rows", [d EXCEPT !.personal = T])

(* By creation, but for the first page of "hot", which is by score.        *)
ReadRows(r) ==
    LET d == reader[r].draft
        held == Held(Category(r))
        open == Below(held, Cursor(r)) \ (d.boosted \cup d.live \cup d.personal)
        newest == Newest(open)
        byScore == reader[r].feed.sort = "hot" /\ PageOne(r)
        top == IF byScore
               THEN {T \in SUBSET open : Cardinality(T) = Cardinality(newest)}
               ELSE {newest}
        last(T) == IF byScore THEN T ELSE {p \in T : \A q \in T : p <= q}
    IN
    /\ AtR(r, "rows")
    /\ \E T \in top : \E next \in Cursors(open, T, last(T)) :
          Draft(r, "answer", [d EXCEPT !.held = held, !.stream = T, !.next = next])

(* The cards of the blocks that page one shows; a later page has none.     *)
Cards(r) ==
    LET d == reader[r].draft IN
    IF PageOne(r) THEN [d EXCEPT !.pinned = d.boosted \cap Public, !.boosted = {}]
                  ELSE [d EXCEPT !.held = {}]

CacheWith(f, page) ==
    [g \in DOMAIN cache \cup {f} |-> IF g = f THEN page ELSE cache[g]]

(* Mutant: everybody's first page is cached.                               *)
AnswerAndShare(r) ==
    /\ AtR(r, "answer")
    /\ Show(r, Cards(r))
    /\ cache' = IF PageOne(r) THEN CacheWith(reader[r].feed, Cards(r)) ELSE cache
    /\ UNCHANGED <<table, writer, opens, resurfaced>>

(* Page one is cached for those who are not signed in.                     *)
AnswerPage(r) ==
    /\ AtR(r, "answer")
    /\ Show(r, Cards(r))
    /\ cache' = IF PageOne(r) /\ ~reader[r].member
                THEN CacheWith(reader[r].feed, Cards(r)) ELSE cache
    /\ UNCHANGED <<table, writer, opens, resurfaced>>

-----------------------------------------------------------------------------
(* Writers.                                                                *)

AtW(w, stage) == writer[w].stage = stage

Turn(w, stage, p) ==
    writer' = [writer EXCEPT ![w].stage = stage, ![w].prompt = p]

Room == Len(prompts) < MaxPrompts
Insert(c, state) == prompts' = Append(prompts, [category |-> c, state |-> state])

(* Mutant: the boost is set inside the transaction, which rolls back.      *)
BoostAndRollBack(w, c) ==
    /\ AtW(w, "idle") /\ Room
    /\ boosts' = Append(boosts, Len(prompts) + 1)
    /\ UNCHANGED <<prompts, cache, reader, writer, opens, resurfaced>>

(* create: the row has its place in the feed before anybody can see it.    *)
BeginCreate(w, c) ==
    /\ AtW(w, "idle") /\ Room
    /\ Insert(c, "pending")
    /\ Turn(w, "commit", Len(prompts) + 1)
    /\ UNCHANGED <<boosts, cache, reader, opens, resurfaced>>

CommitCreate(w, visibility) ==
    /\ AtW(w, "commit")
    /\ prompts' = [prompts EXCEPT ![writer[w].prompt].state = visibility]
    /\ Turn(w, "boost", writer[w].prompt)
    /\ UNCHANGED <<boosts, cache, reader, opens, resurfaced>>

(* ZADD moves an entry that is there.                                      *)
Others(w) == RemoveFirst(boosts, writer[w].prompt)

(* While the platform is young, for 48 hours: the last to expire.          *)
Boost(w, early) ==
    /\ AtW(w, "boost")
    /\ boosts' = IF early THEN Append(Others(w), writer[w].prompt) ELSE boosts
    /\ Turn(w, "keys", writer[w].prompt)
    /\ UNCHANGED <<prompts, cache, reader, opens, resurfaced>>

(* spawnOverflowRoom: a copy of a public prompt, committed at once.        *)
CloneRoom(w, p) ==
    /\ AtW(w, "idle") /\ Room
    /\ p \in Public
    /\ Insert(prompts[p].category, "PUBLIC")
    /\ Turn(w, "keys", Len(prompts) + 1)
    /\ UNCHANGED <<boosts, cache, reader, opens, resurfaced>>

(* resurfaceOlder, one prompt at a time, for 24 hours: anywhere among the  *)
(* others.                                                                 *)
PickOlder(w, p) ==
    /\ AtW(w, "idle")
    /\ resurfaced < MaxResurfaced
    /\ resurfaced' = resurfaced + 1
    /\ p \in Public \ ToSet(boosts)
    /\ Turn(w, "repin", p)
    /\ UNCHANGED <<table, cache, reader, opens>>

Repin(w) ==
    /\ AtW(w, "repin")
    /\ \E i \in 1 .. Len(Others(w)) + 1 :
          boosts' = InsertAt(Others(w), i, writer[w].prompt)
    /\ Turn(w, "keys", writer[w].prompt)
    /\ UNCHANGED <<prompts, cache, reader, opens, resurfaced>>

(* The first pages that are cached are listed, then deleted.               *)
ListKeys(w) ==
    /\ AtW(w, "keys")
    /\ writer' = [writer EXCEPT ![w] =
           IF DOMAIN cache = {} THEN NoWrite
           ELSE [stage |-> "del", prompt |-> writer[w].prompt, keys |-> DOMAIN cache]]
    /\ UNCHANGED <<table, cache, reader, opens, resurfaced>>

DeleteKeys(w) ==
    /\ AtW(w, "del")
    /\ cache' = Restrict(cache, DOMAIN cache \ writer[w].keys)
    /\ writer' = [writer EXCEPT ![w] = NoWrite]
    /\ UNCHANGED <<table, reader, opens, resurfaced>>

(* Time: a boost ends, a cached page reaches its 30 seconds.               *)
BoostEnds ==
    /\ boosts # <<>>
    /\ boosts' = Tail(boosts)
    /\ UNCHANGED <<prompts, cache, reader, writer, opens, resurfaced>>

CacheExpires(f) ==
    /\ f \in DOMAIN cache
    /\ cache' = Restrict(cache, DOMAIN cache \ {f})
    /\ UNCHANGED <<table, reader, writer, opens, resurfaced>>

-----------------------------------------------------------------------------

Read(r) ==
    \/ LoadMore(r) \/ ReadCache(r) \/ ReadBoosts(r) \/ ReadLive(r)
    \/ ReadPersonal(r) \/ ReadRows(r) \/ AnswerPage(r)

Write(w) ==
    \/ \E c \in Categories : BeginCreate(w, c)
    \/ \E v \in {"PUBLIC", "PRIVATE"} : CommitCreate(w, v)
    \/ \E early \in BOOLEAN : Boost(w, early)
    \/ \E p \in DOMAIN prompts : CloneRoom(w, p) \/ PickOlder(w, p)
    \/ Repin(w) \/ ListKeys(w) \/ DeleteKeys(w)

Next ==
    \/ \E r \in Readers :
        \/ \E f \in Feeds, member \in BOOLEAN : OpenFeed(r, f, member)
        \/ Read(r)
    \/ \E w \in Writers : Write(w)
    \/ BoostEnds \/ \E f \in Feeds : CacheExpires(f)

Spec == Init /\ [][Next]_vars

-----------------------------------------------------------------------------
(* Properties.                                                             *)

Shown(page) == page.pinned \cup page.live \cup page.personal \cup page.stream
Items(r) == UNION {Shown(reader[r].pages[i]) : i \in DOMAIN reader[r].pages}

(* Prompts that are published, boosted or become visible late while        *)
(* somebody reads do not shift his pages: each one goes on below the one   *)
(* before, whatever happened between them.  (Page one of "hot" has an      *)
(* order of its own.)  And page one shows no prompt twice, though its four *)
(* parts are read one after the other.                                     *)
PagesAdvance ==
    \A r \in Readers : \A i \in DOMAIN reader[r].pages :
        LET page == reader[r].pages[i] IN
        /\ i > 1 \/ reader[r].feed.sort = "new" =>
            \A j \in DOMAIN reader[r].pages : i < j =>
                \A p \in page.stream, q \in reader[r].pages[j].stream : q < p
        /\ Cardinality(Shown(page)) =
            Cardinality(page.pinned) + Cardinality(page.live)
                + Cardinality(page.personal) + Cardinality(page.stream)

(* Whoever reads "new" to the end has seen every prompt that was there     *)
(* when he began, but for those boosted while he read.                     *)
NothingSkipped ==
    \A r \in Readers :
        LET pages == reader[r].pages IN
        reader[r].feed.sort = "new" /\ pages # <<>> /\ Last(pages).next = 0 =>
            pages[1].held \subseteq
                Items(r) \cup UNION {pages[i].boosted : i \in 2 .. Len(pages)}

(* Nobody is shown what the server picked for somebody else: the shared    *)
(* first page carries no picks, whoever caused it to be computed.          *)
PicksStayPrivate ==
    \A r \in Readers : ~reader[r].member =>
        \A i \in DOMAIN reader[r].pages : reader[r].pages[i].personal = {}

=============================================================================
