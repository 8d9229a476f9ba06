# Chatrooms101 in TLA+

A specification of the parts of chatrooms101 that are hard to test: the seats
and the waiting queue of a room, the page that shows them, the conversation, the
accounts and sign-in sessions of its readers, the connections whose end gives a
seat back, the feed that leads to the rooms, the rooms that open when others are
full, and the prompts that the system itself publishes. The modules are
translated from the code under `src/`; every file and line below is there. TLC
checks small instances. TLAPS proves, for every number of profiles, requests,
readers, pods or prompts, every invariant those checks ask for: of the seats and
their queue, the room's page, the conversation, the sign-in sessions, the
accounts, the connections and the sweeper, the feed, the overflow of rooms, and
the prompts of the system. What TLC alone checks is that things happen in the
end.

## 1. The system

A NestJS API (`apps/api`) with any number of pods, stateless but for sockets,
over Postgres (Prisma) and Redis; a Next.js site (`apps/web`); type
declarations shared by both (`packages/contracts`).

| Component | State | Operations | Works with |
|---|---|---|---|
| Room seats and queue (`chatrooms.service.ts`, Lua scripts in `redis.service.ts`) | Redis: member set, queue ZSET, `cr:block`, `cr:mute`, `cr:activerooms`. Postgres: `Participant`, `WaitingQueueEntry`, `roomsJoined` | join, leave, enqueue, cancelQueue, kick, mute; admission after a leave | gateway (broadcasts), sweeper (`releaseSeat`, `cancelQueue`), messages (`assertSeated`) |
| Messages (`messages.service.ts`) and the page's cache (`use-chat-room.ts`) | `Message`, `Reaction`; Redis burst and message counters; the React Query cache | send, edit, delete, react, pin, history; broadcasts that patch the cache | counter worker, gateway |
| Counter worker (`counters.service.ts`) | `Prompt.messageCount` | every 30 s: GETDEL each counter, add it to the prompt | messages, feed |
| Sessions (`token.service.ts`, `auth.service.ts`, `stores/auth.ts`, `lib/api.ts`) | `RefreshToken`; the refresh cookie; the access token of each tab | login, refresh with rotation, logout, silent restore, retry after a 401 | every authenticated call, the socket handshake |
| Connections (`chat.gateway.ts`) and the seat sweeper (`sweeper.service.ts`) | sockets; `cr:sweepq`; `cr:lock:sweeper` | connect, disconnect, and every 15 s a tick over the profiles that are due | seats and queue |
| Prompts and feed (`prompts.service.ts`, `use-infinite-feed.ts`) | `Prompt`; `cr:boost`; first-page caches | create, feed pages, trending, bookmarks | seats (occupancy), workers |
| Overflow rooms (`chatrooms.service.ts:337-474`) | `Prompt`, `Topic`, `Chatroom` | a join that fills a room clones it | seats, feed |
| The room's page (`use-chat-room.ts`, `chat-room.tsx`, `room-full-dialog.tsx`, `chat.gateway.ts`) | the cached room, the full dialog and the place in it, the online profiles; the socket's channels; Redis `online` set | load, auto-join, queue, leave; `JOIN_ROOM`, `LEAVE_ROOM`; events of members, presence, queue, admission | seats (every request), connections |
| Accounts (`auth.service.ts`, `verification.service.ts`, the forms, `stores/auth.ts`) | `User`, `AnonymousProfile`, `cr:verify:<token>`; each page's auth store | sign up, log in, Google sign-in and linking, claim a name, confirm an address, resend | sessions, verified guard |
| Daily prompts (`daily-prompts.service.ts`) and the seed (`prisma/seed.ts`) | `cr:daily:<date>`, `cr:boost`, the system account's prompts | a tick every half hour on each pod; the seed on every start | feed, search |
| Search (`search.service.ts`, `search.module.ts`) | the engine's indexes | index a new prompt, rebuild, query with fallback | prompts |
| Trend decay (`trends.service.ts`) | scores | timed ticks | feed |
| Topics, users, reports, notifications, statistics, administration | one table each | reads, single-row writes | |
| Other web pages, guards, pipes, configuration, infrastructure | none of their own | | |

What is hard, and what each part must guarantee:

* **Seats.** Requests of many profiles on many pods interleave at every
  `await`; only a Lua script is atomic. A leave reads the head of the queue and
  admits it four calls later; Redis and Postgres are written one after the
  other and either write may be the last. It must never seat more profiles than
  there are seats, keep the queue in order, hand a freed seat on, count a
  join once, and end with the two stores in agreement.
* **Conversation.** A write and its broadcast are two steps, of handlers on
  different pods; the reader's page has three sources for one message
  (optimistic row, echo, history) and refetches nothing. It must show each
  message once and as the server has it; counters must neither lose nor
  repeat; a throttled sender must be released.
* **Sessions.** Rotation is read, check, revoke, insert; the browser has one
  cookie and many tabs. One sign-in must have one live token, an honest browser
  must not look like a thief, and a restore must end.
* **Presence.** Connect and disconnect are events of different sockets, the
  sweeper works from lists it read earlier, under a lock that only time
  releases. An abandoned seat must be given up, a used one must not.
* **Feed.** A page is put together from the boosts, the live rooms, the
  viewer's picks and the keyset query, read one after the other while prompts
  are published and boosts begin and end; its first page is shared by
  everybody. Pages must neither overlap nor skip, and nobody may be shown
  another's picks.
* **Overflow.** A join that fills a room starts a check nobody waits for; many
  of them look at the same rooms and then create one. The subject must stay
  joinable, and must not be copied without end.
* **The room's page.** What it shows comes from a cached query, from the answers
  of its own requests and from events about what others did; the three arrive in
  any order. Who has a seat must come to see and receive the chat, the green
  dots must be right, and a place in line must not be a promise nobody keeps.
* **Accounts.** Every handler looks first and writes a query, a password hash or
  a mail later; Google and password meet in one address; guards read the claims
  of a token issued before. Identities must stay distinct, a confirmation must
  have been earned, a link must not be wasted, and a page must learn what its
  own user has just done.
* **Publishing.** Pods, retries after errors and deployments all insert the
  system's prompts by title without a unique key; the search index is written
  without waiting. A title must appear once, every day must be served, and a
  search must not lose or leak.

The hazards of the code, each at its line, with the properties that watch it or
the reason none does, are the `hazards` of `PROJECT.json`.

## 2. Modules

| Module | Models | Notes |
|---|---|---|
| `WaitingLine` | sequences as the queue ZSET | `Places`: where `ZADD NX` with a pod's clock may put a newcomer, `Skew` places from the end |
| `SeatBook` | what a room promises | abstract: seats and a line, four trades |
| `RoomSeats` | the room's requests | the detailed specification; refines `SeatBook` |
| `RoomSeatsProofs` | theorems about `RoomSeats` | |
| `RoomChat` | messages, counters, one reader's page | |
| `RoomChatProofs` | theorems about `RoomChat` and `SteadySpec` | |
| `Sessions` | tokens, cookie, tabs | |
| `SessionsProofs` | theorems about `Sessions` | |
| `Presence` | sockets, sweep queue, sweeper, one room | uses `WaitingLine`; a room's requests are one step each |
| `PresenceProofs` | theorems about `Presence` | |
| `Feed` | prompts, boosts, first-page cache, the lists of readers | |
| `FeedProofs` | theorems about `Feed` and about `Overflow` | the two ways into a room; `Overflow` prefixes its specification (`OverflowInit`, `OverflowSpec`) so that both fit in one module |
| `Overflow` | the rooms of one subject and the joins that fill them | |
| `RoomPage` | the room's page, its requests, its socket and the online set | uses `WaitingLine`; the seats' insides are `RoomSeats` |
| `RoomPageProofs` | theorems about `RoomPage` | |
| `Accounts` | sign-up, sign-in, names, confirmation, what pages know | rotation of tokens is `Sessions` |
| `AccountsProofs` | theorems about `Accounts` | |
| `SearchIndex` | the prompt documents of the search engine | extended by `Publishing` |
| `Publishing` | the daily worker and the seed | |
| `PublishingProofs` | theorems about `Publishing` | |
| `MCRoomSeats`, `MCRoomChat`, `MCPresence`, `MCFeed`, `MCOverflow`, `MCRoomPage`, `MCAccounts`, `MCPublishing` | instances for TLC | symmetry and the restricted specifications of section 4 |

**Conventions.** A handler is a record with a `stage`: the `await` it has
reached. One action is what runs from one `await` to the next, named after
the function or the call (`TryJoinRoom`, `RevokePresented`, `ReadDue`); its
guards are the code's conditions, `Finish` is a `return` or a `throw`. A Lua
script, one SQL statement and one Redis command are atomic, as their servers
make them. Definitions headed "Mutant" are plausible bugs; the project shows
that each property notices one, no specification uses them.

### Seats: `RoomSeats`

`members` and `queue` are the member set and the ZSET, `blocked` the
`cr:block` keys, `activeCount` the room's score in `cr:activerooms`;
`participant`, `entries` and `roomsJoined` are the Postgres side. `entries[p]`
is the *set* of statuses of p's rows, because the table has a unique key on
(room, profile, status): at most one row for each, and an update to a status
that exists already is refused (P2002) and ends the handler. `req[r]` is a
request in flight. `Receive` is the controller, and each kind walks:

* join: `AssertNotBlocked`, `TryJoinRoom`, `FindParticipant`, `CreateParticipant`
  or `ReviveParticipant`, `CountMembers`, `IndexActivity`
* enqueue: `AssertNotBlocked`, `EnqueueWaiting`, then as a join or `MirrorEntry`
* cancel: `LeaveLine`, `ResolveEntry`
* leave: `LeaveAndPromote`, `CloseParticipant`, `CountMembers`, `IndexActivity`,
  and the admission of the head it read
* kick: `AuthorizeKick`, `BlockProfile`, then as a leave
* admit: `TryJoinRoom`, persist, `ResolveEntry`, count

`Fail` drops the rest of any handler: the pod died or a call threw. Broadcasts
are left out: they change no state of the room. Muting writes a key that only
`RoomChat` reads. The room is one with an owner, as `PromptsService.create`
makes it, and its row stays ACTIVE: no code closes a room. The fire-and-forget
clone of a full room (`join`, line 195) touches other rooms only and is
`Overflow`.

### Conversation: `RoomChat`

`rows`, `reactions`, `bursts` and `pending` are the server's stores; `carried`
is what each flush has taken and not yet stored; `inbox` holds broadcasts on
their way to one reader in order; `subscribed`, `history`, `page` and `items`
are his socket and his cache. Texts are named by the request that wrote them.
There is one emoji. `Guard` may refuse at any time, since seats and mutes
change elsewhere. History is one page.

### Sessions: `Sessions`

`tokens` are the rows in order of issue, each with the sign-in (`login`) it goes
back to; `cookie` is the browser's; `tab` is the auth store of each tab, with
`flight` for `refreshInFlight` and `query` for an `api()` call that waits for
it. `call` is a `POST /auth/refresh`: `FindToken`, `RevokePresented`,
`IssueNext`, `CheckAccount`, `Grant` or `Refuse`; a revoked token goes to
`RevokeFamily`. An answer that nobody waits for any more is discarded.

### Presence: `Presence`

`socket[<<p, t>>]` is a connection as the server sees it: `connecting` has passed
the handshake and not yet run `handleConnection`, `closing` has ended and not
yet run `handleDisconnect`. The sweep queue is split by time into `grace` and
`due`. `tick[w]` is a sweeper: `ReadDue`, then for each profile `ReadSeats`,
`CheckSeat`, `ReleaseSeat`, `AdmitNext`, `ReadWaiting`, `CancelWaiting`,
`Unschedule`. Room requests are single actions here, because their insides are
`RoomSeats`; `LeaveAborted` is the one that dies after its script, which leaves
the stale row that `CheckSeat` closes.

### Feed: `Feed`

A prompt is its place in the order (createdAt, id), so the cursor of a page is
the place of its last row. `prompts` is the table, with rows that are `pending`
until `create`'s transaction commits; `boosts` is `cr:boost` by expiry; `cache`
holds the `cr:cache:feed:*` keys. A reader's list (`pages`) grows by `OpenFeed`
and `LoadMore`; one request of his walks `ReadCache`, `ReadBoosts`, `ReadLive`,
`ReadPersonal`, `ReadRows`, `AnswerPage`, as far as its page and his sign-in
have them. `Picks` chooses the live and the personal block freely: who sits
where and what somebody prefers changes at any time. So is page one of "hot"
free, since scores are not modelled. A page keeps its blocks apart, and two
things the answer has not: what the feed held when it was read (`held`) and
what a later page left out as boosted. Writers are `create` (`BeginCreate`,
`CommitCreate`, `Boost`), the clone of a full room, and the daily worker's
`resurfaceOlder`, one prompt at a time; each ends with `ListKeys` and
`DeleteKeys`.

### Overflow: `Overflow`

`seated` counts the members of each room of one subject, `number` is the
`-room-<n>` of a topic's slug. A join takes its seat (`TakeSeat`, also for
somebody who sits there already), counts (`CountSeats`), and what it starts goes
on alone: `Recount` and `FindSiblings`, `CountSibling` for each of them,
`CreateCopy`. `Considered` is `take: 20`: of many copies of a prompt the query
returns some. The number of a new topic room is the count of those found plus
one, and the unique slug refuses the second of two. `SeatDirectly` is a seat
given by `enqueue` or an admission, which start no check.

### The room's page: `RoomPage`

`page[p]` is a profile's page: the room it shows, what it has asked for
(`fetch`), whether the auto-join was tried, the dialog (`full`, `place`) and the
green dots (`shown`). `up[p]` is what its socket has sent, `down[p]` what is on
its way to it, both in order; `inRoom` is who receives the room's channel,
`online` the Redis set. `call` is a request, or the handler that goes on behind
one: a leave serves its request and then admits (`Admit`) and tells the rest of
the line (`Tell`). The read of a room is two steps: when the server answers
(`ReadRoom`) and when the page shows it (`ShowRoom`). The socket handlers of the
hook exist only while the page shows the chat, so an event that arrives earlier
is lost, as in the code. The database's side of a request is one step. `twice`
is history: who was given a seat by the queue request while he kept his place.

### Accounts: `Accounts`

`users` are the rows with their profile's name; `links` the `cr:verify` keys in
order of issue. `form[b]` is the submission a browser waits for and walks the
awaits of its handler (`FindTaken`, `CreateByPassword`; `FindByGoogle`,
`FindToLink`, `LinkGoogle` or `CreateByGoogle`; `FindProfile`, `CreateProfile`);
what it read is kept in `user` and `saw` and acted on later. A create that meets
a unique key is refused. `flight[b]` is its `POST /auth/refresh`: `ReadAccount`
is the last read, `Restored` the arrival. `click[c]` is a `GET /auth/verify`:
`OpenLink`, `TakeLink` (GETDEL), `MarkVerified`, and `Bounce` to whatever browser
reads the mail. `page[b].saw` are the claims of the token in hand, which `Post`
is guarded by. `opened` and `promoted` are history: what counts as a proof.
A Google account's address does not change; a mail that is lost is a link nobody
opens; each browser has one tab.

### Publishing: `Publishing`, `SearchIndex`

`tick[p]` is a pod's tick (`ClaimDay`, `FindSystem`, `FindExisting`, `PostNext`
and `BoostPosted` prompt by prompt, `ResurfaceOlder`, `BustFeedCaches`,
`ReleaseClaim` after an error); `seed` is a start's seed, which looks each title
up and fills the gap in two steps. `Pool`, `Bank`, `Top` and `Retired` are
lists of titles that share none, as in the code. `SearchIndex` has the documents,
the writes on their way, and the rebuild.

## 3. Runs

| Run | Checks | Instance |
|---|---|---|
| `RoomSeats` | `TypeOK`, `CapacityNeverExceeded`, `JoinCountedOnce`, `ImplementsSeatBook` | 4 profiles, 2 seats (owner and one more seated), 2 requests in flight and 4 in all, clocks one place apart, one failure (2.2 million states) |
| `RoomSeatsOrderly` | `NextWaiterAdmitted`, `RowsMatchSeats`, `SeatHandedOn`, `KickedStaysOut` | the same room under `OrderlySpec`, no failure (489,000 states) |
| `RoomChat` | `TypeOK`, `ShownOnce`, `MessagesCounted`, `BurstExpires` | 2 message handlers and 2 requests, one flush, a reader; 2 lost sockets or reloads, one failure (153,000 states) |
| `RoomChatSteady` | `ViewIsCurrent` | `SteadySpec`: 3 requests, one reload, no failure (649,000 states) |
| `Sessions` | `TypeOK`, `NoSpuriousReuse`, `OneLiveToken`, `RestoreSettles` | 1 tab, 2 refresh calls, 4 tokens, 2 page loads, one failure, one hasty act (425,000 states) |
| `Presence` | `TypeOK`, `ScheduleFollowsPresence`, `AbandonedGivenUp` | `OnceSpec`: 3 profiles, one seat, one tab each, one sweeper, one failure (317,000 states) |
| `Feed` | `TypeOK`, `PagesAdvance`, `NothingSkipped`, `PicksStayPrivate` | one reader who opens two lists, one writer, 2 prompts and a third published meanwhile, 2 categories, pages and blocks of one prompt (3.4 million states) |
| `Overflow` | `OverflowTypeOK`, `StaysJoinable`, `OneSpareTopic` | 3 joins whose checks overlap, rooms crowded at 2, 4 rooms, one leave, one seat given directly (2.9 million states) |
| `RoomPage` | `TypeOK`, `SeatReachesPage`, `PresenceAgrees`, `PlaceIsHonest` | one seat; its holder, one in line and a visitor; 3 requests, one kick or lost connection, one page opened again (3.5 million states) |
| `Accounts` | `TypeOK`, `IdentitiesDistinct`, `ConfirmedByProof`, `LinkTakesEffect`, `PageCatchesUp` | two browsers, two addresses, one of them a Google account's, one account to begin with, names `wolf`, `Wolf`, `fox` and a reserved one; 3 forms, one link with two clicks, one load, one mishap (3.2 million states) |
| `Publishing` | `TypeOK`, `PostedAsPlanned`, `SearchSound`, `DayServed` | two pods, two days of two prompts from a pool of three; a seed with one title in the bank, one on top, one retired; one user's private prompt, one failure, one rebuild (1.1 million states) |
| `FoundSweptWhileOnline` | `SweptOnlyOffline` is violated | one profile, two tabs |

**Why the bounds are enough.** `RoomSeats`: a race for a seat needs two
requests, a seat to free, a waiter to take it and somebody to be faster, which
four profiles give; four requests let a profile leave, line up, be admitted
and act again. `Skew = 1` is two pods whose clocks order two newcomers the
other way round. `RoomChat`: every race of the conversation is of two handlers
over one message, or of one handler and the page's loading; the third request
of `RoomChatSteady` lets a third writer meet what the two left behind.
`Sessions`: two calls are the one the tab still waits for and the one it has
given up by a reload; four tokens are a sign-in, two rotations and a second
sign-in. `Presence`: one seat has a holder, a waiter and a visitor (`Steady`)
who comes in between. `Feed`: three prompts and pages of one make lists of
three pages; each of the two lists may be of either sort and category, signed
in or not, so the second may be answered from the page the first has cached; a
prompt may be published, boosted or pinned again between any two reads.
`Overflow`: two joins race for a copy, the third arrives in the room the first
of them has created; with a second leave as well the run still passes (8.2
million states). `RoomPage`: one seat and three profiles are a holder, one who
can be admitted behind his back and one whose join meets a full room; three
requests are a leave, an admission's beneficiary acting, and a third that
crosses either; one trouble is a kick or a lost connection. `Accounts`: every
race is of two submissions (two browsers) or two clicks, over one address, one
Google account and names that differ in case only. `Publishing`: two pods claim a day at once,
a tick may fail and be retried by the other, the second day finds the pool short,
and the seed runs beside both.

The requests, tokens, loads, lost sockets and failures of a run are counted
and bounded by guards (`MaxRequests`, `MaxTokens`, `MaxLoads`, `MaxDrops`,
`MaxFailures`, `MaxHasty`, `MaxPrompts`, `MaxOpens`, `MaxResurfaced`,
`MaxRooms`, `MaxCrowd`, `MaxLeaves`, `MaxDirect`, `MaxMoves`, `MaxTroubles`,
`MaxVisits`, `MaxLinks`, `MaxSubmits`, `MaxMishaps`, `MaxSeeds`, `MaxOwn`,
`MaxRebuilds`). When they are used up the system stops, so the
configurations say `CHECK_DEADLOCK FALSE`; that nothing waits forever is asked
by `SeatHandedOn`, `RestoreSettles`, `AbandonedGivenUp` and `DayServed`. Symmetry is used
only in runs without liveness.

## 4. Conditions

Some properties hold only under conditions the code relies on and does not
enforce. Each is a named restriction of the next-state relation or a
hypothesis of the property; a violation run or section 7 says what happens
without it.

* `OrderlyArrival` (`MCRoomSeats`): one leave or kick is in flight at a time,
  and a profile's requests come one after the other, except a join that is
  sent twice. A join and a leave of one profile that overlap leave a live row
  without a seat or the reverse. Asking again for a place in line one has may
  give a seat and keep the place. Nobody is kicked while he stands in the queue:
  a kick leaves him in it, and the admission does not look at his block.
* `SteadyNext` (`MCRoomChat`): the room is quiet while the page loads and
  subscribes, the socket holds, no handler dies, and two requests of one kind for one message do not overlap.
  Without the first, a message is missing from the page. Without the second, two
  edits or two toggles may be stored in one order and broadcast in the other.
* `Undisturbed` and `hasty = 0` (in the properties of `Sessions`): no answer is
  lost, the account stays active, nobody signs in or out while a refresh is
  under way. A lost answer leaves the browser with a revoked cookie.
  One tab is a condition of the configuration.
* `Calm` (`MCPresence`): a tick is over before its lock of ten seconds expires,
  and nobody whom a tick has on its list comes back or is admitted meanwhile.
  `OnceNext` adds that nobody lines up again after an admission or a
  cancellation; one tab each is again a condition of the configuration
  (`FoundSweptWhileOnline` with two).
* `direct = 0` (in `StaysJoinable`): every seat was taken by a join. One that
  `enqueue` or an admission gives may fill the last room without a check.
* `leaves = 0` (in `OneSpareTopic`): a room that was crowded when the copy was
  made may have space again.
* `NothingSkipped` is about the "new" feed, and does not count prompts that were
  boosted when a later page was read: they are on page one of whoever opens the
  feed now.
* `RoomPage`: one tab per profile; the handlers of one socket do not overlap
  (`JOIN_ROOM` is over before `LEAVE_ROOM` starts); removals are served one at a
  time; presence is broadcast in the order in which it was read; a page is opened
  again when what was on its way to it has arrived and its request has ended.
  A page that lost its connection (`missed`, `dropped`) is exempt from what it
  could not hear, and `PlaceIsHonest` from a page opened on what an earlier
  visit cached (`kept`) and from one who was removed. `SeatReachesPage` does not
  promise the chat to one who was given a seat while he kept his place in line
  (`twice`; section 7).
* `joined` (in `PageCatchesUp`): a claim that joins a refresh already on its way
  may get what was read before it.
* `Publishing`: one seed at a time, and a tick ends on the day it began
  (`NextDay`); `PostedAsPlanned` counts a day's share only when nothing failed
  on it, `DayServed` not a day on which a pod died.

The runs `RoomSeats` and `RoomChat`, and the other properties of `Feed` and
`Accounts`, have no such condition.

## 5. Fairness

* `RoomSeats`: weak fairness of each request's next step. Node runs the
  continuation of every promise that settles, and Redis and Postgres answer.
  Requests are not fair: nobody has to ask for anything.
* `Sessions`: the same for each refresh call, including the arrival of its
  answer. Lost answers are `Fail`, which is bounded.
* `Presence`: handlers of sockets and ticks run to their end, time passes
  (`GraceEnds`, `LockExpires`), and some pod starts a tick (every 15 s each
  does). `LockExpires` is fair only once the tick is over, as `Calm` demands.
* `Publishing`: the timer of each pod fires again and again, and what a tick has
  begun goes on (`WF_vars(Step(p))`). A day may be over before its tick has had
  its turn; `DayServed` speaks of days that last.
* `RoomChat` has no liveness property: the page asks for nothing again, so what
  it must reach is stated at rest (`ViewIsCurrent`). So it is for `RoomPage`
  (`Quiet`) and `Overflow` (`StaysJoinable`). `Feed`'s reader decides how far he
  reads, and in `Accounts` nothing has to be asked for.

## 6. Proofs

`RoomSeatsProofs` proves, for any set of profiles that is finite, any capacity
and any number of requests (`ProfilesAssumption`, `CapacityAssumption` and the
assumptions on `Owner`, `Seated` and the bounds next to them in `RoomSeats`):

| Theorem | States |
|---|---|
| `TypeCorrect` | `Spec => []TypeOK` |
| `CapacitySafe` | `Spec => []CapacityNeverExceeded` |
| `JoinCounted` | `Spec => []JoinCountedOnce` |
| `SeatsAreABook` | `Spec => ImplementsSeatBook` |
| `WaiterIsAdmitted` | `OrderlySpec => []NextWaiterAdmitted` |
| `RowsFollowSeats` | `OrderlySpec => []RowsMatchSeats` |
| `KickedIsKeptOut` | `OrderlySpec => KickedStaysOut` |

The inductive invariant is `SeatInv`, the conjunction of `DataOK` (the stores
have their types), `RequestsOK` (so has each request, and one in flight is about
a profile), `CapacityNeverExceeded`, `JoinCountedOnce` and `RevivesARow`. Only
the last is new: a request that has found a row and is about to revive it acts
on what it read an `await` ago. If the row could be gone, reviving it would turn
"no row" into a live one without counting the join. It cannot, because no action
deletes a row, which `RowsStay` says of a step. There is
one lemma for each action (`TryJoinRoomInv`, `CreateParticipantInv`,
`LeaveAndPromoteInv`, ...), with one step for each conjunct the action can
disturb; `NextInv` puts them together and `AlwaysSeatInv` is the temporal step.

The refinement needs no further invariant: each step of `RoomSeats` that changes
`members` or `queue` is one `Trade` of `SeatBook`, and the others stutter. The
place an entry takes in line and the one it leaves are sequences by
`InsertType` and `WithoutType`.

The last three theorems are about `OrderlySpec`, whose steps are those of `Next`
that `OrderlyArrival` (section 4) lets begin and in which nothing fails; `SeatInv`
holds there as well. What they say of a room at rest follows from an invariant
about a room at work, `OrderInv`: wherever Postgres and Redis differ there is a
handler that is about to write the row (`RowsOK`), and a free seat somebody waits
for is the only one, with its admission on its way (`FreeOK`). For the handler to
be still right when it writes, nobody else may move its profile meanwhile. That
is what the orderly arrival buys (`AloneOK`, one removal at a time in `FlowOK`),
together with what a handler relies on between its awaits: who stands in line
has no seat and no block (`LineOK`), who persists a seat has it (`SeatedOK`), and
who is past the check of the block is not blocked (`BlockOK`). The head a leave
has read is still without a seat when the admission comes, since only a removal
gives seats to the line and there is no other. Each action has a lemma that
states its effect on one request (`Moves`, `Ends`) and one for each part of
`OrderInv` it disturbs.

`RoomChatProofs` proves, for any members and moderators of the room, any finite
set of handlers and pods, and any bounds:

| Theorem | States |
|---|---|
| `ChatTypeCorrect` | `Spec => []TypeOK` |
| `MessageShownOnce` | `Spec => []ShownOnce` |
| `MessagesAreCounted` | `Spec => []MessagesCounted` |
| `BurstsExpire` | `Spec => []BurstExpires` |
| `PageIsCurrent` | `SteadySpec => []ViewIsCurrent` |

`ShownOnce` is inductive once nonces are known to be fresh: no handler, item or
broadcast carries one above the last given out, optimistic ids are negative, and
the answer of the history query holds each message once (`Numbered`). The
count is a sum over the places a message can be counted in. `CountedInv` adds
the one that is missing from the property, the handlers which have written a row
and not yet incremented the counter (`Emitting`); then every action moves at most
one place's content to another, and a failure only loses. `BurstInv` names, for
each burst counter without an expiry, the handler about to set it.

`PageIsCurrent` speaks of a page and a server at rest; its invariant `ViewInv`
says what a page is worth while broadcasts are on their way. Each field of each
message is settled by the last broadcast in `inbox` that sets it, or by the cache
when none does, and that last word is what the server has stored, unless a handler
has changed the row and not announced it yet (`Says`, `LastWord`, `Owes`). A patch
changes only a message the cache holds, so every row is in the cache, or a
creation in `inbox` brings it, or a handler is about to announce it (`ShownOK`);
`prependMessage` may throw out what has the same nonce, so a nonce must name one
message (`NonceOK`). What a handler announces is what it wrote or counted
(`EmitOK`), and a reaction event's `added` is right for the reader since a toggle
finds the one reaction of its author or none (`ReactOK`). This is where the
conditions of `SteadySpec` are used: two requests of one kind for one message do not
overlap (`ApartOK`), and the room is quiet while the page loads and subscribes
(`PhaseOK`), so that neither history nor a gap in the broadcasts is older than what
the page already has. `AppendView`, `UpdateView`, `ToggleView`, `AnnounceView`,
`DeliverView`, `ArriveView`, `LoadingView` and `MovesView` take the actions one by
one, `LastWordAdded` and `LastWordDelivered` the two ends of the queue. A deleted
message keeps no promise about its text and pin (`Hidden`): a late pin may still
show on it, which is why the property asks only for its deletion.

`PresenceProofs` proves, for any profiles, pods, capacity and bounds:

| Theorem | States |
|---|---|
| `PresenceTypeCorrect` | `Spec => []TypeOK` |
| `NobodyIsForgotten` | `OnceSpec => []ScheduleFollowsPresence`, for one tab each |

`OneTab` is the condition of section 4: with two tabs both halves of the property
fail. A profile with a second connection may be swept while online; and one that
is being swept when its other tab closes has its new schedule dropped by the
`ZREM` at the end of the tick. The invariant `PresenceInv` says that an open
socket keeps its profile off the list (`SocketInv`), who is gone with a seat or a
place is on it (`SeatInv`), Redis and Postgres agree as far as the sweeper looks
(`RoomInv`: it releases what `Participant` says and cancels what `WaitingQueueEntry`
says), one tick runs at a time (`LockInv`), those it has read are gone and stay so
(`ListInv`), and after each of its steps the profile has lost what that step was to
take (`SweepInv`), so that it may be taken off the list at the end.

`FeedProofs` proves, for any readers, writers, categories and profiles, any page
and block sizes and any number of prompts:

| Theorem | States |
|---|---|
| `FeedTypeCorrect` | `Spec => []TypeOK` |
| `PagesGoOn` | `Spec => []PagesAdvance` |
| `ReadsItAll` | `Spec => []NothingSkipped` |
| `PicksAreHisOwn` | `Spec => []PicksStayPrivate` |

`FeedInv` states of a list of pages, of a page that is being put together
(`DraftOK`) and of every cached first page (`CacheOK`) what the cursor separates:
whatever the feed held when the first page was read is shown on a page, was
boosted then, or lies below the cursor. A prompt that is committed late lies
above or below it, but was not held; `WriterOK` says a row is committed once.
Cached pages have no personal block, which is all that keeps picks private: a
handler with a signed-in reader never comes to the cache.

About `Overflow` it proves, for any number of joins and any bounds, any size at
which a room counts as crowded that is at least two (`CrowdAssumption`: prompts
have 2 to 10 seats, topics are split at 50), and any number of copies looked at:

| Theorem | States |
|---|---|
| `OverflowTypeCorrect` | `OverflowSpec => []OverflowTypeOK`, with distinct slugs |
| `AlwaysSomewhere` | `OverflowSpec => []StaysJoinable` |
| `NoSpiral` | `OverflowSpec => []OneSpareTopic` |

Its inductive invariant `OverflowInv` is about what a check in flight knows. A
topic's rooms are numbered in the order they were created (`Numbered`), so a
check that found fewer siblings than there are now picks a number that is taken
and is refused. A check that found all of them is `Complete`, and every room it
has ruled out is crowded still (`RuledOut`): what it creates is the only room
with space (`OneOpen`). And whenever no room has space, some request is on its
way to a copy that nobody refuses (`CopyComing`): the join that took the last
seat has yet to count it. There is one lemma for each action;
`AdvanceInv` is what those have in common that only move a request on.

`PublishingProofs` proves, for any pool, bank, top and retired titles that share
none (`ListsAssumption`), any users' prompts, pods and bounds:

| Theorem | States |
|---|---|
| `PublishingTypeCorrect` | `Spec => []TypeOK` |
| `SystemPostsAsPlanned` | `Spec => []PostedAsPlanned` |
| `SearchIsSound` | `Spec => []SearchSound` |

`PostedAsPlanned` has two sources of rows. The seed looks a title up and fills the
gap later (`SeedInv`: the title it found missing has no row still, because the
lists share none and there is one seed); a tick holds the claim of its day, so
one pod works at a time and what it has yet to post has no row (`TickInv`).
`DayInv` adds up a day without trouble: what is posted and what the tick still
has to post are the day's share, or the pool is used up. `RebuiltInv` is all the
search needs: what a rebuild read is in the index, and rows only leave the table
into `gone`.

`AccountsProofs` proves, for any addresses, Google accounts, names, browsers and
clicks, any rows to begin with that keep the unique keys (`SettledAssumption`),
and any number of forms, links, loads and mishaps:

| Theorem | States |
|---|---|
| `AccountsTypeCorrect` | `Spec => []TypeOK` |
| `AccountsAreDistinct` | `Spec => []IdentitiesDistinct` |
| `ConfirmedAndNamed` | `Spec => []ConfirmedByProof` |
| `UsedLinksConfirm` | `Spec => []LinkTakesEffect` |
| `PagesCatchUp` | `Spec => []PageCatchesUp` |

The invariant `AccountsInv` is about what is remembered. Every page, form and
refresh carries an account and what it was told of it (`Known`), read some awaits
ago; that is true still because accounts are only added to: an address, a name
and a confirmation once there stay (`Grows`, by `StepGrows`). So a post that was
let through by an old token is by somebody confirmed and named now (`PostedOK`).
`FormOK` is what a handler has checked and acts on later, among it that a link
to a Google account is to the row with its address; `ClickOK` that a click has a
link it has opened, and reports a confirmation only of a confirmed account.
`AfterClaim` and `AfterTold` follow what a page was told through the refresh in
flight: one sent after the claim or the confirmation cannot have read the row
before. One lemma each for the rows (`StepRows`), the links and clicks
(`StepMail`), the posts (`StepPosted`) and the browsers (`StepBrowsers`): an
action changes one browser (`Elsewhere`), and there `StepAtForm`,
`StepSubmission`, `StepLoaded` or `StepSession` says what it does.

`SessionsProofs` proves, for any finite set of refresh calls and any bounds on
tokens, loads, failures and hasty acts (`TabsAssumption`,
`SessionBoundsAssumption`):

| Theorem | States |
|---|---|
| `SessionsTypeCorrect` | `Spec => []TypeOK`, for any tabs |
| `OneTabOneLiveToken` | `Spec => []OneLiveToken`, for one tab |
| `OneTabNoSpuriousReuse` | `Spec => []NoSpuriousReuse`, for one tab |

`OneTab` is the condition of section 4: with two tabs both properties fail. The
types need the numbering of the rows (`BookOK`): rows are issued in order, and
each refresh on its way has one left. Then `SessionInv` adds, in this order,
that there is one refresh at a time and its tab waits for it (`OneCall`: a tab
that leaves a refresh is hasty, one that signs in has none, `NoCallLeft`); that
the refresh about to revoke found its row active, and that between revoking and
issuing the session has no active row (`NoFork`), which is what makes the new
row the only one; and that, while nothing fails, the cookie is the active row or
none, except from the first write of a rotation to its answer (`CookieKept`).
One lemma for each part, `StepCalls`, `StepNoFork`, `StepCookie`, with a step
for each action.

`RoomPageProofs` proves, for any finite set of profiles, any capacity, whoever
is seated and in line at first (`SlotsAssumption`, `SeatsAssumption`,
`PageBoundsAssumption`: a line only beside a full room), and any number of
requests, kicks, lost connections and visits:

| Theorem | States |
|---|---|
| `TypesHold` | `Spec => []TypeOK` |
| `SeatsReachPages` | `Spec => []SeatReachesPage` |
| `PresenceAgreeing` | `Spec => []PresenceAgrees` |
| `PlacesAreHonest` | `Spec => []PlaceIsHonest` |

Three of the four speak of a room at rest. The inductive invariant
`RoomPageInv` says what is on its way when it is not. For each profile p,
`PageInv(p)` has:

* `WireOK`: the last signal its socket carries is the one that fits what the page
  shows, `JOIN_ROOM` for the chat and `LEAVE_ROOM` otherwise, and nobody joins
  twice without leaving. With `OnlineOK` and `ShownOK` (the last online list on
  its way to a page, or the one it shows, is the set as it is) this is
  `PresenceAgrees`.
* `SeatOK`: a seat the page does not show yet is being read, or about to be
  joined, or told of by an answer, an event or a handler that is still to tell
  (`Granted`, `HasIn`, `Told`). Conversely `GoneOK`: who receives the channel
  without a seat is about to read that it is gone, to hear of a change of members
  (which makes him read), or to be told that his own leave is done. `ReadOK`
  says that a seat that was read and is gone was given back or taken by a kick;
  `StaleOK` that such a page gets no other before it knows, neither from the line
  nor by a request, which is what `JoinOK` needs: the reread would show it
  nothing new and `JOIN_ROOM` would not be sent. This is where one who kept his
  place beside his seat (`RosterOK`) has to be left out.
* `HonestOK`: no place that is shown, cached, answered or on its way is smaller
  than the real one, which only gets smaller (`AtMost`, `AtLeast`). `OutsideOK`
  and `AnsweredOK`: one who neither sits nor waits and is not on his way out has
  nothing left, in the page or on the wire, that shows him a place.

The proof goes by who acts. What others do leaves p's page alone, moves him up
in line at most and only adds events (`Untouched`, `Passed`, `MoreHeard`; proved
once for every action as `OtherPage`, `OtherServer`, `OtherGateway`,
`OtherHandler`), and every conjunct survives that (`OthersInv`). Where p himself
acts or is served there is a lemma for each group of actions and conjuncts
(`OwnInv`), and one for the step that gives the head of the line his seat
(`EntersInv`).

Only model-checked: the liveness properties (`SeatHandedOn`, `RestoreSettles`,
`AbandonedGivenUp`, `DayServed`), which are outside what the prover does
(`ENABLED` and fairness), and the disagreement of `FoundSweptWhileOnline`, which
is a trace.

## 7. What the checks show

One statement of the repository has a run whose counterexample is a trace of the
code, and an entry under `findings` with the lines: closing one of two tabs dooms
the seat (`FoundSweptWhileOnline`; `chat.gateway.ts:139`).

Found by dropping a condition of section 4 from a passing run, which then fails:

* Two leaves at once admit one waiter and leave a seat idle, since both read the
  same head (`chatrooms.service.ts:206`; `docs/API.md:39` says the queue head is
  admitted): `NextWaiterAdmitted` under `Spec`.
* Two tabs that load together are taken for theft (`token.service.ts:86`, which
  lines 21-22 call the reuse of a stolen token): `NoSpuriousReuse` with two tabs.
* One profile the sweeper cannot process stops it for everybody behind
  (`sweeper.service.ts:92`; `README.md:47-49` has seats given up after the grace
  period): a profile that lines up again after it was admitted or has cancelled
  meets the unique key. `AbandonedGivenUp` without `OnceNext`.
* A kicked waiter is admitted during his block: `KickedStaysOut` under `Spec` in
  the instance of `RoomSeatsOrderly`, with one request. `chatrooms.service.ts:283`
  calls the kick a "forced leave + a 10-minute rejoin block so they can't bounce
  back".
* The page misses what is sent before it subscribes or while its socket is away,
  and never asks again: `ViewIsCurrent` under `Spec` in the instance of
  `RoomChatSteady`. `use-chat-room.ts:111` relies on the socket patches alone.
* A place in line that is kept beside a seat: the queue request of one who stands
  in line and finds a seat free is given it, and `enqueueWaiting` leaves him in
  the ZSET (`redis.service.ts:108-111`; `tryJoinRoom` takes him out). When he has
  given the seat back that place admits him again, while the page he opens again
  starts from the cached room with the old seat: it shows the chat, its
  `JOIN_ROOM` was refused, and the reread shows nothing new, so none follows. If
  he was kicked, the admission ignores his block and the auto-join is refused:
  a seat without a chat. `SeatReachesPage` without `twice`, with more requests
  and visits than the run of section 3 has; found because the invariant would not
  close without it.
* The last free room of a prompt fills by an admission or an enqueue, and no copy
  opens: `StaysJoinable` without `direct = 0`. Two overlapping checks give a
  *prompt* two copies: `OneSpareTopic` asked of prompts.

Seen while translating, and not claimed by a run:

* Seats: two overlapping `syncRoomActivity` may write the older count last, and
  the index of active rooms drifts until the next change.
* The page: after leaving the line, a page opened again within the life of its
  query cache shows "#1 in line" to somebody who is not in it
  (`room-full-dialog.tsx:11-14`; `joinQueue` that waits and `leaveQueue` never
  invalidate the room), and one who is in line may be offered the queue. A
  `ROOM_FULL` answer that arrives after `QUEUE_ADMITTED` leaves the dialog armed:
  shown again if the seat is lost. `JOIN_ROOM` is sent on taking the seat and on
  connecting, so a page whose seat was taken and given back unseen is deaf; one
  whose `LEAVE_ROOM` overtakes its `JOIN_ROOM` receives a room it has left.
  `handleDisconnect` says "Drop presence in every room" (`chat.gateway.ts:128`)
  and drops none; a lost `QUEUE_ADMITTED` is healed by opening the page again
  only; a second tab's `LEAVE_ROOM` takes the profile out of the online set. A
  refused send leaves its optimistic row.
* Accounts: two overlapping sign-ups of one address end in an unhandled P2002
  (500), not `EMAIL_TAKEN`; `auth.service.ts:206` names `usernameLower` alone,
  but `userId` is unique as well and gives the same answer;
  `auth.controller.ts:180` promises a fresh access token, which the handler does
  not return; a claim may join a refresh that read the account before it
  (`stores/auth.ts:99-106`); a socket keeps the `emailVerified` of its handshake;
  a link is used up by a handler that then fails; a logout during a refresh is
  undone by its answer; a suspended account's refresh leaves an active token
  nobody holds.
* Publishing: `start.sh:4` speaks of an empty database, the seed runs at every
  start; two seeds at once, or a tick across midnight, may post a title twice;
  after an error a day may get up to four more prompts, and the prompt whose
  boost failed is never pinned. The worker's and the seed's prompts are in no
  index until a rebuild, and a rebuild, called "repair" in `search.module.ts:49`,
  deletes no document. `create` and the clone clear `cr:cache:trending:12`
  (`chatrooms.service.ts:473`), which no page asks for
  (`prompts.controller.ts:28` has 9). `trends.service.ts:12` computes its
  half-life for one tick in ten minutes, and every pod ticks.
* Feed: a prompt whose boost ends, or that newer boosts push out of the cap,
  while somebody reads comes again further down, and so do live and personal
  picks; the second page of "hot" continues by age below a row chosen by score,
  so that younger prompts which did not score are passed over; a first page
  computed before a create may be cached after the create has cleared the cache,
  and lives its 30 seconds.

What holds, and is worth knowing: capacity, the order of the line and the join
count survive every interleaving and every failure; no rotation forks a
session; no sequence of echoes, history and reloads shows a message twice; no
flush counts a message twice; no insert, late commit or boost shifts the pages of
a feed; overlapping joins leave a topic one spare room, never two and never
none; sign-ups, Google callbacks and claims never share an identity, and nobody
is confirmed, or writes, without proof of the address; whatever order answers,
events and reads arrive in, the page of somebody with a seat ends in the chat.

## 8. Not modelled

* Text, markup, profanity, ranking and floating-point scores (the trend decay
  worker among them): data that no property tells apart.
* Typing and the unread pointer: they change nothing that is read back.
* Reports, notifications, statistics, administration, mutes, bookmarks: single-row
  writes and reads, no two steps of which meet.
* Search of topics and users, written and read as prompts are; the 15 seconds an
  answer is cached.
* Postgres and Redis themselves: a statement and a script are atomic; nothing
  they acknowledged is lost.
* Web components other than the room's and the account's: they render what the
  hooks and stores hold.
* The death of a pod with open sockets, in `Presence`: nothing in the code
  re-derives the schedule, so the seats are simply kept.
* More than one tab of one profile in `RoomPage` and `Accounts`: what tabs share
  is asked in `Sessions` (the cookie) and `Presence` (the sockets).

## 9. Plan

1. Typing (`composer.tsx`, `chat.gateway.ts:184-205`): an indicator must end, and
   not outlive its writer; the order of trending beside its cache.
2. The death of a pod that holds sockets, once something in the code re-derives
   the schedule.
3. Proofs of the invariants with fewer conditions: two tabs of a profile in
   `RoomPage`, as in `Presence`.
