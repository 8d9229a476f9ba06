----------------------------- MODULE Publishing -----------------------------
(***************************************************************************)
(* Prompts nobody wrote by hand: the worker that posts a few of a pool     *)
(* every day (daily-prompts.service.ts), and the seed that every start     *)
(* runs (start.sh, seed.ts), next to the users who post their own          *)
(* (prompts.service.ts) and to the search that finds all of them.          *)
(***************************************************************************)
EXTENDS SearchIndex, Sequences, SequencesExt

CONSTANTS
    Pool,            \* DAILY_PROMPT_POOL
    Bank, Top,       \* the seed's prompts: the banks, and the ones on top
    Retired,         \* titles the seed deletes
    Own,             \* what users post: titles, each public or not
    PerDay,          \* HOW_MANY_PER_DAY
    Pods,
    LastDay,         \* bound on the days
    MaxSeeds,        \* bound on the starts that seed
    MaxOwn,          \* bound on what users post
    MaxFailures      \* bound on errors and crashes

ASSUME ListsAssumption ==
    /\ {Pool, Bank, Top} \subseteq Seq(Titles)
    /\ Retired \subseteq Titles /\ IsFiniteSet(Retired)
    /\ Own \subseteq Titles \X BOOLEAN
    /\ IsInjective(Pool \o Bank \o Top)
    /\ Retired \cap Range(Pool \o Bank \o Top) = {}
ASSUME PublishingAssumption ==
    /\ {PerDay, LastDay} \subseteq Nat \ {0}
    /\ {MaxSeeds, MaxOwn, MaxFailures} \subseteq Nat

VARIABLES
    account,         \* system@chatrooms.local exists
    boosted,         \* cr:boost: rows, each with the last day of its boost
    today,
    claimed,         \* the days whose cr:daily key is set
    tick,            \* what each pod's tick is at
    posts,           \* pool prompts each day has got (history)
    served,          \* days on which a tick has come to its end (history)
    failed, died,    \* days on which one has failed, or its pod has died (history)
    seed,            \* the run of seed.ts
    seeds, failures

daily == <<boosted, today, claimed, tick, posts, served, failed, died>>
vars == <<prompts, gone, index, writes, healed, rebuilds,
          account, boosted, today, claimed, tick, posts, served, failed, died,
          seed, seeds, failures>>

Day == 1 .. LastDay
PoolTitles == Range(Pool)
BankTitles == Range(Bank)
TopTitles == Range(Top)

(* todo: the places in the pool of what is to be posted.  row: the prompt  *)
(* just created, still to be boosted.                                      *)
Tick == [stage : {"off", "account", "pool", "post", "boost", "resurface", "bust", "release"},
         day : Day, todo : SUBSET DOMAIN Pool, row : SUBSET Prompt]
NoTick == [stage |-> "off", day |-> 1, todo |-> {}, row |-> {}]

(* todo: the titles of this stage not looked up yet.  missing: the first   *)
(* of them has no row.                                                     *)
Seeding == [stage : {"off", "account", "bank", "top", "done"}, todo : Seq(Titles),
            missing : BOOLEAN]

TypeOK ==
    /\ SearchTypeOK
    /\ account \in BOOLEAN
    /\ boosted \subseteq [row : Prompt, until : Nat]
    /\ today \in Day
    /\ {claimed, served, failed, died} \subseteq SUBSET Day
    /\ tick \in [Pods -> Tick]
    /\ posts \in [Day -> Nat]
    /\ seed \in Seeding
    /\ {seeds, failures} \subseteq Nat

(* A new database, or one that an older version has seeded with prompts    *)
(* retired since.                                                          *)
SystemRow(t, n) == [title |-> t, system |-> TRUE, public |-> TRUE, n |-> n]

Init ==
    /\ \E old \in {{}, {SystemRow(t, 0) : t \in Retired}} :
        prompts = old /\ account = (old # {})
    /\ SearchInit
    /\ boosted = {} /\ today = 1 /\ claimed = {} /\ served = {}
    /\ failed = {} /\ died = {}
    /\ tick = [p \in Pods |-> NoTick]
    /\ posts = [d \in Day |-> 0]
    /\ seed = [stage |-> "off", todo |-> <<>>, missing |-> FALSE]
    /\ seeds = 0 /\ failures = 0

-----------------------------------------------------------------------------
(* Rows.                                                                   *)

Copies(t, system) == Cardinality({r \in prompts \cup gone : r.title = t /\ r.system = system})
NewRow(t, system, public) ==
    [title |-> t, system |-> system, public |-> public, n |-> Copies(t, system)]
Used == {r.title : r \in prompts}
OfSystem(t) == {r \in prompts : r.system /\ r.title = t}

(* As many as a day gets.                                                  *)
DayOf(S) ==
    {T \in SUBSET S : Cardinality(T) = IF Cardinality(S) < PerDay THEN Cardinality(S) ELSE PerDay}

(* The titles in the pool that nobody has used, and the first of them.     *)
Fresh == {i \in DOMAIN Pool : Pool[i] \notin Used}
Pending == {T \in DayOf(Fresh) : \A i \in T : \A j \in Fresh \ T : i < j}

-----------------------------------------------------------------------------
(* The daily worker: every pod has its timer.                              *)

(* Mutant: the title is boosted for the id.                                *)
BoostTitles(rows, day) == {[row |-> r.title, until |-> day] : r \in rows}
(* 48 h for what is posted, 24 h for what comes back, to the day.          *)
Boosts(rows, day) == {[row |-> r, until |-> day] : r \in rows}

Working(p) == tick[p].stage # "off"
Go(p, stage) == tick' = [tick EXCEPT ![p].stage = stage]
Trouble == failures < MaxFailures /\ failures' = failures + 1

(* Mutant: SET without NX.                                                 *)
ClaimAnyway(p) ==
    /\ ~Working(p)
    /\ claimed' = claimed \cup {today}
    /\ tick' = [tick EXCEPT ![p] = [NoTick EXCEPT !.stage = "account", !.day = today]]
    /\ UNCHANGED <<prompts, gone, searchVars, account, boosted, today, posts, served, failed, died,
                   seed, seeds, failures>>

(* SET NX: one pod finds the key of the day unset.                         *)
ClaimDay(p) ==
    /\ ~Working(p) /\ today \notin claimed
    /\ claimed' = claimed \cup {today}
    /\ tick' = [tick EXCEPT ![p] = [NoTick EXCEPT !.stage = "account", !.day = today]]
    /\ UNCHANGED <<prompts, gone, searchVars, account, boosted, today, posts, served, failed, died,
                   seed, seeds, failures>>

FindSystem(p) ==
    /\ tick[p].stage = "account"
    /\ Go(p, IF account THEN "pool" ELSE "resurface")
    /\ UNCHANGED <<prompts, gone, searchVars, account, boosted, today, claimed, posts, served,
                   failed, died, seed, seeds, failures>>

FindExisting(p) ==
    /\ tick[p].stage = "pool"
    /\ \E pending \in Pending :
          tick' = [tick EXCEPT ![p].stage = IF pending = {} THEN "resurface" ELSE "post",
                               ![p].todo = pending]
    /\ UNCHANGED <<prompts, gone, searchVars, account, boosted, today, claimed, posts, served,
                   failed, died, seed, seeds, failures>>

(* The seed has made the categories before the account.                    *)
PostNext(p) ==
    /\ tick[p].stage = "post"
    /\ \E i \in tick[p].todo :
          LET r == NewRow(Pool[i], TRUE, TRUE) IN
          /\ \A j \in tick[p].todo : i <= j
          /\ prompts' = prompts \cup {r}
          /\ tick' = [tick EXCEPT ![p].stage = "boost", ![p].row = {r}, ![p].todo = @ \ {i}]
    /\ posts' = [posts EXCEPT ![tick[p].day] = @ + 1]
    /\ UNCHANGED <<gone, searchVars, account, boosted, today, claimed, served, failed, died,
                   seed, seeds, failures>>

BoostPosted(p) ==
    /\ tick[p].stage = "boost"
    /\ boosted' = boosted \cup Boosts(tick[p].row, today + 2)
    /\ tick' = [tick EXCEPT ![p].stage = IF tick[p].todo = {} THEN "bust" ELSE "post",
                            ![p].row = {}]
    /\ UNCHANGED <<prompts, gone, searchVars, account, today, claimed, posts, served, failed, died,
                   seed, seeds, failures>>

(* Nothing posted: some of the best that are not on top already.           *)
ResurfaceOlder(p) ==
    /\ tick[p].stage = "resurface"
    /\ LET candidates == Public(prompts) \ {b.row : b \in boosted}
       IN  \E picked \in DayOf(candidates) :
              boosted' = boosted \cup Boosts(picked, today + 1)
    /\ Go(p, "bust")
    /\ UNCHANGED <<prompts, gone, searchVars, account, today, claimed, posts, served, failed, died,
                   seed, seeds, failures>>

BustFeedCaches(p) ==
    /\ tick[p].stage = "bust"
    /\ Go(p, "off")
    /\ served' = served \cup {tick[p].day}
    /\ UNCHANGED <<prompts, gone, searchVars, account, boosted, today, claimed, posts, failed, died,
                   seed, seeds, failures>>

TickFails(p) ==
    /\ tick[p].stage \notin {"off", "release"}
    /\ Trouble
    /\ Go(p, "release")
    /\ failed' = failed \cup {tick[p].day}
    /\ UNCHANGED <<prompts, gone, searchVars, account, boosted, today, claimed, posts, served,
                   died, seed, seeds>>

(* Mutant: the claim is kept after an error.                               *)
KeepClaim(p) ==
    /\ tick[p].stage = "release"
    /\ Go(p, "off")
    /\ UNCHANGED <<prompts, gone, searchVars, account, boosted, today, claimed, posts, served,
                   failed, died, seed, seeds, failures>>

ReleaseClaim(p) ==
    /\ tick[p].stage = "release"
    /\ claimed' = claimed \ {tick[p].day}
    /\ Go(p, "off")
    /\ UNCHANGED <<prompts, gone, searchVars, account, boosted, today, posts, served, failed, died,
                   seed, seeds, failures>>

PodDies(p) ==
    /\ Working(p)
    /\ Trouble
    /\ tick' = [tick EXCEPT ![p] = NoTick]
    /\ died' = died \cup {tick[p].day}
    /\ UNCHANGED <<prompts, gone, searchVars, account, boosted, today, claimed, posts, served,
                   failed, seed, seeds>>

(* Midnight.  A tick is over long before the next day's; boosts run out.   *)
NextDay ==
    /\ today < LastDay /\ \A p \in Pods : ~Working(p)
    /\ today' = today + 1
    /\ boosted' = {b \in boosted : b.until > today}
    /\ UNCHANGED <<prompts, gone, searchVars, account, claimed, tick, posts, served,
                   failed, died, seed, seeds, failures>>

-----------------------------------------------------------------------------
(* The seed, in order: categories and topics, the system account, the      *)
(* banks, the retired titles, the prompts on top.  One run at a time.      *)

SeedAt(stage, todo) == seed' = [stage |-> stage, todo |-> todo, missing |-> FALSE]

StartSeed ==
    /\ seed.stage \in {"off", "done"} /\ seeds < MaxSeeds
    /\ seeds' = seeds + 1
    /\ SeedAt("account", <<>>)
    /\ UNCHANGED <<prompts, gone, searchVars, account, daily, failures>>

UpsertSystem ==
    /\ seed.stage = "account"
    /\ account' = TRUE
    /\ SeedAt("bank", Bank)
    /\ UNCHANGED <<prompts, gone, searchVars, daily, seeds, failures>>

(* findFirst by title and creator; a row that is there gets the new copy   *)
(* of its texts and category.                                              *)
LookUp ==
    /\ seed.todo # <<>> /\ ~seed.missing
    /\ IF OfSystem(Head(seed.todo)) = {}
       THEN seed' = [seed EXCEPT !.missing = TRUE]
       ELSE SeedAt(seed.stage, Tail(seed.todo))
    /\ UNCHANGED <<prompts, gone, searchVars, account, daily, seeds, failures>>

FillGap ==
    /\ seed.missing
    /\ prompts' = prompts \cup {NewRow(Head(seed.todo), TRUE, TRUE)}
    /\ SeedAt(seed.stage, Tail(seed.todo))
    /\ UNCHANGED <<gone, searchVars, account, daily, seeds, failures>>

RemoveRetired ==
    /\ seed.stage = "bank" /\ seed.todo = <<>>
    /\ LET found == UNION {OfSystem(t) : t \in Retired}
       IN  prompts' = prompts \ found /\ gone' = gone \cup found
    /\ SeedAt("top", Top)
    /\ UNCHANGED <<searchVars, account, daily, seeds, failures>>

EndSeed ==
    /\ seed.stage = "top" /\ seed.todo = <<>>
    /\ SeedAt("done", <<>>)
    /\ UNCHANGED <<prompts, gone, searchVars, account, daily, seeds, failures>>

(* An error or a crash; the start goes on without it.                      *)
SeedFails ==
    /\ seed.stage \notin {"off", "done"}
    /\ Trouble
    /\ SeedAt("off", <<>>)
    /\ UNCHANGED <<prompts, gone, searchVars, account, daily, seeds>>

-----------------------------------------------------------------------------
(* Users.                                                                  *)

CreatePrompt(t, public) ==
    /\ Cardinality({r \in prompts : ~r.system}) < MaxOwn
    /\ LET r == NewRow(t, FALSE, public)
       IN  prompts' = prompts \cup {r} /\ IndexPrompt(r)
    /\ UNCHANGED <<gone, index, healed, rebuilds, account, daily, seed, seeds, failures>>

-----------------------------------------------------------------------------

Step(p) ==
    \/ ClaimDay(p) \/ FindSystem(p) \/ FindExisting(p) \/ PostNext(p) \/ BoostPosted(p)
    \/ ResurfaceOlder(p) \/ BustFeedCaches(p) \/ ReleaseClaim(p)

SeedNext ==
    \/ StartSeed \/ UpsertSystem \/ LookUp \/ FillGap \/ RemoveRetired \/ EndSeed \/ SeedFails

Next ==
    \/ \E p \in Pods : Step(p) \/ TickFails(p) \/ PodDies(p)
    \/ NextDay
    \/ SeedNext
    \/ \E own \in Own : CreatePrompt(own[1], own[2])
    \/ SearchNext /\ UNCHANGED <<account, daily, seed, seeds, failures>>

(* A pod's timer fires again and again, and what it has begun goes on.     *)
Fairness == \A p \in Pods : WF_vars(Step(p))

Spec == Init /\ [][Next]_vars /\ Fairness

-----------------------------------------------------------------------------
(* Properties.                                                             *)

(* Whatever fails, dies, is retried or seeded again, the system posts each *)
(* title of its lists once (daily-prompts.service.ts:24, start.sh).  A     *)
(* seed that came to its end has left nothing out and nothing retired.     *)
(* One pod at a time works for a day, and a day without trouble gets       *)
(* PerDay prompts of the pool, fewer only when the pool has no more, or    *)
(* none when it got older ones instead.                                    *)
PostedAsPlanned ==
    /\ \A r, s \in prompts : r.system /\ s.system /\ r.title = s.title => r = s
    /\ seed.stage = "done" =>
        /\ \A t \in BankTitles \cup TopTitles : OfSystem(t) # {}
        /\ \A t \in Retired : OfSystem(t) = {}
    /\ \A p, q \in Pods : Working(p) /\ Working(q) => p = q
    /\ \A d \in Day \ (failed \cup died) :
        /\ posts[d] <= PerDay
        /\ d \in served /\ posts[d] \in 1 .. PerDay - 1 => PoolTitles \subseteq Used

(* After an error a later tick tries again: every day is served while it   *)
(* lasts, unless a pod died holding its claim.                             *)
DayServed == \A d \in Day : today = d ~> d \in served \/ today # d \/ d \in died

=============================================================================
