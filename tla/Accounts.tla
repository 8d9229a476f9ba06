------------------------------ MODULE Accounts ------------------------------
(***************************************************************************)
(* Accounts: signing up and in by password or by Google, the e-mail that   *)
(* confirms an address, the choice of a user name, and what the page of a  *)
(* browser knows of all that (auth.service.ts, verification.service.ts,    *)
(* stores/auth.ts and the forms).  A handler runs from await to await.     *)
(* Each browser has one tab here: cookies shared by tabs, and the rotation *)
(* of refresh tokens, are Sessions.                                        *)
(***************************************************************************)
EXTENDS Naturals, Sequences, FiniteSets

CONSTANTS
    Addresses,       \* e-mail addresses, lower case (auth.schemas.ts:24)
    Googles,         \* Google accounts
    NoGoogle,        \* "not linked"
    GoogleAddress,   \* the verified address of each Google account
    Names,           \* user names as typed
    NoName,          \* "has no profile"
    Fold,            \* the lower-case form of each name
    Reserved,        \* the lower-case names nobody may have
    Settled,         \* the User rows there may be to begin with
    Browsers,
    Clicks,          \* GET /auth/verify requests that may be in flight at once
    MaxLinks,        \* bound on the confirmation mails
    MaxSubmits,      \* bound on the forms sent
    MaxLoads,        \* bound on page loads and on the refreshes queries start
    MaxMishaps       \* bound on failing handlers, expiries and operator's acts

ASSUME NamesAssumption ==
    /\ Addresses # {}
    /\ NoName \notin Names /\ NoGoogle \notin Googles
    /\ DOMAIN Fold = Names
ASSUME GoogleAssumption == GoogleAddress \in [Googles -> Addresses]
ASSUME AccountBoundsAssumption == {MaxLinks, MaxSubmits, MaxLoads, MaxMishaps} \subseteq Nat

VARIABLES
    users,           \* the User rows, each with its AnonymousProfile's name
    links,           \* the cr:verify:<token> keys, in order of issue
    sending,         \* accounts whose confirmation mail is being sent
    opened,          \* accounts of which somebody has opened a link (history)
    promoted,        \* accounts the operator has confirmed (history)
    posted,          \* accounts that have created a prompt or a message
    page,            \* the auth store of each browser's tab
    cookie,          \* whose refresh cookie each browser has (0: none)
    form,            \* the submission each tab waits for
    flight,          \* the POST /auth/refresh each tab waits for
    click,           \* the GET /auth/verify in flight
    submits, loads, mishaps

server == <<users, links, sending, opened, promoted, posted>>
bounds == <<submits, loads, mishaps>>
vars == <<users, links, sending, opened, promoted, posted, page, cookie, form, flight,
          click, submits, loads, mishaps>>

-----------------------------------------------------------------------------

UserIds == DOMAIN users
UserId == Nat
NameOrNone == Names \cup {NoName}

(* A profile belongs to one user, and a user has at most one.              *)
User == [email : Addresses, password : BOOLEAN, google : Googles \cup {NoGoogle},
         verified : BOOLEAN, active : BOOLEAN, name : NameOrNone]

(* What the unique keys of the two tables promise of the rows.             *)
Distinct(rows) ==
    /\ \A u, v \in DOMAIN rows : u # v =>
        /\ rows[u].email # rows[v].email
        /\ rows[u].google # NoGoogle => rows[u].google # rows[v].google
        /\ rows[u].name # NoName /\ rows[v].name # NoName
            => Fold[rows[u].name] # Fold[rows[v].name]
    /\ \A u \in DOMAIN rows : rows[u].name # NoName => Fold[rows[u].name] \notin Reserved

(* Nothing to prove, or proved by Google.                                  *)
Proved(row) ==
    row.verified => row.google # NoGoogle /\ GoogleAddress[row.google] = row.email

ASSUME SettledAssumption ==
    \A rows \in Settled :
        rows \in Seq(User) /\ Distinct(rows) /\ \A u \in DOMAIN rows : Proved(rows[u])

(* lost: the handler that took it died before it confirmed the account.    *)
Link == [user : UserId \ {0}, state : {"live", "taken", "expired", "lost"}]

(* What an answer says of the account: the profile and the claims of the   *)
(* access token, as the handler read them.                                 *)
Seen == [name : NameOrNone, ver : BOOLEAN]
Nothing == [name |-> NoName, ver |-> FALSE]

(* told: the account whose confirmation the address bar reports            *)
(* (?verified=1), 0 for none.                                              *)
Page == [status : {"closed", "restoring", "authenticated", "anonymous"},
         user : UserId, saw : Seen, told : UserId]

(* waits: the page is still there.  joined: the claim's refresh is one     *)
(* that was on its way already.                                            *)
Form == [kind : {"signup", "login", "google", "claim", "resend"},
         stage : {"idle", "find", "check", "findEmail", "link", "create", "answer",
                  "restore", "done"},
         email : Addresses, google : Googles \cup {NoGoogle}, name : NameOrNone,
         user : UserId, saw : Seen, waits : BOOLEAN, joined : BOOLEAN]

Flight == [stage : {"none", "posted", "read", "refused"}, user : UserId, saw : Seen]
NoFlight == [stage |-> "none", user |-> 0, saw |-> Nothing]

Click == [stage : {"idle", "take", "mark", "told"}, link : Nat, ok : BOOLEAN]
NoClick == [stage |-> "idle", link |-> 0, ok |-> FALSE]

TypeOK ==
    /\ users \in Seq(User)
    /\ links \in Seq(Link)
    /\ {sending, opened, promoted, posted} \subseteq SUBSET Nat
    /\ page \in [Browsers -> Page]
    /\ cookie \in [Browsers -> UserId]
    /\ form \in [Browsers -> Form]
    /\ flight \in [Browsers -> Flight]
    /\ click \in [Clicks -> Click]
    /\ {submits, loads, mishaps} \subseteq Nat

NoForm == [kind |-> "login", stage |-> "idle", email |-> CHOOSE e \in Addresses : TRUE,
           google |-> NoGoogle, name |-> NoName, user |-> 0, saw |-> Nothing,
           waits |-> FALSE, joined |-> FALSE]

Closed == [status |-> "closed", user |-> 0, saw |-> Nothing, told |-> 0]

(* Every browser has just opened the site, without a session.              *)
Init ==
    /\ users \in Settled
    /\ links = <<>>
    /\ sending = {} /\ opened = {} /\ promoted = {} /\ posted = {}
    /\ page = [b \in Browsers |-> [Closed EXCEPT !.status = "anonymous"]]
    /\ cookie = [b \in Browsers |-> 0]
    /\ form = [b \in Browsers |-> NoForm]
    /\ flight = [b \in Browsers |-> NoFlight]
    /\ click = [c \in Clicks |-> NoClick]
    /\ submits = 0 /\ loads = 0 /\ mishaps = 0

-----------------------------------------------------------------------------
(* The tables: unique keys, and rows as an answer shows them.              *)

(* Mutant: the column's default is the wrong one.                          *)
NewcomerConfirmed(e) == [email |-> e, password |-> FALSE, google |-> NoGoogle,
                         verified |-> TRUE, active |-> TRUE, name |-> NoName]
Newcomer(e) == [email |-> e, password |-> FALSE, google |-> NoGoogle,
                verified |-> FALSE, active |-> TRUE, name |-> NoName]

ByEmail(e) == {u \in UserIds : users[u].email = e}
ByGoogle(g) == {u \in UserIds : users[u].google = g}
EmailFree(e) == ByEmail(e) = {}
GoogleFree(g) == ByGoogle(g) = {}
(* Mutant: usernameLower keeps what was typed.                             *)
NameFreeAsTyped(n) == \A u \in UserIds : users[u].name # n
NameFree(n) == \A u \in UserIds : users[u].name = NoName \/ Fold[users[u].name] # Fold[n]

Shown(u) == [name |-> users[u].name, ver |-> users[u].verified]

-----------------------------------------------------------------------------
(* Control of a submission.                                                *)

Idle(b) == form[b].stage \in {"idle", "done"}
At(b, kind, stage) == form[b].kind = kind /\ form[b].stage = stage
Goto(b, stage) == form' = [form EXCEPT ![b].stage = stage]
Answer(b, u, saw) ==
    form' = [form EXCEPT ![b].stage = "answer", ![b].user = u, ![b].saw = saw]

(* A form sends one request at a time.                                     *)
Begin(b, sent) ==
    /\ Idle(b)
    /\ submits < MaxSubmits
    /\ submits' = submits + 1
    /\ form' = [form EXCEPT ![b] = [sent EXCEPT !.waits = TRUE]]

(* A refusal or an error: the form shows it, the store stays as it is.     *)
Refuse(b) == form' = [form EXCEPT ![b] = NoForm]

(* restoreSession: one refresh at a time, with the cookie of the browser.  *)
Asked(b) == [stage |-> "posted", user |-> cookie[b], saw |-> Nothing]
Restore(b) == flight' = [flight EXCEPT ![b] = IF @.stage = "none" THEN Asked(b) ELSE @]

(* A page load: nothing in memory; AuthBootstrap restores the session, the *)
(* banner joins it.  What the page before waited for finds nobody.         *)
Load(b, told) ==
    /\ loads < MaxLoads
    /\ loads' = loads + 1
    /\ page' = [page EXCEPT ![b] = [Closed EXCEPT !.status = "restoring", !.told = told]]
    /\ flight' = [flight EXCEPT ![b] = Asked(b)]
    /\ form' = [form EXCEPT ![b] = IF @.stage \in {"idle", "done", "restore"} THEN NoForm
                                   ELSE [@ EXCEPT !.waits = FALSE]]

-----------------------------------------------------------------------------
(* Signing up and in by password.                                          *)

SubmitAuth(b, kind, e) ==
    /\ kind \in {"signup", "login"}
    /\ page[b].status # "closed"
    /\ Begin(b, [NoForm EXCEPT !.kind = kind, !.stage = "find", !.email = e])
    /\ UNCHANGED <<server, page, cookie, flight, click, loads, mishaps>>

FindTaken(b) ==
    /\ At(b, "signup", "find")
    /\ IF EmailFree(form[b].email) THEN Goto(b, "create") ELSE Refuse(b)
    /\ UNCHANGED <<server, page, cookie, flight, click, bounds>>

(* The hash is an await between the look and the insert; the second of two *)
(* sign-ups fails on the unique key.  The mail is sent by the way.         *)
CreateByPassword(b) ==
    /\ At(b, "signup", "create")
    /\ IF EmailFree(form[b].email)
       THEN /\ users' = Append(users, [Newcomer(form[b].email) EXCEPT !.password = TRUE])
            /\ sending' = sending \cup {Len(users) + 1}
            /\ Answer(b, Len(users) + 1, Nothing)
       ELSE Refuse(b) /\ UNCHANGED <<users, sending>>
    /\ UNCHANGED <<links, opened, promoted, posted, page, cookie, flight, click, bounds>>

FindByEmail(b) ==
    /\ At(b, "login", "find")
    /\ LET found == {u \in ByEmail(form[b].email) : users[u].password /\ users[u].active}
       IN  \/ \E u \in found : form' = [form EXCEPT ![b].stage = "check", ![b].user = u,
                                                    ![b].saw = Shown(u)]
           \/ found = {} /\ Refuse(b)
    /\ UNCHANGED <<server, page, cookie, flight, click, bounds>>

(* argon2.verify.  assertActive comes after it, but asks the row read      *)
(* before it, and that row is what the answer shows.                       *)
CheckPassword(b) ==
    /\ At(b, "login", "check")
    /\ Goto(b, "answer") \/ Refuse(b)
    /\ UNCHANGED <<server, page, cookie, flight, click, bounds>>

-----------------------------------------------------------------------------
(* Signing in by Google: the page leaves, and comes back to /auth/callback. *)

StartGoogle(b, g) ==
    /\ page[b].status # "closed"
    /\ Begin(b, [NoForm EXCEPT !.kind = "google", !.stage = "find",
                               !.email = GoogleAddress[g], !.google = g])
    /\ page' = [page EXCEPT ![b] = Closed]
    /\ flight' = [flight EXCEPT ![b] = NoFlight]
    /\ UNCHANGED <<server, cookie, click, loads, mishaps>>

(* assertActive comes last.                                                *)
AnswerActive(b, u, row) ==
    IF row.active THEN Answer(b, u, [name |-> row.name, ver |-> row.verified]) ELSE Refuse(b)

FindByGoogle(b) ==
    /\ At(b, "google", "find")
    /\ \/ \E u \in ByGoogle(form[b].google) : AnswerActive(b, u, users[u])
       \/ GoogleFree(form[b].google) /\ Goto(b, "findEmail")
    /\ UNCHANGED <<server, page, cookie, flight, click, bounds>>

FindToLink(b) ==
    /\ At(b, "google", "findEmail")
    /\ \/ \E u \in ByEmail(form[b].email) :
            form' = [form EXCEPT ![b].stage = "link", ![b].user = u]
       \/ EmailFree(form[b].email) /\ Goto(b, "create")
    /\ UNCHANGED <<server, page, cookie, flight, click, bounds>>

(* Mutant: the address is stored for the Google id.                        *)
LinkByAddress(b) ==
    /\ At(b, "google", "link")
    /\ LET u == form[b].user
           row == [users[u] EXCEPT !.google = form[b].email, !.verified = TRUE]
       IN  users' = [users EXCEPT ![u] = row] /\ AnswerActive(b, u, row)
    /\ UNCHANGED <<links, sending, opened, promoted, posted, page, cookie, flight, click, bounds>>

LinkGoogle(b) ==
    /\ At(b, "google", "link")
    /\ LET u == form[b].user
           row == [users[u] EXCEPT !.google = form[b].google, !.verified = TRUE]
       IN  IF ByGoogle(form[b].google) \subseteq {u}
           THEN users' = [users EXCEPT ![u] = row] /\ AnswerActive(b, u, row)
           ELSE Refuse(b) /\ UNCHANGED users
    /\ UNCHANGED <<links, sending, opened, promoted, posted, page, cookie, flight, click, bounds>>

CreateByGoogle(b) ==
    /\ At(b, "google", "create")
    /\ LET row == [Newcomer(form[b].email) EXCEPT !.google = form[b].google, !.verified = TRUE]
       IN  IF EmailFree(form[b].email) /\ GoogleFree(form[b].google)
           THEN users' = Append(users, row) /\ AnswerActive(b, Len(users) + 1, row)
           ELSE Refuse(b) /\ UNCHANGED users
    /\ UNCHANGED <<links, sending, opened, promoted, posted, page, cookie, flight, click, bounds>>

-----------------------------------------------------------------------------
(* The answer to a sign-in: the cookie, and the store; after Google only   *)
(* the cookie, and a page that restores its session.                       *)

SignedIn(b) ==
    /\ form[b].stage = "answer" /\ form[b].kind \in {"signup", "login"}
    /\ IF form[b].waits
       THEN /\ cookie' = [cookie EXCEPT ![b] = form[b].user]
            /\ page' = [page EXCEPT ![b].status = "authenticated", ![b].user = form[b].user,
                                    ![b].saw = form[b].saw]
       ELSE UNCHANGED <<cookie, page>>
    /\ Refuse(b)
    /\ UNCHANGED <<server, flight, click, bounds>>

Landed(b) ==
    /\ At(b, "google", "answer")
    /\ IF form[b].waits
       THEN /\ cookie' = [cookie EXCEPT ![b] = form[b].user]
            /\ page' = [page EXCEPT ![b] = [Closed EXCEPT !.status = "restoring"]]
            /\ flight' = [flight EXCEPT ![b] =
                             [stage |-> "posted", user |-> form[b].user, saw |-> Nothing]]
       ELSE UNCHANGED <<cookie, page, flight>>
    /\ Refuse(b)
    /\ UNCHANGED <<server, click, bounds>>

-----------------------------------------------------------------------------
(* The user name.                                                          *)

SubmitName(b, n) ==
    /\ page[b].status = "authenticated"
    /\ Begin(b, [NoForm EXCEPT !.kind = "claim", !.stage = "find", !.name = n,
                               !.user = page[b].user])
    /\ UNCHANGED <<server, page, cookie, flight, click, loads, mishaps>>

FindProfile(b) ==
    /\ At(b, "claim", "find")
    /\ IF Fold[form[b].name] \notin Reserved /\ users[form[b].user].name = NoName
       THEN Goto(b, "create") ELSE Refuse(b)
    /\ UNCHANGED <<server, page, cookie, flight, click, bounds>>

(* Two unique keys, userId and usernameLower; either gives USERNAME_TAKEN. *)
CreateProfile(b) ==
    /\ At(b, "claim", "create")
    /\ LET u == form[b].user
       IN  IF users[u].name = NoName /\ NameFree(form[b].name)
           THEN users' = [users EXCEPT ![u].name = form[b].name] /\ Goto(b, "answer")
           ELSE Refuse(b) /\ UNCHANGED users
    /\ UNCHANGED <<links, sending, opened, promoted, posted, page, cookie, flight, click, bounds>>

(* Mutant: the form is done without a new token.                           *)
ClaimedWithoutRefresh(b) ==
    /\ At(b, "claim", "answer")
    /\ IF form[b].waits THEN Goto(b, "done") ELSE Refuse(b)
    /\ UNCHANGED <<server, page, cookie, flight, click, bounds>>

(* The token in hand has pid = null: the store asks for a new one, or      *)
(* waits for the refresh that is on its way.                               *)
Claimed(b) ==
    /\ At(b, "claim", "answer")
    /\ IF form[b].waits
       THEN /\ form' = [form EXCEPT ![b].stage = "restore",
                                    ![b].joined = flight[b].stage # "none"]
            /\ Restore(b)
       ELSE Refuse(b) /\ UNCHANGED flight
    /\ UNCHANGED <<server, page, cookie, click, bounds>>

-----------------------------------------------------------------------------
(* POST /auth/refresh, for a page load, a claim, or a query that got a 401. *)

OpenPage(b) ==
    /\ page[b].status = "closed" => Idle(b)
    /\ Load(b, 0)
    /\ UNCHANGED <<server, cookie, click, submits, mishaps>>

Requery(b) ==
    /\ page[b].status = "authenticated" /\ flight[b].stage = "none"
    /\ loads < MaxLoads
    /\ loads' = loads + 1
    /\ Restore(b)
    /\ UNCHANGED <<server, page, cookie, form, click, submits, mishaps>>

(* findUniqueOrThrow, assertActive, and the claims of the new token.       *)
ReadAccount(b) ==
    /\ flight[b].stage = "posted"
    /\ LET u == flight[b].user
       IN  flight' = [flight EXCEPT ![b] =
             IF u \in UserIds /\ users[u].active
             THEN [@ EXCEPT !.stage = "read", !.saw = Shown(u)]
             ELSE [@ EXCEPT !.stage = "refused"]]
    /\ UNCHANGED <<server, page, cookie, form, click, bounds>>

(* The answer carries the next cookie.                                     *)
Restored(b) ==
    /\ flight[b].stage = "read"
    /\ cookie' = [cookie EXCEPT ![b] = flight[b].user]
    /\ page' = [page EXCEPT ![b].status = "authenticated", ![b].user = flight[b].user,
                            ![b].saw = flight[b].saw]
    /\ flight' = [flight EXCEPT ![b] = NoFlight]
    /\ form' = IF form[b].stage = "restore" THEN [form EXCEPT ![b].stage = "done"] ELSE form
    /\ UNCHANGED <<server, click, bounds>>

NotRestored(b) ==
    /\ flight[b].stage = "refused"
    /\ page' = [page EXCEPT ![b].status = "anonymous", ![b].user = 0, ![b].saw = Nothing]
    /\ flight' = [flight EXCEPT ![b] = NoFlight]
    /\ IF form[b].stage = "restore" THEN Refuse(b) ELSE UNCHANGED form
    /\ UNCHANGED <<server, cookie, click, bounds>>

Mishap == mishaps < MaxMishaps /\ mishaps' = mishaps + 1

(* The page forgets the session whatever comes of the request.             *)
Logout(b) ==
    /\ page[b].status = "authenticated" /\ flight[b].stage = "none" /\ Idle(b)
    /\ page' = [page EXCEPT ![b] = [Closed EXCEPT !.status = "anonymous", !.told = page[b].told]]
    /\ \/ cookie' = [cookie EXCEPT ![b] = 0] /\ UNCHANGED mishaps
       \/ Mishap /\ UNCHANGED cookie
    /\ Refuse(b)
    /\ UNCHANGED <<server, flight, click, submits, loads>>

-----------------------------------------------------------------------------
(* What an account is for: creating a prompt or a message.                 *)

(* The claims of a token, which JwtStrategy takes as they are.             *)
MayPost(claims) == claims.ver /\ claims.name # NoName

Post(b) ==
    /\ page[b].status = "authenticated" /\ MayPost(page[b].saw)
    /\ posted' = posted \cup {page[b].user}
    /\ UNCHANGED <<users, links, sending, opened, promoted, page, cookie, form, flight, click,
                   bounds>>

-----------------------------------------------------------------------------
(* Confirming an address.                                                  *)

(* sendFor; nobody waits for it after a sign-up.  A mail that is lost is a *)
(* link that is never opened.                                              *)
SendLink(u) ==
    /\ u \in sending
    /\ sending' = sending \ {u}
    /\ links' = IF Len(links) < MaxLinks
                THEN Append(links, [user |-> u, state |-> "live"]) ELSE links
    /\ UNCHANGED <<users, opened, promoted, posted, page, cookie, form, flight, click, bounds>>

AskAgain(b) ==
    /\ page[b].status = "authenticated" /\ ~page[b].saw.ver
    /\ page[b].user \notin sending /\ Len(links) < MaxLinks
    /\ Begin(b, [NoForm EXCEPT !.kind = "resend", !.stage = "find", !.user = page[b].user])
    /\ UNCHANGED <<server, page, cookie, flight, click, loads, mishaps>>

Resend(b) ==
    /\ At(b, "resend", "find")
    /\ sending' = IF users[form[b].user].verified THEN sending ELSE sending \cup {form[b].user}
    /\ Refuse(b)
    /\ UNCHANGED <<users, links, opened, promoted, posted, page, cookie, flight, click, bounds>>

OpenLink(c, l) ==
    /\ click[c].stage = "idle" /\ l \in DOMAIN links
    /\ click' = [click EXCEPT ![c] = [stage |-> "take", link |-> l, ok |-> FALSE]]
    /\ opened' = opened \cup {links[l].user}
    /\ UNCHANGED <<users, links, sending, promoted, posted, page, cookie, form, flight, bounds>>

(* Mutant: the look and the delete are the wrong way round.                *)
TakeLinkFirst(c) ==
    /\ click[c].stage = "take"
    /\ links' = [links EXCEPT ![click[c].link].state = "taken"]
    /\ click' = [click EXCEPT ![c].stage = "told"]
    /\ UNCHANGED <<users, sending, opened, promoted, posted, page, cookie, form, flight, bounds>>

(* GETDEL: of two clicks, one finds it.                                    *)
TakeLink(c) ==
    /\ click[c].stage = "take"
    /\ LET l == click[c].link
       IN  IF links[l].state = "live"
           THEN /\ links' = [links EXCEPT ![l].state = "taken"]
                /\ click' = [click EXCEPT ![c].stage = "mark"]
           ELSE click' = [click EXCEPT ![c].stage = "told"] /\ UNCHANGED links
    /\ UNCHANGED <<users, sending, opened, promoted, posted, page, cookie, form, flight, bounds>>

MarkVerified(c) ==
    /\ click[c].stage = "mark"
    /\ users' = [users EXCEPT ![links[click[c].link].user].verified = TRUE]
    /\ click' = [click EXCEPT ![c].stage = "told", ![c].ok = TRUE]
    /\ UNCHANGED <<links, sending, opened, promoted, posted, page, cookie, form, flight, bounds>>

(* The redirect to /?verified=1 or 0, in whatever browser reads the mail,  *)
(* or in none: a mail scanner follows links as well.                       *)
Bounce(c, b) ==
    /\ click[c].stage = "told"
    /\ click' = [click EXCEPT ![c] = NoClick]
    /\ Load(b, IF click[c].ok THEN links[click[c].link].user ELSE 0)
    /\ UNCHANGED <<server, cookie, submits, mishaps>>

Dismiss(c) ==
    /\ click[c].stage = "told"
    /\ click' = [click EXCEPT ![c] = NoClick]
    /\ UNCHANGED <<server, page, cookie, form, flight, bounds>>

ExpireLink(l) ==
    /\ l \in DOMAIN links /\ links[l].state = "live"
    /\ Mishap
    /\ links' = [links EXCEPT ![l].state = "expired"]
    /\ UNCHANGED <<users, sending, opened, promoted, posted, page, cookie, form, flight, click,
                   submits, loads>>

-----------------------------------------------------------------------------
(* The operator, and failures.                                             *)

Suspend(u) ==
    /\ users[u].active
    /\ Mishap
    /\ users' = [users EXCEPT ![u].active = FALSE]
    /\ UNCHANGED <<links, sending, opened, promoted, posted, page, cookie, form, flight, click,
                   submits, loads>>

(* ADMIN_EMAILS, when a deployment seeds.                                  *)
Promote(u) ==
    /\ Mishap
    /\ users' = [users EXCEPT ![u].verified = TRUE]
    /\ promoted' = promoted \cup {u}
    /\ UNCHANGED <<links, sending, opened, posted, page, cookie, form, flight, click,
                   submits, loads>>

(* A handler that dies or throws.  The page sees an error; a refresh that  *)
(* fails signs it out.                                                     *)
FailForm(b) ==
    /\ form[b].stage \notin {"idle", "done", "restore"}
    /\ Mishap
    /\ Refuse(b)
    /\ UNCHANGED <<server, page, cookie, flight, click, submits, loads>>

FailFlight(b) ==
    /\ flight[b].stage \in {"posted", "read"}
    /\ Mishap
    /\ flight' = [flight EXCEPT ![b].stage = "refused"]
    /\ UNCHANGED <<server, page, cookie, form, click, submits, loads>>

FailClick(c) ==
    /\ click[c].stage = "mark"
    /\ Mishap
    /\ click' = [click EXCEPT ![c] = NoClick]
    /\ links' = [links EXCEPT ![click[c].link].state = "lost"]
    /\ UNCHANGED <<users, sending, opened, promoted, posted, page, cookie, form, flight,
                   submits, loads>>

-----------------------------------------------------------------------------

AtForm(b) ==
    \/ \E e \in Addresses, kind \in {"signup", "login"} : SubmitAuth(b, kind, e)
    \/ \E g \in Googles : StartGoogle(b, g)
    \/ \E n \in Names : SubmitName(b, n)
    \/ AskAgain(b) \/ Logout(b) \/ Post(b)

Handle(b) ==
    \/ FindTaken(b) \/ CreateByPassword(b) \/ FindByEmail(b) \/ CheckPassword(b)
    \/ FindByGoogle(b) \/ FindToLink(b) \/ LinkGoogle(b) \/ CreateByGoogle(b)
    \/ SignedIn(b) \/ Landed(b)
    \/ FindProfile(b) \/ CreateProfile(b) \/ Claimed(b)
    \/ Resend(b)
    \/ ReadAccount(b) \/ Restored(b) \/ NotRestored(b)

Confirm(c) ==
    \/ \E l \in DOMAIN links : OpenLink(c, l)
    \/ TakeLink(c) \/ MarkVerified(c) \/ Dismiss(c) \/ FailClick(c)
    \/ \E b \in Browsers : Bounce(c, b)

Next ==
    \/ \E b \in Browsers :
        AtForm(b) \/ Handle(b) \/ OpenPage(b) \/ Requery(b) \/ FailForm(b) \/ FailFlight(b)
    \/ \E c \in Clicks : Confirm(c)
    \/ \E u \in UserIds : SendLink(u) \/ Suspend(u) \/ Promote(u)
    \/ \E l \in DOMAIN links : ExpireLink(l)

Spec == Init /\ [][Next]_vars

-----------------------------------------------------------------------------
(* Properties.                                                             *)

(* However sign-ups, Google callbacks and claims overlap, an address, a    *)
(* Google account and a user name (whatever its case) each belong to one   *)
(* account, and reserved names to none.                                    *)
IdentitiesDistinct == Distinct(users)

(* An account counts as confirmed, and has its writings accepted, only if  *)
(* a link sent to its own address was opened, its own address is a linked  *)
(* Google account's, or the operator said so; and whoever writes has a     *)
(* name to write under.                                                    *)
ConfirmedByProof ==
    /\ \A u \in UserIds : Proved(users[u]) \/ u \in opened \cup promoted
    /\ \A u \in posted : u \in UserIds /\ users[u].verified /\ users[u].name # NoName

(* verification.service.ts:48: a link is used up by the first click.  Used *)
(* up, it has confirmed the account or is just about to; it is wasted only *)
(* when the handler that took it failed.                                   *)
LinkTakesEffect ==
    \A l \in DOMAIN links : links[l].state = "taken" =>
        \/ users[links[l].user].verified
        \/ \E c \in Clicks : click[c].stage = "mark" /\ click[c].link = l

(* What a page says once it has asked anew is what the account has: after  *)
(* a claim it knows the name (unless it joined a refresh that was under    *)
(* way), and the page that reports a confirmation can post.                *)
PageCatchesUp ==
    \A b \in Browsers : page[b].status = "authenticated" =>
        /\ form[b].stage = "done" /\ ~form[b].joined /\ form[b].user = page[b].user
            => page[b].saw.name = users[page[b].user].name
        /\ page[b].told = page[b].user => page[b].saw.ver

=============================================================================
