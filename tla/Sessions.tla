------------------------------ MODULE Sessions ------------------------------
(***************************************************************************)
(* One user's sign-ins: TokenService's rotating refresh tokens             *)
(* (token.service.ts), AuthService and its controller, and the tabs of one *)
(* browser that share the refresh cookie (stores/auth.ts, lib/api.ts).     *)
(* Rotation runs from await to await; a tab sends one refresh at a time,   *)
(* the browser has one cookie.                                             *)
(***************************************************************************)
EXTENDS Naturals, FiniteSets

CONSTANTS
    Tabs,          \* the browser's tabs
    NoTab,         \* "no tab waits for this answer any more"
    Calls,         \* refresh handlers that may be in flight at once
    MaxTokens,     \* bound on the refresh tokens issued
    MaxLoads,      \* bound on page loads
    MaxFailures,   \* bound on the calls that fail, half way or at once
    MaxHasty       \* bound on reloads and sign-outs during a refresh

ASSUME TabsAssumption == NoTab \notin Tabs /\ IsFiniteSet(Calls)
ASSUME SessionBoundsAssumption == {MaxTokens, MaxLoads, MaxFailures, MaxHasty} \subseteq Nat

VARIABLES
    tokens,        \* the RefreshToken rows, in order of issue
    cookie,        \* the browser's refresh cookie (0: none)
    account,       \* User.status
    tab,           \* the auth store of each tab
    call,          \* the POST /auth/refresh in flight
    loads, failures, hasty

vars == <<tokens, cookie, account, tab, call, loads, failures, hasty>>

-----------------------------------------------------------------------------

TokenId == 0 .. MaxTokens

(* login: the token its sign-in began with, what the chain of replacedById *)
(* leads back to.                                                          *)
Token == [status : {"unborn", "active", "revoked"}, expired : BOOLEAN,
          next : TokenId, login : TokenId]

(* flight: refreshInFlight is set; query: an api() call waits for it after *)
(* a 401; valid: the access token in memory has not expired.               *)
Tab == [status : {"closed", "restoring", "authenticated", "anonymous"},
        valid : BOOLEAN, flight : BOOLEAN, query : BOOLEAN]

Call == [stage : {"idle", "find", "family", "revoke", "issue", "account", "refused", "granted"},
         tab : Tabs \cup {NoTab}, presented : TokenId, next : TokenId]

NoCall == [stage |-> "idle", tab |-> NoTab, presented |-> 0, next |-> 0]

TypeOK ==
    /\ tokens \in [1 .. MaxTokens -> Token]
    /\ cookie \in TokenId
    /\ account \in {"ACTIVE", "SUSPENDED"}
    /\ tab \in [Tabs -> Tab]
    /\ call \in [Calls -> Call]
    /\ {loads, failures, hasty} \subseteq Nat

Init ==
    /\ tokens = [x \in 1 .. MaxTokens |->
                  [status |-> "unborn", expired |-> FALSE, next |-> 0, login |-> 0]]
    /\ cookie = 0
    /\ account = "ACTIVE"
    /\ tab = [t \in Tabs |->
               [status |-> "closed", valid |-> FALSE, flight |-> FALSE, query |-> FALSE]]
    /\ call = [c \in Calls |-> NoCall]
    /\ loads = 0 /\ failures = 0 /\ hasty = 0

-----------------------------------------------------------------------------
(* Control.                                                                *)

At(c, stage) == call[c].stage = stage
Goto(c, stage) == call' = [call EXCEPT ![c].stage = stage]
Issued == {x \in DOMAIN tokens : tokens[x].status # "unborn"}
Fresh == Cardinality(Issued) + 1
Active == {x \in DOMAIN tokens : tokens[x].status = "active"}

(* The bound MaxTokens is kept where a token is asked for, so that no      *)
(* refresh stops half way for want of one.                                 *)
TokensLeft ==
    Cardinality(Issued)
        + Cardinality({c \in Calls : call[c].stage \in {"find", "revoke", "issue"}}) < MaxTokens

(* POST /auth/refresh: the browser adds the cookie it has now.             *)
Post(t) == [stage |-> "find", tab |-> t, presented |-> cookie, next |-> 0]

(* restoreSession's two outcomes: applySession, or nobody is signed in.    *)
(* The query that waited is retried, or fails: either way it is over.      *)
Restored == [status |-> "authenticated", valid |-> TRUE, flight |-> FALSE, query |-> FALSE]
(* Mutant: a refusal forgets the query that waits.                         *)
ForgetQuery == [status |-> "anonymous", valid |-> FALSE, flight |-> FALSE]
NotRestored == [status |-> "anonymous", valid |-> FALSE, flight |-> FALSE, query |-> FALSE]

(* The user leaves or signs out while a refresh is on its way.             *)
Hasten(t) ==
    IF tab[t].flight THEN hasty < MaxHasty /\ hasty' = hasty + 1 ELSE UNCHANGED hasty

-----------------------------------------------------------------------------
(* The tabs.                                                               *)

(* A page load: nothing in memory, and AuthBootstrap restores the session. *)
(* A refresh the previous page still waited for has lost its reader.       *)
Load(t, c) ==
    /\ At(c, "idle") /\ TokensLeft
    /\ loads < MaxLoads
    /\ loads' = loads + 1
    /\ tab' = [tab EXCEPT ![t] = [status |-> "restoring", valid |-> FALSE,
                                  flight |-> TRUE, query |-> FALSE]]
    /\ call' = [d \in Calls |->
                  IF d = c THEN Post(t)
                  ELSE IF call[d].tab = t THEN [call[d] EXCEPT !.tab = NoTab] ELSE call[d]]
    /\ Hasten(t)
    /\ UNCHANGED <<tokens, cookie, account, failures>>

(* Mutant: every 401 sends a refresh of its own.                           *)
QueryAlwaysRefreshes(t, c) ==
    /\ tab[t].status = "authenticated" /\ ~tab[t].valid
    /\ tab' = [tab EXCEPT ![t].query = TRUE, ![t].flight = TRUE]
    /\ At(c, "idle") /\ TokensLeft /\ call' = [call EXCEPT ![c] = Post(t)]
    /\ UNCHANGED <<tokens, cookie, account, loads, failures, hasty>>

(* api() gets a 401 and calls restoreSession, which sends a refresh unless *)
(* one is in flight, and waits for it.                                     *)
Query(t, c) ==
    /\ tab[t].status = "authenticated" /\ ~tab[t].valid /\ ~tab[t].query
    /\ tab' = [tab EXCEPT ![t].query = TRUE, ![t].flight = TRUE]
    /\ \/ /\ ~tab[t].flight /\ At(c, "idle") /\ TokensLeft
          /\ call' = [call EXCEPT ![c] = Post(t)]
       \/ tab[t].flight /\ UNCHANGED call
    /\ UNCHANGED <<tokens, cookie, account, loads, failures, hasty>>

(* restoreSession without a 401: a username was claimed, the email was     *)
(* verified.                                                               *)
Renew(t, c) ==
    /\ tab[t].valid /\ ~tab[t].flight
    /\ tab' = [tab EXCEPT ![t].flight = TRUE]
    /\ At(c, "idle") /\ TokensLeft /\ call' = [call EXCEPT ![c] = Post(t)]
    /\ UNCHANGED <<tokens, cookie, account, loads, failures, hasty>>

(* login: assertActive, a new row that replaces none, the cookie,          *)
(* applySession.  (The Google callback is this, then a page load.)         *)
Login(t) ==
    /\ tab[t].status = "anonymous" /\ account = "ACTIVE" /\ TokensLeft
    /\ tokens' = [tokens EXCEPT ![Fresh] =
                   [status |-> "active", expired |-> FALSE, next |-> 0, login |-> Fresh]]
    /\ cookie' = Fresh
    /\ tab' = [tab EXCEPT ![t].status = "authenticated", ![t].valid = TRUE]
    /\ UNCHANGED <<account, call, loads, failures, hasty>>

(* revokeByToken and clearCookie, or a request that fails; the store is    *)
(* emptied either way.  A refresh in flight is not called off.             *)
Logout(t) ==
    /\ tab[t].status = "authenticated"
    /\ \/ /\ tokens' = [x \in DOMAIN tokens |->
                           IF x = cookie /\ x \in Active
                           THEN [tokens[x] EXCEPT !.status = "revoked"] ELSE tokens[x]]
          /\ cookie' = 0
          /\ UNCHANGED failures
       \/ /\ failures < MaxFailures
          /\ failures' = failures + 1
          /\ UNCHANGED <<tokens, cookie>>
    /\ tab' = [tab EXCEPT ![t].status = "anonymous", ![t].valid = FALSE]
    /\ Hasten(t)
    /\ UNCHANGED <<account, call, loads>>

(* Time: the access token (minutes), the refresh token (days).             *)
ExpireAccess(t) ==
    /\ tab[t].valid
    /\ tab' = [tab EXCEPT ![t].valid = FALSE]
    /\ UNCHANGED <<tokens, cookie, account, call, loads, failures, hasty>>

ExpireToken(x) ==
    /\ x \in Issued /\ ~tokens[x].expired
    /\ tokens' = [tokens EXCEPT ![x].expired = TRUE]
    /\ UNCHANGED <<cookie, account, tab, call, loads, failures, hasty>>

(* Site staff suspend the account (in the database: no code here does).    *)
Suspend ==
    /\ account = "ACTIVE"
    /\ account' = "SUSPENDED"
    /\ UNCHANGED <<tokens, cookie, tab, call, loads, failures, hasty>>

-----------------------------------------------------------------------------
(* The refresh handler: rotateRefreshToken, then assertActive.             *)

FindToken(c) ==
    LET x == call[c].presented IN
    /\ At(c, "find")
    /\ \/ x \notin Issued /\ Goto(c, "refused")
       \/ x \in Issued /\ x \notin Active /\ Goto(c, "family")
       \/ x \in Active /\ tokens[x].expired /\ Goto(c, "refused")
       \/ x \in Active /\ ~tokens[x].expired /\ Goto(c, "revoke")
    /\ UNCHANGED <<tokens, cookie, account, tab, loads, failures, hasty>>

(* REFRESH_REUSED: every active session of the user goes.                  *)
RevokeFamily(c) ==
    /\ At(c, "family")
    /\ tokens' = [x \in DOMAIN tokens |->
                    IF x \in Active THEN [tokens[x] EXCEPT !.status = "revoked"] ELSE tokens[x]]
    /\ Goto(c, "refused")
    /\ UNCHANGED <<cookie, account, tab, loads, failures, hasty>>

(* Mutant: the old row is linked to its successor but not revoked.         *)
KeepPresented(c) ==
    /\ At(c, "revoke") /\ Goto(c, "issue")
    /\ UNCHANGED <<tokens, cookie, account, tab, loads, failures, hasty>>

(* By id alone: another rotation of the same row may have come first.      *)
RevokePresented(c) ==
    /\ At(c, "revoke")
    /\ tokens' = [tokens EXCEPT ![call[c].presented].status = "revoked"]
    /\ Goto(c, "issue")
    /\ UNCHANGED <<cookie, account, tab, loads, failures, hasty>>

IssueNext(c) ==
    LET x == call[c].presented IN
    /\ At(c, "issue")
    /\ tokens' = [tokens EXCEPT
                    ![Fresh] = [status |-> "active", expired |-> FALSE, next |-> 0,
                                login |-> tokens[x].login],
                    ![x].next = Fresh]
    /\ call' = [call EXCEPT ![c].next = Fresh, ![c].stage = "account"]
    /\ UNCHANGED <<cookie, account, tab, loads, failures, hasty>>

CheckAccount(c) ==
    /\ At(c, "account")
    /\ IF account = "ACTIVE" THEN Goto(c, "granted") ELSE Goto(c, "refused")
    /\ UNCHANGED <<tokens, cookie, account, tab, loads, failures, hasty>>

(* Mutant: the 401 of the refresh itself waits for a refresh, the one it   *)
(* is.                                                                     *)
RefusedAwaitsItself(c) ==
    /\ At(c, "refused")
    /\ call' = [call EXCEPT ![c] = NoCall]
    /\ UNCHANGED <<tokens, cookie, account, tab, loads, failures, hasty>>

(* 200: the browser stores the cookie, the tab applies the session.  An    *)
(* answer nobody waits for is discarded, cookie and all.                   *)
Grant(c) ==
    LET t == call[c].tab IN
    /\ At(c, "granted")
    /\ \/ t # NoTab /\ cookie' = call[c].next /\ tab' = [tab EXCEPT ![t] = Restored]
       \/ t = NoTab /\ UNCHANGED <<cookie, tab>>
    /\ call' = [call EXCEPT ![c] = NoCall]
    /\ UNCHANGED <<tokens, account, loads, failures, hasty>>

(* 401: the cookie stays as it is.                                         *)
Refuse(c) ==
    LET t == call[c].tab IN
    /\ At(c, "refused")
    /\ \/ t # NoTab /\ tab' = [tab EXCEPT ![t] = NotRestored]
       \/ t = NoTab /\ UNCHANGED tab
    /\ call' = [call EXCEPT ![c] = NoCall]
    /\ UNCHANGED <<tokens, cookie, account, loads, failures, hasty>>

(* The pod dies, a query throws, or the answer is lost.                    *)
Fail(c) ==
    LET t == call[c].tab IN
    /\ ~At(c, "idle")
    /\ failures < MaxFailures
    /\ failures' = failures + 1
    /\ \/ t # NoTab /\ tab' = [tab EXCEPT ![t] = NotRestored]
       \/ t = NoTab /\ UNCHANGED tab
    /\ call' = [call EXCEPT ![c] = NoCall]
    /\ UNCHANGED <<tokens, cookie, account, loads, hasty>>

-----------------------------------------------------------------------------

Step(c) ==
    \/ FindToken(c) \/ RevokeFamily(c) \/ RevokePresented(c) \/ IssueNext(c)
    \/ CheckAccount(c) \/ Grant(c) \/ Refuse(c)

User(t) ==
    \/ \E c \in Calls : Load(t, c) \/ Query(t, c) \/ Renew(t, c)
    \/ Login(t) \/ Logout(t) \/ ExpireAccess(t)

Next ==
    \/ \E t \in Tabs : User(t)
    \/ \E c \in Calls : Step(c) \/ Fail(c)
    \/ \E x \in DOMAIN tokens : ExpireToken(x)
    \/ Suspend

Spec == Init /\ [][Next]_vars

(* Every await of a handler settles, and the answer reaches the browser.   *)
FairSpec == Spec /\ \A c \in Calls : WF_vars(Step(c))

-----------------------------------------------------------------------------
(* Properties.                                                             *)

Undisturbed == failures = 0 /\ hasty = 0 /\ account = "ACTIVE"

(* A browser whose answers all arrive is never taken for a thief: it does  *)
(* not present a token that was rotated already.                           *)
NoSpuriousReuse == Undisturbed => \A c \in Calls : ~At(c, "family")

(* One sign-in has one live refresh token: rotation never forks a session, *)
(* whatever fails, as long as one refresh of it is in flight at a time;    *)
(* and a signed-in tab that is not refreshing has it in its cookie, as     *)
(* long as all answers arrive.                                             *)
OneLiveToken ==
    /\ hasty = 0 => \A x, y \in Active : tokens[x].login = tokens[y].login => x = y
    /\ Undisturbed =>
        \A t \in Tabs : tab[t].status = "authenticated" /\ ~tab[t].flight => cookie \in Active

(* A page that restores its session, or a query that waits for that, comes *)
(* to an end: signed in or not, it does not wait forever.                  *)
RestoreSettles ==
    \A t \in Tabs : (tab[t].status = "restoring" \/ tab[t].query)
        ~> (tab[t].status # "restoring" /\ ~tab[t].query)

=============================================================================
