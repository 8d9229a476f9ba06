--------------------------- MODULE AccountsProofs ---------------------------
(***************************************************************************)
(* What holds of Accounts for any addresses, Google accounts, names,       *)
(* browsers and clicks, and any number of mails, forms, loads and          *)
(* failures.                                                               *)
(***************************************************************************)
EXTENDS Accounts, TLAPS

-----------------------------------------------------------------------------
(* The inductive invariant.                                                *)

(* Whoever is named by a page, a form or a refresh has an account, and     *)
(* what they were told of it is true still: a confirmation is never taken  *)
(* back and a name never changed.                                          *)
Known(u, saw) ==
    u # 0 =>
        /\ u \in UserIds
        /\ saw.ver => users[u].verified
        /\ saw.name # NoName => users[u].name = saw.name

RowsOK ==
    /\ Distinct(users)
    /\ \A u \in UserIds : Proved(users[u]) \/ u \in opened \cup promoted

(* A form that was checked: the account it found, the rows it compared.    *)
FormOK(b) ==
    LET f == form[b] IN
    /\ Known(f.user, f.saw)
    /\ f.stage \in {"check", "link", "answer"} \/ f.kind \in {"claim", "resend"} => f.user # 0
    /\ f.kind = "google" => f.google \in Googles /\ f.email = GoogleAddress[f.google]
    /\ f.kind = "google" /\ f.stage \in {"find", "findEmail"} => f.saw = Nothing
    /\ f.kind = "claim" => f.name \in Names
    /\ At(b, "google", "link") => users[f.user].email = f.email
    /\ At(b, "claim", "create") => Fold[f.name] \notin Reserved

(* What a refresh read after a claim has the name.                         *)
AfterClaim(b) ==
    LET f == form[b] IN
    /\ f.kind = "claim" /\ f.stage \in {"answer", "restore", "done"}
        => users[f.user].name # NoName
    /\ f.stage \in {"restore", "done"} => f.kind = "claim"
    /\ /\ f.stage \in {"restore", "done"} /\ ~f.joined
       /\ flight[b].stage = "read" /\ flight[b].user = f.user
      => flight[b].saw.name = users[f.user].name
    /\ /\ f.stage = "done" /\ ~f.joined
       /\ page[b].status = "authenticated" /\ page[b].user = f.user
      => page[b].saw.name = users[f.user].name

(* What is read after the page was told of a confirmation shows it.        *)
AfterTold(b) ==
    LET t == page[b].told IN
    /\ t # 0 => t \in UserIds /\ users[t].verified
    /\ flight[b].stage = "read" /\ flight[b].user = t => flight[b].saw.ver
    /\ /\ form[b].kind \in {"signup", "login"} /\ form[b].stage \in {"check", "answer"}
       /\ form[b].waits /\ form[b].user = t
      => form[b].saw.ver
    /\ page[b].status = "authenticated" /\ page[b].user = t => page[b].saw.ver

PageOK(b) ==
    /\ Known(page[b].user, page[b].saw)
    /\ page[b].status = "authenticated" => page[b].user # 0
    /\ Known(cookie[b], Nothing)

FlightOK(b) ==
    /\ Known(flight[b].user, flight[b].saw)
    /\ flight[b].stage = "read" => flight[b].user # 0

LinksOK ==
    /\ sending \subseteq UserIds
    /\ \A l \in DOMAIN links : links[l].user \in UserIds

(* A click has a link, which it has opened, and tells what it did.         *)
ClickOK(c) ==
    LET l == click[c].link IN
    click[c].stage # "idle" =>
        /\ l \in DOMAIN links /\ links[l].user \in opened
        /\ click[c].ok => users[links[l].user].verified

PostedOK ==
    \A u \in posted : u \in UserIds /\ users[u].verified /\ users[u].name # NoName

AccountsInv ==
    /\ TypeOK /\ RowsOK /\ LinksOK /\ PostedOK /\ LinkTakesEffect
    /\ \A b \in Browsers : FormOK(b) /\ AfterClaim(b) /\ AfterTold(b) /\ PageOK(b) /\ FlightOK(b)
    /\ \A c \in Clicks : ClickOK(c)

-----------------------------------------------------------------------------
(* Sequences and types.                                                    *)

(* A row written anew is a row where it was.                               *)
LEMMA Rewritten ==
    ASSUME NEW S, NEW s \in Seq(S), NEW i \in DOMAIN s, NEW x \in S
    PROVE  /\ [s EXCEPT ![i] = x] \in Seq(S)
           /\ DOMAIN [s EXCEPT ![i] = x] = DOMAIN s
OBVIOUS

(* A row added comes last.                                                 *)
LEMMA Added ==
    ASSUME NEW S, NEW s \in Seq(S), NEW x \in S
    PROVE  /\ Append(s, x) \in Seq(S)
           /\ DOMAIN Append(s, x) = DOMAIN s \cup {Len(s) + 1}
           /\ Len(s) + 1 \notin DOMAIN s /\ Len(s) + 1 \in Nat \ {0}
           /\ \A i \in DOMAIN s : Append(s, x)[i] = s[i]
           /\ Append(s, x)[Len(s) + 1] = x
OBVIOUS

LEMMA Blank ==
    NoForm \in Form /\ Closed \in Page /\ NoFlight \in Flight /\ NoClick \in Click
<1>1. (CHOOSE e \in Addresses : TRUE) \in Addresses
  BY NamesAssumption
<1> QED
  BY <1>1 DEF NoForm, Form, Closed, Page, NoFlight, Flight, NoClick, Click, Nothing, Seen,
              NameOrNone, UserId

(* An account is numbered from one.                                        *)
LEMMA IdsPositive ==
    ASSUME users \in Seq(User)
    PROVE  UserIds \subseteq Nat \ {0}
BY DEF UserIds

LEMMA InitInv == Init => AccountsInv
<1> SUFFICES ASSUME Init PROVE AccountsInv
  OBVIOUS
<1>1. TypeOK
  BY Blank, SettledAssumption DEF Init, TypeOK, Closed, Page, UserId
<1>2. RowsOK
  BY SettledAssumption DEF Init, RowsOK, UserIds
<1>3. LinksOK /\ PostedOK /\ LinkTakesEffect
  BY DEF Init, LinksOK, PostedOK, LinkTakesEffect
<1>4. \A b \in Browsers : FormOK(b) /\ AfterClaim(b) /\ AfterTold(b) /\ PageOK(b) /\ FlightOK(b)
  BY DEF Init, FormOK, AfterClaim, AfterTold, PageOK, FlightOK, Known, NoForm, NoFlight, Closed, At
<1>5. \A c \in Clicks : ClickOK(c)
  BY DEF Init, ClickOK, NoClick
<1> QED
  BY <1>1, <1>2, <1>3, <1>4, <1>5 DEF AccountsInv

-----------------------------------------------------------------------------
(* Accounts are only added to: an address and a name once given stay, and  *)
(* so does a confirmation.                                                 *)

Grows ==
    /\ UserIds \subseteq UserIds'
    /\ \A u \in UserIds :
        /\ users'[u].email = users[u].email
        /\ users[u].verified => users'[u].verified
        /\ users[u].name # NoName => users'[u].name = users[u].name

UserSteps ==
    \/ \E b \in Browsers :
        CreateByPassword(b) \/ LinkGoogle(b) \/ CreateByGoogle(b) \/ CreateProfile(b)
    \/ \E c \in Clicks : MarkVerified(c)
    \/ \E u \in UserIds : Suspend(u) \/ Promote(u)

LEMMA WhoWritesUsers ==
    ASSUME Next
    PROVE  UserSteps \/ UNCHANGED users
<1>1. ASSUME NEW b \in Browsers, AtForm(b) PROVE UNCHANGED users
  BY <1>1 DEF AtForm, SubmitAuth, StartGoogle, SubmitName, AskAgain, Logout, Post, server
<1>2. ASSUME NEW b \in Browsers, Handle(b) PROVE UserSteps \/ UNCHANGED users
  BY <1>2 DEF Handle, FindTaken, FindByEmail, CheckPassword, FindByGoogle, FindToLink, SignedIn,
     Landed, FindProfile, Claimed, Resend, ReadAccount, Restored, NotRestored, server, UserSteps
<1>3. ASSUME NEW b \in Browsers, OpenPage(b) \/ Requery(b) \/ FailForm(b) \/ FailFlight(b)
      PROVE  UNCHANGED users
  BY <1>3 DEF OpenPage, Requery, FailForm, FailFlight, server
<1>4. ASSUME NEW c \in Clicks, Confirm(c) PROVE UserSteps \/ UNCHANGED users
  BY <1>4 DEF Confirm, OpenLink, TakeLink, Dismiss, FailClick, Bounce, server, UserSteps
<1>5. ASSUME NEW u \in UserIds, SendLink(u) \/ Suspend(u) \/ Promote(u)
      PROVE  UserSteps \/ UNCHANGED users
  BY <1>5 DEF SendLink, UserSteps
<1>6. ASSUME NEW l \in DOMAIN links, ExpireLink(l) PROVE UNCHANGED users
  BY <1>6 DEF ExpireLink
<1> QED
  BY <1>1, <1>2, <1>3, <1>4, <1>5, <1>6 DEF Next

LEMMA StepGrows ==
    ASSUME AccountsInv, Next
    PROVE  Grows /\ users' \in Seq(User)
<1>0. users \in Seq(User)
  BY DEF AccountsInv, TypeOK
<1>1. CASE UNCHANGED users
  BY <1>0, <1>1 DEF Grows, UserIds
<1>2. ASSUME NEW row \in User, users' = Append(users, row) PROVE Grows /\ users' \in Seq(User)
  BY <1>0, <1>2, Added DEF Grows, UserIds
<1>3. ASSUME NEW u \in UserIds, NEW row \in User, users' = [users EXCEPT ![u] = row],
             row.email = users[u].email, users[u].verified => row.verified,
             users[u].name # NoName => row.name = users[u].name
      PROVE  Grows /\ users' \in Seq(User)
  <2>1. users' \in Seq(User) /\ DOMAIN users' = DOMAIN users
    BY <1>0, <1>3, Rewritten DEF UserIds
  <2>2. \A v \in UserIds : users'[v] = IF v = u THEN row ELSE users[v]
    BY <1>0, <1>3 DEF UserIds
  <2> QED
    BY <1>3, <2>1, <2>2 DEF Grows, UserIds
<1>4. ASSUME NEW b \in Browsers, CreateByPassword(b) PROVE Grows /\ users' \in Seq(User)
  <2>1. [Newcomer(form[b].email) EXCEPT !.password = TRUE] \in User
    BY DEF Newcomer, User, AccountsInv, TypeOK, Form, NameOrNone
  <2> QED
    BY <1>1, <1>2, <1>4, <2>1 DEF CreateByPassword
<1>5. ASSUME NEW b \in Browsers, CreateByGoogle(b) PROVE Grows /\ users' \in Seq(User)
  <2>1. [Newcomer(form[b].email) EXCEPT !.google = form[b].google, !.verified = TRUE] \in User
    BY DEF Newcomer, User, AccountsInv, TypeOK, Form, NameOrNone
  <2> QED
    BY <1>1, <1>2, <1>5, <2>1 DEF CreateByGoogle
<1>6. ASSUME NEW b \in Browsers, LinkGoogle(b) PROVE Grows /\ users' \in Seq(User)
  <2> DEFINE u == form[b].user
             row == [users[u] EXCEPT !.google = form[b].google, !.verified = TRUE]
  <2>1. u \in UserIds
    BY <1>6 DEF AccountsInv, FormOK, Known, LinkGoogle, At
  <2>2. users[u] \in User
    BY <1>0, <2>1 DEF UserIds
  <2>3. row \in User /\ row.email = users[u].email /\ row.verified /\ row.name = users[u].name
    BY <2>2 DEF User, AccountsInv, TypeOK, Form
  <2>4. users' = [users EXCEPT ![u] = row] \/ UNCHANGED users
    BY <1>6 DEF LinkGoogle
  <2> HIDE DEF u, row
  <2> QED
    BY <1>1, <1>3, <2>1, <2>3, <2>4
<1>7. ASSUME NEW b \in Browsers, CreateProfile(b) PROVE Grows /\ users' \in Seq(User)
  <2> DEFINE u == form[b].user
             row == [users[u] EXCEPT !.name = form[b].name]
  <2>1. u \in UserIds
    BY <1>7 DEF AccountsInv, FormOK, Known, CreateProfile, At
  <2>2. users[u] \in User
    BY <1>0, <2>1 DEF UserIds
  <2>3. row \in User /\ row.email = users[u].email /\ row.verified = users[u].verified
    BY <2>2 DEF User, AccountsInv, TypeOK, Form
  <2>4. UNCHANGED users \/ (users' = [users EXCEPT ![u] = row] /\ users[u].name = NoName)
    BY <1>7 DEF CreateProfile
  <2> HIDE DEF u, row
  <2> QED
    BY <1>1, <1>3, <2>1, <2>3, <2>4
<1>8. ASSUME NEW u \in UserIds,
             \/ users' = [users EXCEPT ![u].verified = TRUE]
             \/ users' = [users EXCEPT ![u].active = FALSE]
      PROVE  Grows /\ users' \in Seq(User)
  <2>1. users[u] \in User
    BY <1>0 DEF UserIds
  <2>2. CASE users' = [users EXCEPT ![u] = [users[u] EXCEPT !.verified = TRUE]]
    <3> DEFINE row == [users[u] EXCEPT !.verified = TRUE]
    <3>1. row \in User /\ row.email = users[u].email /\ row.verified /\ row.name = users[u].name
      BY <2>1 DEF User
    <3> QED
      BY <1>3, <2>2, <3>1
  <2>3. CASE users' = [users EXCEPT ![u] = [users[u] EXCEPT !.active = FALSE]]
    <3> DEFINE row == [users[u] EXCEPT !.active = FALSE]
    <3>1. row \in User /\ row.email = users[u].email /\ row.verified = users[u].verified
          /\ row.name = users[u].name
      BY <2>1 DEF User
    <3> QED
      BY <1>3, <2>3, <3>1
  <2> QED
    BY <1>8, <2>2, <2>3
<1>9. ASSUME NEW c \in Clicks, MarkVerified(c) PROVE Grows /\ users' \in Seq(User)
  <2>1. links[click[c].link].user \in UserIds
    BY <1>9 DEF AccountsInv, LinksOK, ClickOK, MarkVerified
  <2> QED
    BY <1>8, <1>9, <2>1 DEF MarkVerified
<1>10. ASSUME NEW u \in UserIds, Suspend(u) \/ Promote(u) PROVE Grows /\ users' \in Seq(User)
  BY <1>8, <1>10 DEF Suspend, Promote
<1> QED
  BY <1>1, <1>4, <1>5, <1>6, <1>7, <1>9, <1>10, WhoWritesUsers DEF UserSteps

-----------------------------------------------------------------------------
(* Types.                                                                  *)

(* An answer shows a profile and a confirmation.                           *)
LEMMA ShownIsSeen ==
    ASSUME TypeOK, NEW u \in UserIds
    PROVE  users[u] \in User /\ Shown(u) \in Seen
<1>1. users[u] \in User
  BY DEF TypeOK, UserIds
<1> QED
  BY <1>1 DEF User, Shown, Seen

(* A page that is loaded gives up what its form waits for.                 *)
LEMMA LoadedTypes ==
    ASSUME AccountsInv, NEW b \in Browsers, NEW told \in UserIds \cup {0}, Load(b, told)
    PROVE  /\ form' \in [Browsers -> Form]
           /\ page' \in [Browsers -> Page]
           /\ flight' \in [Browsers -> Flight]
<1>0. /\ TypeOK /\ form \in [Browsers -> Form] /\ page \in [Browsers -> Page]
      /\ flight \in [Browsers -> Flight] /\ cookie \in [Browsers -> Nat] /\ told \in Nat
  BY IdsPositive DEF AccountsInv, TypeOK, UserId
<1>1. [form[b] EXCEPT !.waits = FALSE] \in Form
  BY <1>0 DEF Form
<1>2. [Closed EXCEPT !.status = "restoring", !.told = told] \in Page
  BY <1>0, Blank DEF Page, UserId
<1>3. Asked(b) \in Flight
  BY <1>0, Blank DEF Asked, Flight, NoFlight, UserId
<1> QED
  BY <1>0, <1>1, <1>2, <1>3, Blank DEF Load

LEMMA FormTypes ==
    ASSUME AccountsInv, Next
    PROVE  form' \in [Browsers -> Form]
<1>0. /\ TypeOK /\ form \in [Browsers -> Form] /\ page \in [Browsers -> Page]
      /\ NoForm \in Form
  BY Blank DEF AccountsInv, TypeOK
<1>1. ASSUME NEW b \in Browsers, NEW f \in Form, form' = [form EXCEPT ![b] = f]
      PROVE  form' \in [Browsers -> Form]
  BY <1>0, <1>1
<1>2. ASSUME NEW b \in Browsers, AtForm(b) PROVE form' \in [Browsers -> Form]
  <2>1. \A e \in Addresses, kind \in {"signup", "login"} :
          [NoForm EXCEPT !.kind = kind, !.stage = "find", !.email = e, !.waits = TRUE] \in Form
    BY <1>0 DEF Form
  <2>2. \A g \in Googles :
          [NoForm EXCEPT !.kind = "google", !.stage = "find", !.email = GoogleAddress[g],
                         !.google = g, !.waits = TRUE] \in Form
    BY <1>0, GoogleAssumption DEF Form
  <2>3. \A n \in Names, u \in UserId :
          [NoForm EXCEPT !.kind = "claim", !.stage = "find", !.name = n, !.user = u,
                         !.waits = TRUE] \in Form
    BY <1>0 DEF Form, NameOrNone
  <2>4. \A u \in UserId :
          [NoForm EXCEPT !.kind = "resend", !.stage = "find", !.user = u, !.waits = TRUE] \in Form
    BY <1>0 DEF Form
  <2>5. page[b].user \in UserId
    BY <1>0 DEF Page
  <2> QED
    BY <1>0, <1>1, <1>2, <2>1, <2>2, <2>3, <2>4, <2>5
    DEF AtForm, SubmitAuth, StartGoogle, SubmitName, AskAgain, Logout, Post, Begin, Refuse
<1>3. ASSUME NEW b \in Browsers, Handle(b) PROVE form' \in [Browsers -> Form]
  <2>1. ASSUME NEW stage \in {"create", "findEmail", "answer", "done"}, Goto(b, stage)
        PROVE  form' \in [Browsers -> Form]
    BY <1>0, <2>1 DEF Goto, Form
  <2>2. CASE Refuse(b)
    BY <1>0, <2>2 DEF Refuse
  <2>3. ASSUME NEW u \in UserId, NEW saw \in Seen, Answer(b, u, saw)
        PROVE  form' \in [Browsers -> Form]
    <3> DEFINE f == [form[b] EXCEPT !.stage = "answer", !.user = u, !.saw = saw]
    <3>1. f \in Form
      BY <1>0 DEF Form
    <3>2. form' = [form EXCEPT ![b] = f]
      BY <1>0, <2>3 DEF Answer
    <3> QED
      BY <1>1, <3>1, <3>2
  <2>4. ASSUME NEW u \in UserId, NEW row \in User, AnswerActive(b, u, row)
        PROVE  form' \in [Browsers -> Form]
    <3>1. [name |-> row.name, ver |-> row.verified] \in Seen
      BY DEF User, Seen
    <3>2. Refuse(b) \/ Answer(b, u, [name |-> row.name, ver |-> row.verified])
      BY <2>4 DEF AnswerActive
    <3> QED
      BY <2>2, <2>3, <3>1, <3>2
  <2>5. UserIds \subseteq UserId /\ Nothing \in Seen /\ Len(users) + 1 \in UserId
    BY <1>0, IdsPositive DEF UserId, Nothing, Seen, NameOrNone, TypeOK
  <2>6. CASE CreateByPassword(b)
    BY <2>2, <2>3, <2>5, <2>6 DEF CreateByPassword
  <2>7. CASE FindByEmail(b)
    <3>1. ASSUME NEW u \in UserIds,
                 form' = [form EXCEPT ![b].stage = "check", ![b].user = u, ![b].saw = Shown(u)]
          PROVE  form' \in [Browsers -> Form]
      <4> DEFINE f == [form[b] EXCEPT !.stage = "check", !.user = u, !.saw = Shown(u)]
      <4>1. f \in Form
        BY <1>0, <2>5, ShownIsSeen DEF Form
      <4>2. form' = [form EXCEPT ![b] = f]
        BY <1>0, <3>1
      <4> QED
        BY <1>1, <4>1, <4>2
    <3> QED
      BY <2>2, <2>7, <3>1 DEF FindByEmail, ByEmail
  <2>8. CASE FindByGoogle(b)
    BY <1>0, <2>1, <2>4, <2>5, <2>8, ShownIsSeen DEF FindByGoogle, ByGoogle
  <2>9. CASE FindToLink(b)
    <3>1. ASSUME NEW u \in UserIds, form' = [form EXCEPT ![b].stage = "link", ![b].user = u]
          PROVE  form' \in [Browsers -> Form]
      BY <1>0, <2>5, <3>1 DEF Form
    <3> QED
      BY <2>1, <2>9, <3>1 DEF FindToLink, ByEmail
  <2>10. CASE LinkGoogle(b)
    <3>1. form[b].user \in UserIds
      BY <2>10 DEF AccountsInv, FormOK, Known, LinkGoogle, At
    <3>2. [users[form[b].user] EXCEPT !.google = form[b].google, !.verified = TRUE] \in User
      BY <1>0, <3>1, ShownIsSeen DEF User, Form
    <3> QED
      BY <2>2, <2>4, <2>5, <2>10, <3>1, <3>2 DEF LinkGoogle
  <2>11. CASE CreateByGoogle(b)
    <3>1. [Newcomer(form[b].email) EXCEPT !.google = form[b].google, !.verified = TRUE] \in User
      BY <1>0 DEF Newcomer, User, Form, NameOrNone
    <3> QED
      BY <2>2, <2>4, <2>5, <2>11, <3>1 DEF CreateByGoogle
  <2>12. CASE Claimed(b)
    <3> DEFINE f == [form[b] EXCEPT !.stage = "restore", !.joined = flight[b].stage # "none"]
    <3>1. f \in Form
      BY <1>0 DEF Form
    <3>2. Refuse(b) \/ form' = [form EXCEPT ![b] = f]
      BY <1>0, <2>12 DEF Claimed
    <3> QED
      BY <1>1, <2>2, <3>1, <3>2
  <2>13. CASE ReadAccount(b)
    BY <1>0, <2>13 DEF ReadAccount
  <2>14. CASE Restored(b) \/ NotRestored(b)
    BY <1>0, <2>1, <2>2, <2>14 DEF Restored, NotRestored, Goto
  <2> QED
    BY <1>3, <2>1, <2>2, <2>6, <2>7, <2>8, <2>9, <2>10, <2>11, <2>12, <2>13, <2>14
    DEF Handle, FindTaken, CheckPassword, FindProfile, CreateProfile, Resend, SignedIn, Landed
<1>4. ASSUME NEW b \in Browsers, OpenPage(b) \/ Requery(b) \/ FailForm(b) \/ FailFlight(b)
      PROVE  form' \in [Browsers -> Form]
  BY <1>0, <1>4, LoadedTypes DEF OpenPage, Requery, FailForm, FailFlight, Refuse
<1>5. ASSUME NEW c \in Clicks, Confirm(c) PROVE form' \in [Browsers -> Form]
  <2>1. ASSUME NEW b \in Browsers, Bounce(c, b) PROVE form' \in [Browsers -> Form]
    <3>1. links[click[c].link].user \in UserIds
      BY <2>1 DEF AccountsInv, LinksOK, ClickOK, Bounce
    <3> QED
      BY <2>1, <3>1, LoadedTypes DEF Bounce
  <2> QED
    BY <1>0, <1>5, <2>1 DEF Confirm, OpenLink, TakeLink, MarkVerified, Dismiss, FailClick
<1>6. ASSUME NEW u \in UserIds, SendLink(u) \/ Suspend(u) \/ Promote(u)
      PROVE  form' \in [Browsers -> Form]
  BY <1>0, <1>6 DEF SendLink, Suspend, Promote
<1>7. ASSUME NEW l \in DOMAIN links, ExpireLink(l) PROVE form' \in [Browsers -> Form]
  BY <1>0, <1>7 DEF ExpireLink
<1> QED
  BY <1>2, <1>3, <1>4, <1>5, <1>6, <1>7 DEF Next

(* Whose account an answer or a cookie names.                              *)
LEMMA NamedUsers ==
    ASSUME AccountsInv, NEW b \in Browsers
    PROVE  /\ form[b] \in Form /\ page[b] \in Page /\ flight[b] \in Flight
           /\ form[b].user \in Nat /\ form[b].saw \in Seen
           /\ page[b].told \in Nat /\ page[b].user \in Nat
           /\ flight[b].user \in Nat /\ flight[b].saw \in Seen
           /\ cookie[b] \in Nat
<1>1. /\ form[b] \in Form /\ page[b] \in Page /\ flight[b] \in Flight /\ cookie[b] \in Nat
  BY DEF AccountsInv, TypeOK, UserId
<1> QED
  BY <1>1 DEF Form, Page, Flight, UserId

LEMMA PageTypes ==
    ASSUME AccountsInv, Next
    PROVE  page' \in [Browsers -> Page] /\ cookie' \in [Browsers -> UserId]
<1>0. /\ TypeOK /\ page \in [Browsers -> Page] /\ cookie \in [Browsers -> UserId]
      /\ Closed \in Page /\ Nothing \in Seen
  BY Blank DEF AccountsInv, TypeOK, Closed, Page
<1> DEFINE PageTyped == page' \in [Browsers -> Page] /\ cookie' \in [Browsers -> UserId]
<1>1. ASSUME NEW b \in Browsers, AtForm(b) PROVE PageTyped
  <2>1. [Closed EXCEPT !.status = "anonymous", !.told = page[b].told] \in Page
    BY <1>0, NamedUsers DEF Page, UserId
  <2>2. CASE Logout(b)
    BY <1>0, <2>1, <2>2 DEF Logout, UserId
  <2>3. ASSUME NEW g \in Googles, StartGoogle(b, g) PROVE PageTyped
    BY <1>0, <2>3 DEF StartGoogle
  <2> QED
    BY <1>0, <1>1, <2>2, <2>3 DEF AtForm, SubmitAuth, SubmitName, AskAgain, Post
<1>2. ASSUME NEW b \in Browsers, Handle(b) PROVE PageTyped
  <2>1. CASE SignedIn(b)
    <3>1. [page[b] EXCEPT !.status = "authenticated", !.user = form[b].user, !.saw = form[b].saw]
            \in Page
      BY <1>0, NamedUsers DEF Page, UserId
    <3>2. form[b].waits => page' = [page EXCEPT ![b] =
            [page[b] EXCEPT !.status = "authenticated", !.user = form[b].user, !.saw = form[b].saw]]
      BY <1>0, <2>1 DEF SignedIn
    <3> QED
      BY <1>0, <2>1, <3>1, <3>2, NamedUsers DEF SignedIn, UserId
  <2>2. CASE Landed(b)
    <3>1. [Closed EXCEPT !.status = "restoring"] \in Page
      BY <1>0 DEF Page
    <3> QED
      BY <1>0, <2>2, <3>1, NamedUsers DEF Landed, UserId
  <2>3. CASE Restored(b)
    <3>1. [page[b] EXCEPT !.status = "authenticated", !.user = flight[b].user,
                          !.saw = flight[b].saw] \in Page
      BY <1>0, NamedUsers DEF Page, UserId
    <3>2. page' = [page EXCEPT ![b] =
            [page[b] EXCEPT !.status = "authenticated", !.user = flight[b].user,
                            !.saw = flight[b].saw]]
      BY <1>0, <2>3 DEF Restored
    <3> QED
      BY <1>0, <2>3, <3>1, <3>2, NamedUsers DEF Restored, UserId
  <2>4. CASE NotRestored(b)
    <3>1. [page[b] EXCEPT !.status = "anonymous", !.user = 0, !.saw = Nothing] \in Page
      BY <1>0, NamedUsers DEF Page, UserId
    <3>2. page' = [page EXCEPT ![b] =
            [page[b] EXCEPT !.status = "anonymous", !.user = 0, !.saw = Nothing]]
      BY <1>0, <2>4 DEF NotRestored
    <3> QED
      BY <1>0, <2>4, <3>1, <3>2 DEF NotRestored
  <2> QED
    BY <1>0, <1>2, <2>1, <2>2, <2>3, <2>4
    DEF Handle, FindTaken, CreateByPassword, FindByEmail, CheckPassword, FindByGoogle, FindToLink,
        LinkGoogle, CreateByGoogle, FindProfile, CreateProfile, Claimed, Resend, ReadAccount
<1>3. ASSUME NEW b \in Browsers, OpenPage(b) \/ Requery(b) \/ FailForm(b) \/ FailFlight(b)
      PROVE  PageTyped
  BY <1>0, <1>3, LoadedTypes DEF OpenPage, Requery, FailForm, FailFlight
<1>4. ASSUME NEW c \in Clicks, Confirm(c) PROVE PageTyped
  <2>1. ASSUME NEW b \in Browsers, Bounce(c, b) PROVE PageTyped
    <3>1. links[click[c].link].user \in UserIds
      BY <2>1 DEF AccountsInv, LinksOK, ClickOK, Bounce
    <3> QED
      BY <1>0, <2>1, <3>1, LoadedTypes DEF Bounce
  <2> QED
    BY <1>0, <1>4, <2>1 DEF Confirm, OpenLink, TakeLink, MarkVerified, Dismiss, FailClick
<1>5. ASSUME NEW u \in UserIds, SendLink(u) \/ Suspend(u) \/ Promote(u) PROVE PageTyped
  BY <1>0, <1>5 DEF SendLink, Suspend, Promote
<1>6. ASSUME NEW l \in DOMAIN links, ExpireLink(l) PROVE PageTyped
  BY <1>0, <1>6 DEF ExpireLink
<1> QED
  BY <1>1, <1>2, <1>3, <1>4, <1>5, <1>6 DEF Next

LEMMA FlightTypes ==
    ASSUME AccountsInv, Next
    PROVE  flight' \in [Browsers -> Flight]
<1>0. TypeOK /\ flight \in [Browsers -> Flight] /\ NoFlight \in Flight
  BY Blank DEF AccountsInv, TypeOK
<1>1. ASSUME NEW b \in Browsers, AtForm(b) PROVE flight' \in [Browsers -> Flight]
  BY <1>0, <1>1 DEF AtForm, SubmitAuth, StartGoogle, SubmitName, AskAgain, Logout, Post
<1>2. ASSUME NEW b \in Browsers PROVE Asked(b) \in Flight
  BY <1>0, NamedUsers DEF Asked, Flight, NoFlight, UserId
<1>3. ASSUME NEW b \in Browsers, Handle(b) PROVE flight' \in [Browsers -> Flight]
  <2>1. CASE Landed(b)
    <3>1. [stage |-> "posted", user |-> form[b].user, saw |-> Nothing] \in Flight
      BY <1>0, NamedUsers DEF Flight, NoFlight, UserId
    <3> QED
      BY <1>0, <2>1, <3>1 DEF Landed
  <2>2. CASE Claimed(b)
    BY <1>0, <1>2, <2>2 DEF Claimed, Restore
  <2>3. CASE ReadAccount(b)
    <3>1. \A u \in UserIds : [flight[b] EXCEPT !.stage = "read", !.saw = Shown(u)] \in Flight
      BY <1>0, NamedUsers, ShownIsSeen DEF Flight
    <3>2. [flight[b] EXCEPT !.stage = "refused"] \in Flight
      BY <1>0, NamedUsers DEF Flight
    <3> QED
      BY <1>0, <2>3, <3>1, <3>2 DEF ReadAccount
  <2> QED
    BY <1>0, <1>3, <2>1, <2>2, <2>3
    DEF Handle, FindTaken, CreateByPassword, FindByEmail, CheckPassword, FindByGoogle, FindToLink,
        LinkGoogle, CreateByGoogle, SignedIn, FindProfile, CreateProfile, Resend, Restored,
        NotRestored
<1>4. ASSUME NEW b \in Browsers, OpenPage(b) \/ Requery(b) \/ FailForm(b) \/ FailFlight(b)
      PROVE  flight' \in [Browsers -> Flight]
  <2>1. [flight[b] EXCEPT !.stage = "refused"] \in Flight
    BY <1>0, NamedUsers DEF Flight
  <2> QED
    BY <1>0, <1>2, <1>4, <2>1, LoadedTypes DEF OpenPage, Requery, FailForm, FailFlight, Restore
<1>5. ASSUME NEW c \in Clicks, Confirm(c) PROVE flight' \in [Browsers -> Flight]
  <2>1. ASSUME NEW b \in Browsers, Bounce(c, b) PROVE flight' \in [Browsers -> Flight]
    <3>1. links[click[c].link].user \in UserIds
      BY <2>1 DEF AccountsInv, LinksOK, ClickOK, Bounce
    <3> QED
      BY <2>1, <3>1, LoadedTypes DEF Bounce
  <2> QED
    BY <1>0, <1>5, <2>1 DEF Confirm, OpenLink, TakeLink, MarkVerified, Dismiss, FailClick
<1>6. ASSUME NEW u \in UserIds, SendLink(u) \/ Suspend(u) \/ Promote(u)
      PROVE  flight' \in [Browsers -> Flight]
  BY <1>0, <1>6 DEF SendLink, Suspend, Promote
<1>7. ASSUME NEW l \in DOMAIN links, ExpireLink(l) PROVE flight' \in [Browsers -> Flight]
  BY <1>0, <1>7 DEF ExpireLink
<1> QED
  BY <1>1, <1>3, <1>4, <1>5, <1>6, <1>7 DEF Next

(* Mails, clicks and the bounds.                                           *)
MailTyped ==
    /\ links' \in Seq(Link)
    /\ {sending', opened', promoted', posted'} \subseteq SUBSET Nat
    /\ click' \in [Clicks -> Click]
    /\ {submits', loads', mishaps'} \subseteq Nat

LEMMA MailTypes ==
    ASSUME AccountsInv, Next
    PROVE  MailTyped
<1>0. /\ TypeOK /\ links \in Seq(Link) /\ click \in [Clicks -> Click]
      /\ sending \subseteq Nat /\ opened \subseteq Nat
      /\ promoted \subseteq Nat /\ posted \subseteq Nat
      /\ submits \in Nat /\ loads \in Nat /\ mishaps \in Nat
      /\ UserIds \subseteq Nat \ {0} /\ NoClick \in Click
  BY Blank, IdsPositive DEF AccountsInv, TypeOK
<1>1. ASSUME NEW l \in DOMAIN links, NEW state \in {"taken", "expired", "lost"}
      PROVE  [links EXCEPT ![l].state = state] \in Seq(Link)
  <2>1. links[l] \in Link
    BY <1>0
  <2>2. [links[l] EXCEPT !.state = state] \in Link
    BY <2>1 DEF Link
  <2> QED
    BY <1>0, <2>2, Rewritten
<1>2. ASSUME NEW b \in Browsers, AtForm(b) PROVE MailTyped
  <2>1. CASE Post(b)
    BY <1>0, <2>1, NamedUsers DEF Post, MailTyped, bounds
  <2>2. CASE Logout(b)
    BY <1>0, <2>2 DEF Logout, Mishap, MailTyped, server
  <2>3. CASE \/ AskAgain(b)
             \/ \E n \in Names : SubmitName(b, n)
             \/ \E g \in Googles : StartGoogle(b, g)
             \/ \E e \in Addresses, kind \in {"signup", "login"} : SubmitAuth(b, kind, e)
    <3>1. /\ submits' = submits + 1
          /\ UNCHANGED <<links, sending, opened, promoted, posted, click, loads, mishaps>>
      BY <2>3 DEF SubmitAuth, StartGoogle, SubmitName, AskAgain, Begin, server
    <3> QED
      BY <1>0, <3>1 DEF MailTyped
  <2> QED
    BY <1>2, <2>1, <2>2, <2>3 DEF AtForm
<1>3. ASSUME NEW b \in Browsers, Handle(b) PROVE MailTyped
  <2>1. CASE CreateByPassword(b)
    <3>1. Len(users) \in Nat
      BY <1>0 DEF TypeOK
    <3>2. sending' \subseteq sending \cup {Len(users) + 1}
      BY <2>1 DEF CreateByPassword
    <3> QED
      BY <1>0, <2>1, <3>1, <3>2 DEF CreateByPassword, MailTyped, bounds
  <2>2. CASE Resend(b)
    BY <1>0, <2>2, NamedUsers DEF Resend, MailTyped, bounds
  <2> QED
    BY <1>0, <1>3, <2>1, <2>2
    DEF Handle, FindTaken, FindByEmail, CheckPassword, FindByGoogle, FindToLink,
        LinkGoogle, CreateByGoogle, SignedIn, Landed, FindProfile, CreateProfile, Claimed,
        ReadAccount, Restored, NotRestored, MailTyped, server, bounds
<1>4. ASSUME NEW b \in Browsers, OpenPage(b) \/ Requery(b) \/ FailForm(b) \/ FailFlight(b)
      PROVE  MailTyped
  BY <1>0, <1>4 DEF OpenPage, Requery, FailForm, FailFlight, Load, Mishap, MailTyped, server
<1>5. ASSUME NEW c \in Clicks, Confirm(c) PROVE MailTyped
  <2>1. ASSUME NEW l \in DOMAIN links, OpenLink(c, l) PROVE MailTyped
    <3>1. links[l] \in Link /\ l \in Nat
      BY <1>0
    <3>2. links[l].user \in Nat /\ [stage |-> "take", link |-> l, ok |-> FALSE] \in Click
      BY <3>1 DEF Link, UserId, Click
    <3> QED
      BY <1>0, <2>1, <3>2 DEF OpenLink, MailTyped, bounds
  <2>2. [click[c] EXCEPT !.stage = "told"] \in Click /\ [click[c] EXCEPT !.stage = "mark"] \in Click
        /\ [click[c] EXCEPT !.stage = "told", !.ok = TRUE] \in Click
    BY <1>0 DEF Click
  <2>3. click[c].stage # "idle" => click[c].link \in DOMAIN links
    BY DEF AccountsInv, ClickOK
  <2>4. CASE TakeLink(c)
    BY <1>0, <1>1, <2>2, <2>3, <2>4 DEF TakeLink, MailTyped, bounds
  <2>5. CASE MarkVerified(c)
    <3>1. click' = [click EXCEPT ![c] = [click[c] EXCEPT !.stage = "told", !.ok = TRUE]]
      BY <1>0, <2>5 DEF MarkVerified
    <3> QED
      BY <1>0, <2>2, <2>5, <3>1 DEF MarkVerified, MailTyped, bounds
  <2>6. CASE Dismiss(c)
    BY <1>0, <2>6 DEF Dismiss, MailTyped, server, bounds
  <2>7. CASE FailClick(c)
    <3>1. links' \in Seq(Link)
      BY <1>1, <2>3, <2>7 DEF FailClick
    <3> QED
      BY <1>0, <2>7, <3>1 DEF FailClick, Mishap, MailTyped
  <2>8. ASSUME NEW b \in Browsers, Bounce(c, b) PROVE MailTyped
    BY <1>0, <2>8 DEF Bounce, Load, MailTyped, server
  <2> QED
    BY <1>5, <2>1, <2>4, <2>5, <2>6, <2>7, <2>8 DEF Confirm
<1>6. ASSUME NEW u \in UserIds, SendLink(u) \/ Suspend(u) \/ Promote(u) PROVE MailTyped
  <2>1. CASE SendLink(u)
    <3>1. [user |-> u, state |-> "live"] \in Link
      BY <1>0 DEF Link, UserId
    <3>2. links' \in Seq(Link)
      BY <1>0, <2>1, <3>1, Added DEF SendLink
    <3> QED
      BY <1>0, <2>1, <3>2 DEF SendLink, MailTyped, bounds
  <2>2. CASE Suspend(u) \/ Promote(u)
    BY <1>0, <2>2 DEF Suspend, Promote, Mishap, MailTyped
  <2> QED
    BY <1>6, <2>1, <2>2
<1>7. ASSUME NEW l \in DOMAIN links, ExpireLink(l) PROVE MailTyped
  <2>1. links' \in Seq(Link)
    BY <1>1, <1>7 DEF ExpireLink
  <2> QED
    BY <1>0, <1>7, <2>1 DEF ExpireLink, Mishap, MailTyped
<1> QED
  BY <1>2, <1>3, <1>4, <1>5, <1>6, <1>7 DEF Next

LEMMA StepTypes ==
    ASSUME AccountsInv, Next
    PROVE  TypeOK'
BY StepGrows, FormTypes, PageTypes, FlightTypes, MailTypes DEF TypeOK, MailTyped

-----------------------------------------------------------------------------
(* The rows of the two tables.                                             *)

(* A row that may stand among the others.                                  *)
Fits(row, others) ==
    /\ \A v \in others :
        /\ row.email # users[v].email
        /\ row.google # NoGoogle => row.google # users[v].google
        /\ row.name # NoName /\ users[v].name # NoName => Fold[row.name] # Fold[users[v].name]
    /\ row.name # NoName => Fold[row.name] \notin Reserved

LEMMA DistinctRewritten ==
    ASSUME users \in Seq(User), Distinct(users), NEW u \in UserIds, NEW row \in User,
           Fits(row, UserIds \ {u}), users' = [users EXCEPT ![u] = row]
    PROVE  Distinct(users')
<1>1. DOMAIN users' = UserIds
  BY Rewritten DEF UserIds
<1>2. users'[u] = row /\ \A v \in UserIds \ {u} : users'[v] = users[v]
  BY DEF UserIds
<1> QED
  BY <1>1, <1>2 DEF Distinct, Fits, UserIds

LEMMA DistinctAdded ==
    ASSUME users \in Seq(User), Distinct(users), NEW row \in User,
           Fits(row, UserIds), users' = Append(users, row)
    PROVE  Distinct(users')
<1>1. /\ DOMAIN users' = UserIds \cup {Len(users) + 1} /\ Len(users) + 1 \notin UserIds
      /\ users'[Len(users) + 1] = row /\ \A v \in UserIds : users'[v] = users[v]
  BY Added DEF UserIds
<1> QED
  BY <1>1 DEF Distinct, Fits, UserIds

(* What a step writes to the rows, as far as proof goes: an address is     *)
(* confirmed by its Google account, an opened link, or the operator.       *)
Evident(u) == Proved(users[u]) \/ u \in opened \cup promoted

LEMMA StepRows ==
    ASSUME AccountsInv, Next
    PROVE  RowsOK'
<1>0. /\ users \in Seq(User) /\ Distinct(users)
      /\ \A u \in UserIds : users[u] \in User /\ Evident(u)
      /\ \A b \in Browsers : form[b] \in Form /\ FormOK(b)
  BY DEF AccountsInv, TypeOK, RowsOK, Evident, UserIds
<1>1. opened \subseteq opened' /\ promoted \subseteq promoted'
  <2>1. ASSUME NEW b \in Browsers, AtForm(b) PROVE UNCHANGED <<opened, promoted>>
    BY <2>1 DEF AtForm, SubmitAuth, StartGoogle, SubmitName, AskAgain, Logout, Post, server
  <2>2. ASSUME NEW b \in Browsers, Handle(b) PROVE UNCHANGED <<opened, promoted>>
    BY <2>2
    DEF Handle, FindTaken, CreateByPassword, FindByEmail, CheckPassword, FindByGoogle, FindToLink,
        LinkGoogle, CreateByGoogle, SignedIn, Landed, FindProfile, CreateProfile, Claimed, Resend,
        ReadAccount, Restored, NotRestored, server
  <2>3. ASSUME NEW b \in Browsers, OpenPage(b) \/ Requery(b) \/ FailForm(b) \/ FailFlight(b)
        PROVE  UNCHANGED <<opened, promoted>>
    BY <2>3 DEF OpenPage, Requery, FailForm, FailFlight, server
  <2>4. ASSUME NEW c \in Clicks, Confirm(c) PROVE opened \subseteq opened' /\ UNCHANGED promoted
    BY <2>4 DEF Confirm, OpenLink, TakeLink, MarkVerified, Dismiss, FailClick, Bounce, server
  <2>5. ASSUME NEW u \in UserIds, SendLink(u) \/ Suspend(u) \/ Promote(u)
        PROVE  UNCHANGED opened /\ promoted \subseteq promoted'
    BY <2>5 DEF SendLink, Suspend, Promote
  <2>6. ASSUME NEW l \in DOMAIN links, ExpireLink(l) PROVE UNCHANGED <<opened, promoted>>
    BY <2>6 DEF ExpireLink
  <2> QED
    BY <2>1, <2>2, <2>3, <2>4, <2>5, <2>6 DEF Next
<1>2. CASE UNCHANGED users
  BY <1>0, <1>1, <1>2 DEF RowsOK, Evident, UserIds, Distinct, Proved
<1>3. ASSUME NEW row \in User, Fits(row, UserIds), Proved(row), users' = Append(users, row)
      PROVE  RowsOK'
  <2>1. Distinct(users')
    BY <1>0, <1>3, DistinctAdded
  <2>2. \A u \in UserIds' : users'[u] = row \/ (u \in UserIds /\ users'[u] = users[u])
    BY <1>0, <1>3, Added DEF UserIds
  <2>3. \A u \in UserIds' : Proved(users'[u]) \/ u \in opened' \cup promoted'
    BY <1>0, <1>1, <1>3, <2>2 DEF Evident
  <2> QED
    BY <2>1, <2>3 DEF RowsOK, Distinct, Proved
<1>4. ASSUME NEW u \in UserIds, NEW row \in User, Fits(row, UserIds \ {u}),
             Proved(row) \/ u \in opened' \cup promoted', users' = [users EXCEPT ![u] = row]
      PROVE  RowsOK'
  <2>1. Distinct(users')
    BY <1>0, <1>4, DistinctRewritten
  <2>2. UserIds' = UserIds /\ users'[u] = row /\ \A v \in UserIds \ {u} : users'[v] = users[v]
    BY <1>0, <1>4, Rewritten DEF UserIds
  <2>3. \A v \in UserIds' : Proved(users'[v]) \/ v \in opened' \cup promoted'
    BY <1>0, <1>1, <1>4, <2>2 DEF Evident
  <2> QED
    BY <2>1, <2>3 DEF RowsOK, Distinct, Proved
<1>5. ASSUME NEW b \in Browsers, CreateByPassword(b) PROVE RowsOK'
  <2> DEFINE row == [Newcomer(form[b].email) EXCEPT !.password = TRUE]
  <2>1. row \in User /\ ~row.verified /\ row.email = form[b].email /\ row.google = NoGoogle
        /\ row.name = NoName
    BY <1>0 DEF Newcomer, User, Form, NameOrNone
  <2>2. EmailFree(form[b].email) => Fits(row, UserIds) /\ Proved(row)
    BY <2>1 DEF EmailFree, ByEmail, Fits, Proved
  <2>3. UNCHANGED users \/ (users' = Append(users, row) /\ EmailFree(form[b].email))
    BY <1>5 DEF CreateByPassword
  <2> QED
    BY <1>2, <1>3, <2>1, <2>2, <2>3
<1>6. ASSUME NEW b \in Browsers, CreateByGoogle(b) PROVE RowsOK'
  <2> DEFINE f == form[b]
             row == [Newcomer(f.email) EXCEPT !.google = f.google, !.verified = TRUE]
  <2>1. row \in User /\ row.email = f.email /\ row.google = f.google /\ row.name = NoName
    BY <1>0 DEF Newcomer, User, Form, NameOrNone
  <2>2. f.google \in Googles /\ f.email = GoogleAddress[f.google]
    BY <1>0, <1>6 DEF CreateByGoogle, FormOK, At
  <2>3. EmailFree(f.email) /\ GoogleFree(f.google) => Fits(row, UserIds) /\ Proved(row)
    BY <2>1, <2>2, NamesAssumption
    DEF EmailFree, ByEmail, GoogleFree, ByGoogle, Fits, Proved
  <2>4. \/ UNCHANGED users
        \/ users' = Append(users, row) /\ EmailFree(f.email) /\ GoogleFree(f.google)
    BY <1>6 DEF CreateByGoogle
  <2> QED
    BY <1>2, <1>3, <2>1, <2>3, <2>4
<1>7. ASSUME NEW b \in Browsers, LinkGoogle(b) PROVE RowsOK'
  <2> DEFINE f == form[b]
             u == f.user
             row == [users[u] EXCEPT !.google = f.google, !.verified = TRUE]
  <2>1. u \in UserIds /\ users[u].email = f.email /\ f.google \in Googles
        /\ f.email = GoogleAddress[f.google]
    BY <1>0, <1>7 DEF LinkGoogle, FormOK, Known, At
  <2>2. users[u] \in User
    BY <1>0, <2>1
  <2>3. row \in User /\ row.email = users[u].email /\ row.google = f.google
        /\ row.name = users[u].name
    BY <1>0, <2>2 DEF User, Form
  <2>4. Proved(row)
    BY <2>1, <2>3, NamesAssumption DEF Proved
  <2>5. ByGoogle(f.google) \subseteq {u} => Fits(row, UserIds \ {u})
    BY <1>0, <2>1, <2>3 DEF ByGoogle, Fits, Distinct, UserIds
  <2>6. UNCHANGED users \/ (users' = [users EXCEPT ![u] = row] /\ ByGoogle(f.google) \subseteq {u})
    BY <1>7 DEF LinkGoogle
  <2> HIDE DEF u, row
  <2> QED
    BY <1>2, <1>4, <2>1, <2>3, <2>4, <2>5, <2>6
<1>8. ASSUME NEW b \in Browsers, CreateProfile(b) PROVE RowsOK'
  <2> DEFINE f == form[b]
             u == f.user
             row == [users[u] EXCEPT !.name = f.name]
  <2>1. u \in UserIds /\ Fold[f.name] \notin Reserved
    BY <1>0, <1>8 DEF CreateProfile, FormOK, Known, At
  <2>2. users[u] \in User
    BY <1>0, <2>1
  <2>3. row \in User /\ row.email = users[u].email /\ row.google = users[u].google
        /\ row.verified = users[u].verified /\ row.name = f.name
    BY <1>0, <2>2 DEF User, Form
  <2>4. Proved(row) \/ u \in opened' \cup promoted'
    BY <1>0, <1>1, <2>1, <2>3 DEF Proved, Evident
  <2>5. NameFree(f.name) => Fits(row, UserIds \ {u})
    BY <1>0, <2>1, <2>3 DEF NameFree, Fits, Distinct, UserIds
  <2>6. UNCHANGED users \/ (users' = [users EXCEPT ![u] = row] /\ NameFree(f.name))
    BY <1>8 DEF CreateProfile
  <2> HIDE DEF u, row
  <2> QED
    BY <1>2, <1>4, <2>1, <2>3, <2>4, <2>5, <2>6
<1>9. ASSUME NEW u \in UserIds, u \in opened' \cup promoted',
             users' = [users EXCEPT ![u].verified = TRUE]
      PROVE  RowsOK'
  <2> DEFINE row == [users[u] EXCEPT !.verified = TRUE]
  <2>1. row \in User /\ row.email = users[u].email /\ row.google = users[u].google
        /\ row.name = users[u].name
    BY <1>0 DEF User
  <2>2. Fits(row, UserIds \ {u})
    BY <1>0, <2>1 DEF Fits, Distinct, UserIds
  <2> QED
    BY <1>4, <1>9, <2>1, <2>2
<1>10. ASSUME NEW c \in Clicks, MarkVerified(c) PROVE RowsOK'
  <2>1. links[click[c].link].user \in UserIds /\ links[click[c].link].user \in opened
    BY <1>10 DEF AccountsInv, LinksOK, ClickOK, MarkVerified
  <2> QED
    BY <1>9, <1>10, <2>1 DEF MarkVerified
<1>11. ASSUME NEW u \in UserIds, Promote(u) PROVE RowsOK'
  BY <1>9, <1>11 DEF Promote
<1>12. ASSUME NEW u \in UserIds, Suspend(u) PROVE RowsOK'
  <2> DEFINE row == [users[u] EXCEPT !.active = FALSE]
  <2>1. row \in User /\ row.email = users[u].email /\ row.google = users[u].google
        /\ row.name = users[u].name /\ row.verified = users[u].verified
    BY <1>0 DEF User
  <2>2. Fits(row, UserIds \ {u})
    BY <1>0, <2>1 DEF Fits, Distinct, UserIds
  <2>3. Proved(row) \/ u \in opened' \cup promoted'
    BY <1>0, <1>1, <2>1 DEF Proved, Evident
  <2> QED
    BY <1>4, <1>12, <2>1, <2>2, <2>3 DEF Suspend
<1> QED
  BY <1>2, <1>5, <1>6, <1>7, <1>8, <1>10, <1>11, <1>12, WhoWritesUsers DEF UserSteps

-----------------------------------------------------------------------------
(* Mails and clicks.                                                       *)

MailSteps ==
    \/ \E b \in Browsers : CreateByPassword(b) \/ Resend(b)
    \/ \E c \in Clicks : Confirm(c)
    \/ \E u \in UserIds : SendLink(u)
    \/ \E l \in DOMAIN links : ExpireLink(l)

LEMMA WhoWritesMail ==
    ASSUME Next
    PROVE  MailSteps \/ UNCHANGED <<links, sending, opened, click>>
<1>1. ASSUME NEW b \in Browsers, AtForm(b) PROVE UNCHANGED <<links, sending, opened, click>>
  BY <1>1 DEF AtForm, SubmitAuth, StartGoogle, SubmitName, AskAgain, Logout, Post, server
<1>2. ASSUME NEW b \in Browsers, Handle(b)
      PROVE  MailSteps \/ UNCHANGED <<links, sending, opened, click>>
  BY <1>2 DEF Handle, FindTaken, FindByEmail, CheckPassword, FindByGoogle, FindToLink, LinkGoogle,
     CreateByGoogle, SignedIn, Landed, FindProfile, CreateProfile, Claimed, ReadAccount, Restored,
     NotRestored, server, MailSteps
<1>3. ASSUME NEW b \in Browsers, OpenPage(b) \/ Requery(b) \/ FailForm(b) \/ FailFlight(b)
      PROVE  UNCHANGED <<links, sending, opened, click>>
  BY <1>3 DEF OpenPage, Requery, FailForm, FailFlight, server
<1>4. ASSUME NEW u \in UserIds, SendLink(u) \/ Suspend(u) \/ Promote(u)
      PROVE  MailSteps \/ UNCHANGED <<links, sending, opened, click>>
  BY <1>4 DEF Suspend, Promote, MailSteps
<1> QED
  BY <1>1, <1>2, <1>3, <1>4 DEF Next, MailSteps

(* A link stays the link of its account, and of a click what it was.       *)
LEMMA StepMail ==
    ASSUME AccountsInv, Next
    PROVE  LinksOK' /\ LinkTakesEffect' /\ \A c \in Clicks : ClickOK(c)'
<1>0. /\ TypeOK /\ LinksOK /\ LinkTakesEffect /\ \A c \in Clicks : ClickOK(c)
      /\ links \in Seq(Link) /\ click \in [Clicks -> Click] /\ users \in Seq(User)
      /\ \A b \in Browsers : FormOK(b)
  BY DEF AccountsInv, TypeOK
<1>1. Grows
  BY StepGrows
<1> DEFINE Kept(l) == l \in DOMAIN links' /\ links'[l].user = links[l].user
(* Most steps keep the clicks, or start one, and the links as they are.    *)
<1>2. ASSUME sending' \subseteq UserIds', UNCHANGED <<links, click>>, opened \subseteq opened'
      PROVE  LinksOK' /\ LinkTakesEffect' /\ \A c \in Clicks : ClickOK(c)'
  <2>1. LinksOK'
    BY <1>0, <1>1, <1>2 DEF LinksOK, Grows
  <2>2. LinkTakesEffect'
    BY <1>0, <1>1, <1>2 DEF LinksOK, LinkTakesEffect, Grows
  <2>3. \A c \in Clicks : ClickOK(c)'
    BY <1>0, <1>1, <1>2 DEF LinksOK, ClickOK, Grows
  <2> QED
    BY <2>1, <2>2, <2>3
<1>3. sending \subseteq UserIds'
  BY <1>0, <1>1 DEF LinksOK, Grows
<1>4. CASE UNCHANGED <<links, sending, opened, click>>
  BY <1>2, <1>3, <1>4
<1>5. ASSUME NEW b \in Browsers, CreateByPassword(b) \/ Resend(b)
      PROVE  LinksOK' /\ LinkTakesEffect' /\ \A c \in Clicks : ClickOK(c)'
  <2>1. CASE CreateByPassword(b)
    <3>1. \/ UNCHANGED <<users, sending>>
          \/ /\ sending' = sending \cup {Len(users) + 1}
             /\ users' = Append(users, [Newcomer(form[b].email) EXCEPT !.password = TRUE])
      BY <2>1 DEF CreateByPassword
    <3>2. sending' # sending => Len(users) + 1 \in UserIds'
      BY <1>0, <3>1 DEF UserIds
    <3> QED
      BY <1>2, <1>3, <2>1, <3>1, <3>2 DEF CreateByPassword
  <2>2. CASE Resend(b)
    <3>1. form[b].user \in UserIds
      BY <1>0, <2>2 DEF FormOK, Known, Resend, At
    <3> QED
      BY <1>1, <1>2, <1>3, <2>2, <3>1 DEF Resend, Grows
  <2> QED
    BY <1>5, <2>1, <2>2
<1>6. ASSUME NEW u \in UserIds, SendLink(u)
      PROVE  LinksOK' /\ LinkTakesEffect' /\ \A c \in Clicks : ClickOK(c)'
  <2> DEFINE link == [user |-> u, state |-> "live"]
  <2>1. link \in Link
    BY <1>0, IdsPositive DEF Link, UserId
  <2>2. sending' \subseteq UserIds' /\ UNCHANGED <<opened, click, users>>
    BY <1>3, <1>6 DEF SendLink
  <2>3. CASE UNCHANGED links
    BY <1>2, <2>2, <2>3
  <2>4. CASE links' = Append(links, link)
    <3>1. /\ DOMAIN links' = DOMAIN links \cup {Len(links) + 1}
          /\ links'[Len(links) + 1] = link
          /\ \A l \in DOMAIN links : links'[l] = links[l]
      BY <1>0, <2>1, <2>4, Added
    <3>2. LinksOK'
      BY <1>0, <1>1, <2>2, <3>1 DEF LinksOK, Grows
    <3>3. LinkTakesEffect'
      BY <1>0, <2>2, <3>1 DEF LinkTakesEffect
    <3>4. \A c \in Clicks : ClickOK(c)'
      BY <1>0, <2>2, <3>1 DEF ClickOK
    <3> QED
      BY <3>2, <3>3, <3>4
  <2> QED
    BY <1>6, <2>3, <2>4 DEF SendLink
(* The other steps change the state of one link at most.                   *)
<1>7. ASSUME NEW l \in DOMAIN links, NEW state, links' = [links EXCEPT ![l].state = state]
      PROVE  /\ DOMAIN links' = DOMAIN links /\ links'[l].user = links[l].user
             /\ links'[l].state = state
             /\ \A m \in DOMAIN links \ {l} : links'[m] = links[m]
  <2>1. links[l] \in Link
    BY <1>0
  <2> QED
    BY <1>0, <1>7, <2>1 DEF Link
<1>8. ASSUME NEW l \in DOMAIN links, ExpireLink(l)
      PROVE  LinksOK' /\ LinkTakesEffect' /\ \A c \in Clicks : ClickOK(c)'
  <2>1. /\ DOMAIN links' = DOMAIN links /\ links'[l].user = links[l].user
        /\ links'[l].state = "expired" /\ \A m \in DOMAIN links \ {l} : links'[m] = links[m]
        /\ UNCHANGED <<users, sending, opened, click>>
    BY <1>7, <1>8 DEF ExpireLink
  <2>2. LinksOK'
    BY <1>0, <2>1 DEF LinksOK, UserIds
  <2>3. LinkTakesEffect'
    BY <1>0, <2>1 DEF LinkTakesEffect
  <2>4. \A c \in Clicks : ClickOK(c)'
    BY <1>0, <2>1 DEF ClickOK
  <2> QED
    BY <2>2, <2>3, <2>4
<1>9. ASSUME NEW c \in Clicks, Confirm(c)
      PROVE  LinksOK' /\ LinkTakesEffect' /\ \A d \in Clicks : ClickOK(d)'
  <2>0. click[c].stage # "idle" => click[c].link \in DOMAIN links /\ click[c].link \in Nat
    BY <1>0 DEF ClickOK
  <2> DEFINE L == click[c].link
  <2>1. ASSUME NEW l \in DOMAIN links, OpenLink(c, l)
        PROVE  LinksOK' /\ LinkTakesEffect' /\ \A d \in Clicks : ClickOK(d)'
    <3>1. /\ UNCHANGED <<users, links, sending>> /\ opened' = opened \cup {links[l].user}
          /\ click'[c] = [stage |-> "take", link |-> l, ok |-> FALSE] /\ click[c].stage = "idle"
          /\ \A d \in Clicks \ {c} : click'[d] = click[d]
      BY <1>0, <2>1 DEF OpenLink
    <3>2. LinksOK'
      BY <1>0, <3>1 DEF LinksOK, UserIds
    <3>3. LinkTakesEffect'
      BY <1>0, <3>1 DEF LinkTakesEffect
    <3>4. \A d \in Clicks : ClickOK(d)'
      BY <1>0, <3>1 DEF ClickOK
    <3> QED
      BY <3>2, <3>3, <3>4
  <2>2. CASE TakeLink(c)
    <3>1. /\ UNCHANGED <<users, sending, opened>> /\ click[c].stage = "take"
          /\ \A d \in Clicks \ {c} : click'[d] = click[d]
          /\ click'[c].link = L /\ click'[c].ok = click[c].ok
      BY <1>0, <2>2 DEF TakeLink, Click
    <3>2. \/ UNCHANGED links
          \/ /\ DOMAIN links' = DOMAIN links /\ links'[L].user = links[L].user
             /\ \A m \in DOMAIN links \ {L} : links'[m] = links[m]
             /\ click'[c].stage = "mark"
      BY <1>0, <1>7, <2>0, <2>2 DEF TakeLink, Click
    <3>3. LinksOK'
      BY <1>0, <2>0, <3>1, <3>2 DEF LinksOK, UserIds
    <3>4. LinkTakesEffect'
      BY <1>0, <2>0, <3>1, <3>2 DEF LinkTakesEffect
    <3>5. \A d \in Clicks : ClickOK(d)'
      BY <1>0, <2>0, <3>1, <3>2 DEF ClickOK
    <3> QED
      BY <3>3, <3>4, <3>5
  <2>3. CASE MarkVerified(c)
    <3>1. /\ UNCHANGED <<links, sending, opened>> /\ click[c].stage = "mark"
          /\ \A d \in Clicks \ {c} : click'[d] = click[d]
          /\ click'[c].link = L
      BY <1>0, <2>3 DEF MarkVerified, Click
    <3>2. users'[links[L].user].verified
      <4>1. links[L].user \in UserIds
        BY <1>0, <2>0, <3>1 DEF LinksOK
      <4>2. users[links[L].user] \in User
        BY <1>0, <4>1 DEF UserIds
      <4> QED
        BY <1>0, <2>3, <4>1, <4>2 DEF MarkVerified, UserIds, User
    <3>3. LinksOK'
      BY <1>0, <1>1, <3>1 DEF LinksOK, Grows
    <3>4. LinkTakesEffect'
      <4> SUFFICES ASSUME NEW l \in DOMAIN links, links[l].state = "taken"
                   PROVE  \/ users'[links[l].user].verified
                          \/ \E d \in Clicks : click'[d].stage = "mark" /\ click'[d].link = l
        BY <3>1 DEF LinkTakesEffect
      <4>1. CASE users[links[l].user].verified
        BY <1>0, <1>1, <4>1 DEF LinksOK, Grows
      <4>2. ASSUME NEW d \in Clicks, click[d].stage = "mark", click[d].link = l
            PROVE  \/ users'[links[l].user].verified
                   \/ click'[d].stage = "mark" /\ click'[d].link = l
        BY <3>1, <3>2, <4>2
      <4> QED
        BY <1>0, <4>1, <4>2 DEF LinkTakesEffect
    <3>5. \A d \in Clicks : ClickOK(d)'
      BY <1>0, <1>1, <2>0, <3>1, <3>2 DEF LinksOK, ClickOK, Grows
    <3> QED
      BY <3>3, <3>4, <3>5
  <2>4. ASSUME Dismiss(c) \/ \E b \in Browsers : Bounce(c, b)
        PROVE  LinksOK' /\ LinkTakesEffect' /\ \A d \in Clicks : ClickOK(d)'
    <3>1. /\ UNCHANGED <<users, links, sending, opened>> /\ click[c].stage = "told"
          /\ click'[c] = NoClick /\ \A d \in Clicks \ {c} : click'[d] = click[d]
      BY <1>0, <2>4 DEF Dismiss, Bounce, server
    <3>2. LinksOK'
      BY <1>0, <3>1 DEF LinksOK, UserIds
    <3>3. LinkTakesEffect'
      BY <1>0, <3>1 DEF LinkTakesEffect
    <3>4. \A d \in Clicks : ClickOK(d)'
      BY <1>0, <3>1 DEF ClickOK, NoClick
    <3> QED
      BY <3>2, <3>3, <3>4
  <2>5. CASE FailClick(c)
    <3>1. /\ UNCHANGED <<users, sending, opened>> /\ click[c].stage = "mark"
          /\ click'[c] = NoClick /\ \A d \in Clicks \ {c} : click'[d] = click[d]
      BY <1>0, <2>5 DEF FailClick
    <3>2. /\ DOMAIN links' = DOMAIN links /\ links'[L].user = links[L].user
          /\ links'[L].state = "lost" /\ \A m \in DOMAIN links \ {L} : links'[m] = links[m]
      BY <1>7, <2>0, <2>5, <3>1 DEF FailClick
    <3>3. LinksOK'
      BY <1>0, <2>0, <3>1, <3>2 DEF LinksOK, UserIds
    <3>4. LinkTakesEffect'
      BY <1>0, <2>0, <3>1, <3>2 DEF LinkTakesEffect
    <3>5. \A d \in Clicks : ClickOK(d)'
      BY <1>0, <2>0, <3>1, <3>2 DEF ClickOK, NoClick
    <3> QED
      BY <3>3, <3>4, <3>5
  <2> QED
    BY <1>9, <2>1, <2>2, <2>3, <2>4, <2>5 DEF Confirm
<1> QED
  BY <1>4, <1>5, <1>6, <1>8, <1>9, WhoWritesMail DEF MailSteps

LEMMA StepPosted ==
    ASSUME AccountsInv, Next
    PROVE  PostedOK'
<1>1. PostedOK /\ Grows
  BY StepGrows DEF AccountsInv
<1>2. CASE UNCHANGED posted
  BY <1>1, <1>2 DEF PostedOK, Grows
<1>3. ASSUME NEW b \in Browsers, Post(b) PROVE PostedOK'
  <2>1. /\ page[b].user \in UserIds /\ users[page[b].user].verified
        /\ users[page[b].user].name # NoName
    BY <1>3 DEF AccountsInv, PageOK, Known, Post, MayPost
  <2> QED
    BY <1>1, <1>3, <2>1 DEF Post, PostedOK, UserIds
<1>4. ASSUME NEW b \in Browsers, AtForm(b) PROVE PostedOK'
  BY <1>2, <1>3, <1>4 DEF AtForm, SubmitAuth, StartGoogle, SubmitName, AskAgain, Logout, server
<1>5. ASSUME NEW b \in Browsers, Handle(b) PROVE UNCHANGED posted
  BY <1>5
  DEF Handle, FindTaken, CreateByPassword, FindByEmail, CheckPassword, FindByGoogle, FindToLink,
      LinkGoogle, CreateByGoogle, SignedIn, Landed, FindProfile, CreateProfile, Claimed, Resend,
      ReadAccount, Restored, NotRestored, server
<1>6. ASSUME NEW b \in Browsers, OpenPage(b) \/ Requery(b) \/ FailForm(b) \/ FailFlight(b)
      PROVE  UNCHANGED posted
  BY <1>6 DEF OpenPage, Requery, FailForm, FailFlight, server
<1>7. ASSUME NEW c \in Clicks, Confirm(c) PROVE UNCHANGED posted
  BY <1>7 DEF Confirm, OpenLink, TakeLink, MarkVerified, Dismiss, FailClick, Bounce, server
<1>8. ASSUME NEW u \in UserIds, SendLink(u) \/ Suspend(u) \/ Promote(u) PROVE UNCHANGED posted
  BY <1>8 DEF SendLink, Suspend, Promote
<1>9. ASSUME NEW l \in DOMAIN links, ExpireLink(l) PROVE UNCHANGED posted
  BY <1>9 DEF ExpireLink
<1> QED
  BY <1>2, <1>4, <1>5, <1>6, <1>7, <1>8, <1>9 DEF Next

-----------------------------------------------------------------------------
(* Browsers.                                                               *)

BrowserOK(b) == FormOK(b) /\ AfterClaim(b) /\ AfterTold(b) /\ PageOK(b) /\ FlightOK(b)

(* What a browser knew stays true of accounts that are only added to.      *)
LEMMA Undisturbed ==
    ASSUME AccountsInv, Grows, NEW b \in Browsers, BrowserOK(b),
           form'[b] = form[b], page'[b] = page[b], flight'[b] = flight[b], cookie'[b] = cookie[b]
    PROVE  BrowserOK(b)'
<1>0. UserIds \subseteq Nat \ {0}
  BY IdsPositive DEF AccountsInv, TypeOK
<1>1. FormOK(b)'
  BY <1>0 DEF BrowserOK, FormOK, Known, At, Grows
<1>2. AfterClaim(b)'
  BY <1>0 DEF BrowserOK, FormOK, AfterClaim, Known, Grows
<1>3. AfterTold(b)'
  BY <1>0 DEF BrowserOK, AfterTold, Grows
<1>4. PageOK(b)'
  BY <1>0 DEF BrowserOK, PageOK, Known, Grows, Nothing
<1>5. FlightOK(b)'
  BY <1>0 DEF BrowserOK, FlightOK, Known, Grows
<1> QED
  BY <1>1, <1>2, <1>3, <1>4, <1>5 DEF BrowserOK

(* A form that is dropped, or newly sent, waits for nothing that was read. *)
LEMMA FormAnew ==
    ASSUME AccountsInv, Grows, NEW b \in Browsers, BrowserOK(b),
           page'[b] = page[b], flight'[b] = flight[b], cookie'[b] = cookie[b],
           form'[b].stage \in {"idle", "find"}, form'[b].saw = Nothing,
           form'[b].user \in UserIds \cup {0},
           form'[b].kind \in {"claim", "resend"} => form'[b].user # 0,
           form'[b].kind = "claim" => form'[b].name \in Names,
           form'[b].kind = "google" =>
              form'[b].google \in Googles /\ form'[b].email = GoogleAddress[form'[b].google]
    PROVE  BrowserOK(b)'
<1>0. UserIds \subseteq Nat \ {0}
  BY IdsPositive DEF AccountsInv, TypeOK
<1>1. FormOK(b)'
  <2>1. Known(form[b].user, form[b].saw)'
    <3>1. ~form'[b].saw.ver /\ form'[b].saw.name = NoName
      BY DEF Nothing
    <3>2. form'[b].user # 0 => form'[b].user \in UserIds'
      BY DEF Grows
    <3> QED
      BY <3>1, <3>2 DEF Known
  <2>2. At(b, "google", "link")' = FALSE /\ At(b, "claim", "create")' = FALSE
    BY DEF At
  <2>3. form'[b].stage \notin {"check", "link", "answer"}
    OBVIOUS
  <2> QED
    BY <2>1, <2>2, <2>3 DEF FormOK
<1>2. AfterClaim(b)'
  BY <1>0 DEF AfterClaim
<1>3. AfterTold(b)'
  BY <1>0 DEF BrowserOK, AfterTold, Grows
<1>4. PageOK(b)'
  BY <1>0 DEF BrowserOK, PageOK, Known, Grows, Nothing
<1>5. FlightOK(b)'
  BY <1>0 DEF BrowserOK, FlightOK, Known, Grows
<1> QED
  BY <1>1, <1>2, <1>3, <1>4, <1>5 DEF BrowserOK

(* A form that goes on, without an answer yet.                             *)
LEMMA FormGoesOn ==
    ASSUME AccountsInv, Grows, NEW b \in Browsers, BrowserOK(b),
           page'[b] = page[b], flight'[b] = flight[b], cookie'[b] = cookie[b],
           NEW stage \in {"create", "findEmail"},
           form'[b] = [form[b] EXCEPT !.stage = stage],
           form[b].kind = "claim" => Fold[form[b].name] \notin Reserved,
           stage = "findEmail" => form[b].saw = Nothing
    PROVE  BrowserOK(b)'
<1>0. UserIds \subseteq Nat \ {0} /\ form[b] \in Form
  BY IdsPositive DEF AccountsInv, TypeOK
<1>1. /\ form'[b].stage = stage /\ form'[b].kind = form[b].kind /\ form'[b].user = form[b].user
      /\ form'[b].saw = form[b].saw /\ form'[b].email = form[b].email
      /\ form'[b].google = form[b].google /\ form'[b].name = form[b].name
  BY <1>0 DEF Form
<1>2. FormOK(b)'
  BY <1>0, <1>1 DEF BrowserOK, FormOK, Known, At, Grows
<1>3. AfterClaim(b)'
  BY <1>0, <1>1 DEF AfterClaim
<1>4. AfterTold(b)'
  BY <1>0, <1>1 DEF BrowserOK, AfterTold, Grows
<1>5. PageOK(b)' /\ FlightOK(b)'
  BY <1>0 DEF BrowserOK, PageOK, FlightOK, Known, Grows, Nothing
<1> QED
  BY <1>2, <1>3, <1>4, <1>5 DEF BrowserOK

(* A sign-in that has found its account, and says what is so.              *)
LEMMA FormAnswered ==
    ASSUME AccountsInv, Grows, NEW b \in Browsers, BrowserOK(b),
           page'[b] = page[b], flight'[b] = flight[b], cookie'[b] = cookie[b],
           users' \in Seq(User),
           NEW stage \in {"check", "answer"}, NEW u \in UserIds', NEW saw \in Seen,
           form[b].kind \in {"signup", "login", "google"},
           form'[b] = [form[b] EXCEPT !.stage = stage, !.user = u, !.saw = saw],
           saw.ver => users'[u].verified, saw.name # NoName => users'[u].name = saw.name,
           form[b].kind # "google" /\ u = page[b].told => saw.ver
    PROVE  BrowserOK(b)'
<1>0. UserIds \subseteq Nat \ {0} /\ UserIds' \subseteq Nat \ {0} /\ form[b] \in Form
  BY IdsPositive DEF AccountsInv, TypeOK, UserIds
<1>1. /\ form'[b].stage = stage /\ form'[b].kind = form[b].kind /\ form'[b].user = u
      /\ form'[b].saw = saw /\ form'[b].email = form[b].email
      /\ form'[b].google = form[b].google
  BY <1>0 DEF Form
<1>2. FormOK(b)'
  BY <1>0, <1>1 DEF BrowserOK, FormOK, Known, At
<1>3. AfterClaim(b)'
  BY <1>0, <1>1 DEF AfterClaim
<1>4. AfterTold(b)'
  BY <1>0, <1>1 DEF BrowserOK, AfterTold, Grows
<1>5. PageOK(b)' /\ FlightOK(b)'
  BY <1>0 DEF BrowserOK, PageOK, FlightOK, Known, Grows, Nothing
<1> QED
  BY <1>2, <1>3, <1>4, <1>5 DEF BrowserOK

LEMMA StepAtForm ==
    ASSUME AccountsInv, Next, NEW b \in Browsers, AtForm(b)
    PROVE  BrowserOK(b)'
<1>0. /\ TypeOK /\ BrowserOK(b) /\ Grows /\ UserIds \subseteq Nat \ {0}
      /\ form \in [Browsers -> Form] /\ page \in [Browsers -> Page]
      /\ flight \in [Browsers -> Flight] /\ cookie \in [Browsers -> UserId] /\ NoForm \in Form
  BY IdsPositive, StepGrows, Blank DEF AccountsInv, TypeOK, BrowserOK
<1>1. CASE Post(b)
  BY <1>0, <1>1, Undisturbed DEF Post
<1>2. ASSUME NEW e \in Addresses, NEW kind \in {"signup", "login"}, SubmitAuth(b, kind, e)
      PROVE  BrowserOK(b)'
  <2>1. /\ form'[b].stage = "find" /\ form'[b].saw = Nothing /\ form'[b].user = 0
        /\ form'[b].kind = kind
    BY <1>0, <1>2 DEF SubmitAuth, Begin, NoForm
  <2> QED
    BY <1>0, <1>2, <2>1, FormAnew DEF SubmitAuth
<1>3. ASSUME NEW n \in Names, SubmitName(b, n) PROVE BrowserOK(b)'
  <2>1. /\ form'[b].stage = "find" /\ form'[b].saw = Nothing /\ form'[b].user = page[b].user
        /\ form'[b].kind = "claim" /\ form'[b].name = n
    BY <1>0, <1>3 DEF SubmitName, Begin, NoForm
  <2>2. page[b].user \in UserIds /\ page[b].user # 0
    BY <1>0, <1>3 DEF SubmitName, BrowserOK, PageOK, Known
  <2> QED
    BY <1>0, <1>3, <2>1, <2>2, FormAnew DEF SubmitName
<1>4. CASE AskAgain(b)
  <2>1. /\ form'[b].stage = "find" /\ form'[b].saw = Nothing /\ form'[b].user = page[b].user
        /\ form'[b].kind = "resend"
    BY <1>0, <1>4 DEF AskAgain, Begin, NoForm
  <2>2. page[b].user \in UserIds /\ page[b].user # 0
    BY <1>0, <1>4 DEF AskAgain, BrowserOK, PageOK, Known
  <2> QED
    BY <1>0, <1>4, <2>1, <2>2, FormAnew DEF AskAgain
<1>5. ASSUME NEW g \in Googles, StartGoogle(b, g) PROVE BrowserOK(b)'
  <2>1. /\ form'[b].stage = "find" /\ form'[b].saw = Nothing /\ form'[b].user = 0
        /\ form'[b].kind = "google" /\ form'[b].google = g /\ form'[b].email = GoogleAddress[g]
        /\ page'[b].status = "closed" /\ page'[b].user = 0 /\ page'[b].told = 0
        /\ flight'[b].stage = "none" /\ flight'[b].user = 0 /\ cookie'[b] = cookie[b]
    BY <1>0, <1>5 DEF StartGoogle, Begin, NoForm, Closed, NoFlight
  <2>2. FormOK(b)'
    BY <2>1 DEF FormOK, Known, At
  <2>3. AfterClaim(b)' /\ AfterTold(b)'
    BY <2>1 DEF AfterClaim, AfterTold
  <2>4. PageOK(b)' /\ FlightOK(b)'
    BY <1>0, <2>1 DEF BrowserOK, PageOK, FlightOK, Known, Grows, Nothing
  <2> QED
    BY <2>2, <2>3, <2>4 DEF BrowserOK
<1>6. CASE Logout(b)
  <2>1. /\ form'[b].stage = "idle" /\ form'[b].kind = "login" /\ form'[b].user = 0
        /\ flight'[b] = flight[b] /\ flight[b].stage = "none"
        /\ page'[b].status = "anonymous" /\ page'[b].user = 0 /\ page'[b].told = page[b].told
        /\ cookie'[b] \in {0, cookie[b]}
    BY <1>0, <1>6 DEF Logout, Refuse, Closed, NoForm
  <2>2. FormOK(b)'
    BY <2>1 DEF FormOK, Known, At
  <2>3. AfterClaim(b)' /\ AfterTold(b)'
    BY <1>0, <2>1 DEF BrowserOK, AfterClaim, AfterTold, Grows
  <2>4. PageOK(b)' /\ FlightOK(b)'
    BY <1>0, <2>1 DEF BrowserOK, PageOK, FlightOK, Known, Grows, Nothing
  <2> QED
    BY <2>2, <2>3, <2>4 DEF BrowserOK
<1> QED
  BY <1>1, <1>2, <1>3, <1>4, <1>5, <1>6 DEF AtForm

(* The handlers of a submission.                                           *)
LEMMA StepSubmission ==
    ASSUME AccountsInv, Next, NEW b \in Browsers,
           \/ FindTaken(b) \/ CreateByPassword(b) \/ FindByEmail(b) \/ CheckPassword(b)
           \/ FindByGoogle(b) \/ FindToLink(b) \/ LinkGoogle(b) \/ CreateByGoogle(b)
           \/ FindProfile(b) \/ CreateProfile(b) \/ Resend(b)
    PROVE  BrowserOK(b)'
<1>0. /\ TypeOK /\ BrowserOK(b) /\ Grows /\ UserIds \subseteq Nat \ {0}
      /\ form \in [Browsers -> Form] /\ form[b] \in Form /\ users \in Seq(User)
      /\ users' \in Seq(User) /\ Nothing \in Seen
  BY IdsPositive, StepGrows, Blank DEF AccountsInv, TypeOK, BrowserOK, Closed, Page
<1>1. UNCHANGED <<page, flight, cookie>>
  BY DEF FindTaken, CreateByPassword, FindByEmail, CheckPassword, FindByGoogle, FindToLink,
         LinkGoogle, CreateByGoogle, FindProfile, CreateProfile, Resend
<1>2. CASE Refuse(b)
  <2>1. /\ form'[b].stage = "idle" /\ form'[b].saw = Nothing /\ form'[b].user = 0
        /\ form'[b].kind = "login"
    BY <1>0, <1>2 DEF Refuse, NoForm
  <2> QED
    BY <1>0, <1>1, <2>1, FormAnew
<1>3. ASSUME NEW stage \in {"create", "findEmail"}, Goto(b, stage),
             form[b].kind = "claim" => Fold[form[b].name] \notin Reserved,
             stage = "findEmail" => form[b].saw = Nothing
      PROVE  BrowserOK(b)'
  <2>1. form'[b] = [form[b] EXCEPT !.stage = stage]
    BY <1>0, <1>3 DEF Goto
  <2> QED
    BY <1>0, <1>1, <1>3, <2>1, FormGoesOn
<1>4. ASSUME NEW u \in UserIds', NEW saw \in Seen, Answer(b, u, saw),
             saw.ver => users'[u].verified, saw.name # NoName => users'[u].name = saw.name,
             form[b].kind \in {"signup", "login", "google"},
             form[b].kind # "google" /\ u = page[b].told => saw.ver
      PROVE  BrowserOK(b)'
  <2>1. form'[b] = [form[b] EXCEPT !.stage = "answer", !.user = u, !.saw = saw]
    BY <1>0, <1>4 DEF Answer
  <2> QED
    BY <1>0, <1>1, <1>4, <2>1, FormAnswered
<1>5. ASSUME NEW u \in UserIds', NEW row \in User, AnswerActive(b, u, row), users'[u] = row,
             form[b].kind = "google"
      PROVE  BrowserOK(b)'
  <2> DEFINE saw == [name |-> row.name, ver |-> row.verified]
  <2>1. saw \in Seen /\ saw.name = row.name /\ saw.ver = row.verified
    BY DEF User, Seen
  <2>3. Refuse(b) \/ Answer(b, u, saw)
    BY <1>5 DEF AnswerActive
  <2> HIDE DEF saw
  <2> QED
    BY <1>2, <1>4, <1>5, <2>1, <2>3
<1>6. CASE FindTaken(b)
  BY <1>2, <1>3, <1>6 DEF FindTaken, At
<1>7. CASE CreateByPassword(b)
  <2>1. Len(users) + 1 \notin UserIds /\ Len(users) + 1 # 0
    BY <1>0 DEF UserIds
  <2>2. page[b].told # Len(users) + 1
    BY <1>0, <2>1 DEF BrowserOK, AfterTold
  <2>3. ~Nothing.ver /\ Nothing.name = NoName
    BY DEF Nothing
  <2>4. Refuse(b) \/ (Len(users) + 1 \in UserIds' /\ Answer(b, Len(users) + 1, Nothing))
    BY <1>0, <1>7 DEF CreateByPassword, UserIds
  <2>5. form[b].kind = "signup"
    BY <1>7 DEF CreateByPassword, At
  <2> QED
    BY <1>0, <1>2, <1>4, <2>2, <2>3, <2>4, <2>5
<1>8. CASE FindByEmail(b)
  <2>1. ASSUME NEW u \in UserIds,
               form' = [form EXCEPT ![b].stage = "check", ![b].user = u, ![b].saw = Shown(u)]
        PROVE  BrowserOK(b)'
    <3>1. form'[b] = [form[b] EXCEPT !.stage = "check", !.user = u, !.saw = Shown(u)]
      BY <1>0, <2>1
    <3>2. UNCHANGED users /\ UserIds' = UserIds
      BY <1>8 DEF FindByEmail, server, UserIds
    <3>3. Shown(u) \in Seen /\ Shown(u).ver = users[u].verified /\ Shown(u).name = users[u].name
      BY <1>0, ShownIsSeen DEF Shown
    <3>4. u = page[b].told => Shown(u).ver
      BY <1>0, <3>3 DEF BrowserOK, AfterTold
    <3>5. form[b].kind = "login"
      BY <1>8 DEF FindByEmail, At
    <3> QED
      BY <1>0, <1>1, <3>1, <3>2, <3>3, <3>4, <3>5, FormAnswered
  <2> QED
    BY <1>2, <1>8, <2>1 DEF FindByEmail, ByEmail
<1>9. CASE CheckPassword(b)
  <2>1. CASE Goto(b, "answer")
    <3>1. /\ form'[b].stage = "answer" /\ form'[b].kind = "login" /\ form'[b].user = form[b].user
          /\ form'[b].saw = form[b].saw /\ form'[b].waits = form[b].waits
          /\ form[b].stage = "check"
      BY <1>0, <1>9, <2>1 DEF CheckPassword, At, Goto, Form
    <3>2. FormOK(b)'
      BY <1>0, <3>1 DEF BrowserOK, FormOK, Known, At, Grows
    <3>3. AfterClaim(b)'
      BY <1>0, <3>1 DEF AfterClaim
    <3>4. AfterTold(b)'
      BY <1>0, <1>1, <1>9, <3>1 DEF BrowserOK, AfterTold, Grows, CheckPassword, At
    <3>5. PageOK(b)' /\ FlightOK(b)'
      BY <1>0, <1>1 DEF BrowserOK, PageOK, FlightOK, Known, Grows, Nothing
    <3> QED
      BY <3>2, <3>3, <3>4, <3>5 DEF BrowserOK
  <2> QED
    BY <1>2, <1>9, <2>1 DEF CheckPassword
<1>10. CASE FindByGoogle(b)
  <2>1. UNCHANGED users /\ UserIds' = UserIds /\ \A u \in UserIds : users[u] \in User
    BY <1>0, <1>10 DEF FindByGoogle, server, UserIds
  <2>2. form[b].kind = "google" /\ form[b].saw = Nothing
    BY <1>0, <1>10 DEF BrowserOK, FormOK, FindByGoogle, At
  <2> QED
    BY <1>3, <1>5, <1>10, <2>1, <2>2 DEF FindByGoogle, ByGoogle
<1>11. CASE FindToLink(b)
  <2>1. ASSUME NEW u \in ByEmail(form[b].email),
               form' = [form EXCEPT ![b].stage = "link", ![b].user = u]
        PROVE  BrowserOK(b)'
    <3>1. /\ form'[b].stage = "link" /\ form'[b].kind = "google" /\ form'[b].user = u
          /\ form'[b].saw = form[b].saw /\ form'[b].email = form[b].email
          /\ form'[b].google = form[b].google /\ form[b].kind = "google"
          /\ form[b].stage = "findEmail"
      BY <1>0, <1>11, <2>1 DEF FindToLink, At, Form
    <3>2. u \in UserIds /\ users[u].email = form[b].email /\ UNCHANGED users /\ UserIds' = UserIds
      BY <1>11, <2>1 DEF ByEmail, FindToLink, server, UserIds
    <3>3. FormOK(b)'
      <4>1. ~form'[b].saw.ver /\ form'[b].saw.name = NoName
        BY <1>0, <3>1 DEF BrowserOK, FormOK, Nothing
      <4> QED
        BY <1>0, <3>1, <3>2, <4>1 DEF BrowserOK, FormOK, Known, At
    <3>4. AfterClaim(b)' /\ AfterTold(b)'
      BY <1>0, <1>1, <3>1 DEF BrowserOK, AfterClaim, AfterTold, Grows
    <3>5. PageOK(b)' /\ FlightOK(b)'
      BY <1>0, <1>1 DEF BrowserOK, PageOK, FlightOK, Known, Grows, Nothing
    <3> QED
      BY <3>3, <3>4, <3>5 DEF BrowserOK
  <2> QED
    BY <1>3, <1>11, <2>1 DEF FindToLink, At
<1>12. CASE LinkGoogle(b)
  <2> DEFINE u == form[b].user
             row == [users[u] EXCEPT !.google = form[b].google, !.verified = TRUE]
  <2>1. u \in UserIds
    BY <1>0, <1>12 DEF BrowserOK, FormOK, Known, LinkGoogle, At
  <2>2. row \in User
    BY <1>0, <2>1, ShownIsSeen DEF User, Form
  <2>3. Refuse(b) \/ (users' = [users EXCEPT ![u] = row] /\ AnswerActive(b, u, row))
    BY <1>12 DEF LinkGoogle
  <2>4. users' = [users EXCEPT ![u] = row] => u \in UserIds' /\ users'[u] = row
    BY <1>0, <2>1 DEF UserIds
  <2> HIDE DEF u, row
  <2> QED
    BY <1>2, <1>5, <1>12, <2>2, <2>3, <2>4 DEF LinkGoogle, At
<1>13. CASE CreateByGoogle(b)
  <2> DEFINE u == Len(users) + 1
             row == [Newcomer(form[b].email) EXCEPT !.google = form[b].google, !.verified = TRUE]
  <2>1. row \in User
    BY <1>0 DEF Newcomer, User, Form, NameOrNone
  <2>2. Refuse(b) \/ (users' = Append(users, row) /\ AnswerActive(b, u, row))
    BY <1>13 DEF CreateByGoogle
  <2>3. users' = Append(users, row) => u \in UserIds' /\ users'[u] = row
    BY <1>0, <2>1 DEF UserIds
  <2> HIDE DEF u, row
  <2> QED
    BY <1>2, <1>5, <1>13, <2>1, <2>2, <2>3 DEF CreateByGoogle, At
<1>14. CASE FindProfile(b)
  BY <1>2, <1>3, <1>14 DEF FindProfile
<1>15. CASE CreateProfile(b)
  <2>1. CASE Goto(b, "answer") /\ users' = [users EXCEPT ![form[b].user].name = form[b].name]
    <3>1. /\ form'[b].stage = "answer" /\ form'[b].kind = "claim" /\ form'[b].user = form[b].user
          /\ form'[b].saw = form[b].saw /\ form'[b].name = form[b].name
      BY <1>0, <1>15, <2>1 DEF CreateProfile, At, Goto, Form
    <3>2. form[b].user \in UserIds /\ form[b].name \in Names /\ users[form[b].user] \in User
      BY <1>0, <1>15, ShownIsSeen DEF BrowserOK, FormOK, Known, CreateProfile, At
    <3>3. users'[form[b].user].name = form[b].name
      BY <1>0, <2>1, <3>2 DEF UserIds, User
    <3>4. FormOK(b)'
      BY <1>0, <3>1, <3>2 DEF BrowserOK, FormOK, Known, At, Grows
    <3>5. AfterClaim(b)'
      BY <3>1, <3>2, <3>3, NamesAssumption DEF AfterClaim
    <3>6. AfterTold(b)'
      BY <1>0, <1>1, <3>1 DEF BrowserOK, AfterTold, Grows
    <3>7. PageOK(b)' /\ FlightOK(b)'
      BY <1>0, <1>1 DEF BrowserOK, PageOK, FlightOK, Known, Grows, Nothing
    <3> QED
      BY <3>4, <3>5, <3>6, <3>7 DEF BrowserOK
  <2> QED
    BY <1>2, <1>15, <2>1 DEF CreateProfile
<1>16. CASE Resend(b)
  BY <1>2, <1>16 DEF Resend
<1> QED
  BY <1>6, <1>7, <1>8, <1>9, <1>10, <1>11, <1>12, <1>13, <1>14, <1>15, <1>16

(* A page that is loaded knows nothing, and what it is told of is so.      *)
LEMMA StepLoaded ==
    ASSUME AccountsInv, Grows, NEW b \in Browsers, NEW told, Load(b, told), cookie'[b] = cookie[b],
           told # 0 => told \in UserIds /\ users[told].verified
    PROVE  BrowserOK(b)'
<1>0. /\ BrowserOK(b) /\ UserIds \subseteq Nat \ {0} /\ form[b] \in Form
      /\ form \in [Browsers -> Form] /\ page \in [Browsers -> Page]
      /\ flight \in [Browsers -> Flight]
  BY IdsPositive DEF AccountsInv, TypeOK, BrowserOK
<1>1. /\ page'[b].status = "restoring" /\ page'[b].user = 0 /\ page'[b].told = told
      /\ flight'[b].stage = "posted" /\ flight'[b].user = cookie[b] /\ flight'[b].saw = Nothing
  BY <1>0 DEF Load, Closed, Asked
<1>2. \/ form'[b] = NoForm
      \/ /\ form[b].stage \notin {"idle", "done", "restore"}
         /\ form'[b] = [form[b] EXCEPT !.waits = FALSE]
  BY <1>0 DEF Load
<1>3. PageOK(b)'
  BY <1>0, <1>1 DEF BrowserOK, PageOK, Known, Grows, Nothing
<1>4. FlightOK(b)'
  <2>1. ~flight'[b].saw.ver /\ flight'[b].saw.name = NoName
    BY <1>1 DEF Nothing
  <2>2. flight'[b].user # 0 => flight'[b].user \in UserIds'
    BY <1>0, <1>1 DEF BrowserOK, PageOK, Known, Grows
  <2> QED
    BY <1>1, <2>1, <2>2 DEF FlightOK, Known
<1>5. CASE form'[b] = NoForm
  <2>1. form'[b].stage = "idle" /\ form'[b].kind = "login" /\ form'[b].user = 0
    BY <1>5 DEF NoForm
  <2>2. FormOK(b)'
    BY <2>1 DEF FormOK, Known, At
  <2>3. AfterClaim(b)' /\ AfterTold(b)'
    BY <1>0, <1>1, <2>1 DEF AfterClaim, AfterTold, Grows
  <2> QED
    BY <1>3, <1>4, <2>2, <2>3 DEF BrowserOK
<1>6. CASE /\ form[b].stage \notin {"idle", "done", "restore"}
           /\ form'[b] = [form[b] EXCEPT !.waits = FALSE]
  <2>1. /\ form'[b].stage = form[b].stage /\ form'[b].kind = form[b].kind
        /\ form'[b].user = form[b].user /\ form'[b].saw = form[b].saw
        /\ form'[b].email = form[b].email /\ form'[b].google = form[b].google
        /\ form'[b].name = form[b].name /\ ~form'[b].waits
    BY <1>0, <1>6 DEF Form
  <2>2. FormOK(b)'
    BY <1>0, <2>1 DEF BrowserOK, FormOK, Known, At, Grows
  <2>3. AfterClaim(b)'
    BY <1>0, <1>6, <2>1 DEF BrowserOK, FormOK, Known, AfterClaim, Grows
  <2>4. AfterTold(b)'
    BY <1>0, <1>1, <2>1 DEF AfterTold, Grows
  <2> QED
    BY <1>3, <1>4, <2>2, <2>3, <2>4 DEF BrowserOK
<1> QED
  BY <1>2, <1>5, <1>6

(* The answers that change what a page knows.                              *)
LEMMA StepSession ==
    ASSUME AccountsInv, Next, NEW b \in Browsers,
           \/ SignedIn(b) \/ Landed(b) \/ Claimed(b) \/ ReadAccount(b)
           \/ Restored(b) \/ NotRestored(b)
    PROVE  BrowserOK(b)'
<1>0. /\ TypeOK /\ BrowserOK(b) /\ Grows /\ UserIds \subseteq Nat \ {0}
      /\ form \in [Browsers -> Form] /\ form[b] \in Form /\ page \in [Browsers -> Page]
      /\ flight \in [Browsers -> Flight] /\ flight[b] \in Flight /\ page[b] \in Page
      /\ cookie \in [Browsers -> UserId]
  BY IdsPositive, StepGrows DEF AccountsInv, TypeOK, BrowserOK
<1>1. UNCHANGED users /\ UserIds' = UserIds
  BY DEF SignedIn, Landed, Claimed, ReadAccount, Restored, NotRestored, server, UserIds
<1>2. Refuse(b) => /\ form'[b].stage = "idle" /\ form'[b].kind = "login" /\ form'[b].user = 0
                   /\ form'[b].saw = Nothing
  BY <1>0 DEF Refuse, NoForm
<1>3. Refuse(b) => FormOK(b)'
  BY <1>2 DEF FormOK, Known, At
<1>4. CASE SignedIn(b)
  <2>1. /\ Refuse(b) /\ flight'[b] = flight[b] /\ page'[b].told = page[b].told
        /\ form[b].user # 0 /\ form[b].user \in UserIds
    BY <1>0, <1>4 DEF SignedIn, BrowserOK, FormOK, Known, Page
  <2>2. \/ page'[b] = page[b] /\ cookie'[b] = cookie[b]
        \/ /\ cookie'[b] = form[b].user /\ page'[b].status = "authenticated"
           /\ page'[b].user = form[b].user /\ page'[b].saw = form[b].saw
           /\ form[b].waits
    BY <1>0, <1>4 DEF SignedIn, Page
  <2>3. PageOK(b)'
    BY <1>0, <1>1, <2>1, <2>2 DEF BrowserOK, FormOK, PageOK, Known, Nothing
  <2>4. AfterClaim(b)'
    BY <1>2, <2>1 DEF AfterClaim
  <2>5. AfterTold(b)'
    BY <1>0, <1>1, <1>2, <1>4, <2>1, <2>2 DEF BrowserOK, AfterTold, SignedIn
  <2>6. FlightOK(b)'
    BY <1>0, <1>1, <2>1 DEF BrowserOK, FlightOK, Known
  <2> QED
    BY <1>3, <2>1, <2>3, <2>4, <2>5, <2>6 DEF BrowserOK
<1>5. CASE Landed(b)
  <2>1. Refuse(b) /\ form[b].user # 0 /\ form[b].user \in UserIds
    BY <1>0, <1>5 DEF Landed, BrowserOK, FormOK, Known, At
  <2>2. CASE ~form[b].waits
    <3>1. page'[b] = page[b] /\ flight'[b] = flight[b] /\ cookie'[b] = cookie[b]
      BY <1>5, <2>2 DEF Landed
    <3> QED
      BY <1>0, <1>2, <2>1, <3>1, FormAnew DEF AccountsInv
  <2>3. CASE form[b].waits
    <3>1. /\ cookie'[b] = form[b].user /\ page'[b].status = "restoring" /\ page'[b].user = 0
          /\ page'[b].told = 0 /\ flight'[b].stage = "posted" /\ flight'[b].user = form[b].user
          /\ flight'[b].saw = Nothing
      BY <1>0, <1>5, <2>3 DEF Landed, Closed
    <3>2. PageOK(b)'
      BY <1>0, <1>1, <2>1, <3>1 DEF PageOK, Known, Nothing
    <3>3. AfterClaim(b)' /\ AfterTold(b)'
      BY <1>2, <2>1, <3>1 DEF AfterClaim, AfterTold
    <3>4. FlightOK(b)'
      BY <1>1, <2>1, <3>1 DEF FlightOK, Known, Nothing
    <3> QED
      BY <1>3, <2>1, <3>2, <3>3, <3>4 DEF BrowserOK
  <2> QED
    BY <2>2, <2>3
<1>6. CASE Claimed(b)
  <2>1. page'[b] = page[b] /\ cookie'[b] = cookie[b]
    BY <1>6 DEF Claimed
  <2>2. CASE ~form[b].waits
    <3>1. Refuse(b) /\ flight'[b] = flight[b]
      BY <1>6, <2>2 DEF Claimed
    <3> QED
      BY <1>0, <1>2, <2>1, <3>1, FormAnew
  <2>3. CASE form[b].waits
    <3>1. /\ form'[b].stage = "restore" /\ form'[b].kind = "claim" /\ form'[b].user = form[b].user
          /\ form'[b].saw = form[b].saw /\ form'[b].name = form[b].name
          /\ form[b].kind = "claim" /\ form[b].stage = "answer"
          /\ form'[b].joined = (flight[b].stage # "none")
      BY <1>0, <1>6, <2>3 DEF Claimed, At, Form
    <3>2. \/ flight[b].stage # "none" /\ flight'[b] = flight[b]
          \/ /\ flight[b].stage = "none" /\ flight'[b].stage = "posted"
             /\ flight'[b].user = cookie[b] /\ flight'[b].saw = Nothing
      BY <1>0, <1>6, <2>3 DEF Claimed, Restore, Asked
    <3>3. FormOK(b)'
      BY <1>0, <1>1, <3>1 DEF BrowserOK, FormOK, Known, At
    <3>4. AfterClaim(b)'
      BY <1>0, <1>1, <3>1, <3>2 DEF BrowserOK, AfterClaim
    <3>5. AfterTold(b)'
      BY <1>0, <1>1, <2>1, <3>1, <3>2 DEF BrowserOK, AfterTold
    <3>6. PageOK(b)'
      BY <1>0, <1>1, <2>1 DEF BrowserOK, PageOK, Known, Nothing
    <3>7. FlightOK(b)'
      BY <1>0, <1>1, <3>2 DEF BrowserOK, PageOK, FlightOK, Known, Nothing
    <3> QED
      BY <3>3, <3>4, <3>5, <3>6, <3>7 DEF BrowserOK
  <2> QED
    BY <2>2, <2>3
<1>7. CASE ReadAccount(b)
  <2>1. /\ form'[b] = form[b] /\ page'[b] = page[b] /\ cookie'[b] = cookie[b]
        /\ flight'[b].user = flight[b].user
    BY <1>0, <1>7 DEF ReadAccount, Flight
  <2> DEFINE u == flight[b].user
  <2>2. \/ flight'[b].stage = "refused" /\ flight'[b].saw = flight[b].saw
        \/ /\ u \in UserIds /\ flight'[b].stage = "read"
           /\ flight'[b].saw.name = users[u].name /\ flight'[b].saw.ver = users[u].verified
    BY <1>0, <1>7 DEF ReadAccount, Flight, Shown
  <2>3. FormOK(b)'
    BY <1>0, <1>1, <2>1 DEF BrowserOK, FormOK, Known, At
  <2>4. AfterClaim(b)'
    BY <1>0, <1>1, <2>1, <2>2 DEF BrowserOK, AfterClaim
  <2>5. AfterTold(b)'
    BY <1>0, <1>1, <2>1, <2>2 DEF BrowserOK, AfterTold
  <2>6. PageOK(b)'
    BY <1>0, <1>1, <2>1 DEF BrowserOK, PageOK, Known, Nothing
  <2>7. FlightOK(b)'
    BY <1>0, <1>1, <2>1, <2>2 DEF BrowserOK, FlightOK, Known
  <2> QED
    BY <2>3, <2>4, <2>5, <2>6, <2>7 DEF BrowserOK
<1>8. CASE Restored(b)
  <2>1. /\ flight[b].stage = "read" /\ flight[b].user # 0 /\ flight[b].user \in UserIds
        /\ cookie'[b] = flight[b].user /\ page'[b].status = "authenticated"
        /\ page'[b].user = flight[b].user /\ page'[b].saw = flight[b].saw
        /\ page'[b].told = page[b].told
        /\ flight'[b].stage = "none" /\ flight'[b].user = 0
    BY <1>0, <1>8 DEF Restored, BrowserOK, FlightOK, Known, Page, NoFlight
  <2>2. /\ form'[b].kind = form[b].kind /\ form'[b].user = form[b].user
        /\ form'[b].saw = form[b].saw /\ form'[b].email = form[b].email
        /\ form'[b].google = form[b].google /\ form'[b].name = form[b].name
        /\ form'[b].joined = form[b].joined /\ form'[b].waits = form[b].waits
        /\ form'[b].stage = IF form[b].stage = "restore" THEN "done" ELSE form[b].stage
    BY <1>0, <1>8 DEF Restored, Form
  <2>3. FormOK(b)'
    BY <1>0, <1>1, <2>2 DEF BrowserOK, FormOK, Known, At
  <2>4. AfterClaim(b)'
    BY <1>0, <1>1, <2>1, <2>2 DEF BrowserOK, AfterClaim
  <2>5. AfterTold(b)'
    BY <1>0, <1>1, <2>1, <2>2 DEF BrowserOK, AfterTold
  <2>6. PageOK(b)'
    BY <1>0, <1>1, <2>1 DEF BrowserOK, PageOK, FlightOK, Known, Nothing
  <2>7. FlightOK(b)'
    BY <2>1 DEF FlightOK, Known
  <2> QED
    BY <2>3, <2>4, <2>5, <2>6, <2>7 DEF BrowserOK
<1>9. CASE NotRestored(b)
  <2>1. /\ page'[b].status = "anonymous" /\ page'[b].user = 0 /\ page'[b].told = page[b].told
        /\ flight'[b].stage = "none" /\ flight'[b].user = 0 /\ cookie'[b] = cookie[b]
    BY <1>0, <1>9 DEF NotRestored, Page, NoFlight
  <2>2. Refuse(b) \/ (form'[b] = form[b] /\ form[b].stage # "restore")
    BY <1>9 DEF NotRestored
  <2>3. FormOK(b)'
    BY <1>0, <1>1, <1>3, <2>2 DEF BrowserOK, FormOK, Known, At
  <2>4. AfterClaim(b)' /\ AfterTold(b)'
    BY <1>0, <1>1, <1>2, <2>1, <2>2 DEF BrowserOK, AfterClaim, AfterTold
  <2>5. PageOK(b)' /\ FlightOK(b)'
    BY <1>0, <1>1, <2>1 DEF BrowserOK, PageOK, FlightOK, Known, Nothing
  <2> QED
    BY <2>3, <2>4, <2>5 DEF BrowserOK
<1> QED
  BY <1>4, <1>5, <1>6, <1>7, <1>8, <1>9

AtBrowser(b) ==
    AtForm(b) \/ Handle(b) \/ OpenPage(b) \/ Requery(b) \/ FailForm(b) \/ FailFlight(b)

Same(b) ==
    form'[b] = form[b] /\ page'[b] = page[b] /\ flight'[b] = flight[b] /\ cookie'[b] = cookie[b]

(* What is done at one browser is not seen at another.                     *)
LEMMA Elsewhere ==
    ASSUME TypeOK, NEW b \in Browsers, NEW d \in Browsers \ {b},
           AtBrowser(b) \/ \E c \in Clicks : Bounce(c, b)
    PROVE  Same(d)
<1>0. /\ form \in [Browsers -> Form] /\ page \in [Browsers -> Page]
      /\ flight \in [Browsers -> Flight] /\ cookie \in [Browsers -> UserId]
  BY DEF TypeOK
<1>1. CASE AtForm(b)
  <2>1. ASSUME NEW sent, Begin(b, sent) PROVE form'[d] = form[d]
    BY <1>0, <2>1 DEF Begin
  <2>2. CASE \E e \in Addresses, kind \in {"signup", "login"} : SubmitAuth(b, kind, e)
    BY <2>1, <2>2 DEF SubmitAuth, Same
  <2>3. CASE \E g \in Googles : StartGoogle(b, g)
    BY <1>0, <2>1, <2>3 DEF StartGoogle, Same
  <2>4. CASE (\E n \in Names : SubmitName(b, n)) \/ AskAgain(b)
    BY <2>1, <2>4 DEF SubmitName, AskAgain, Same
  <2>5. CASE Logout(b) \/ Post(b)
    BY <1>0, <2>5 DEF Logout, Post, Refuse, Same
  <2> QED
    BY <1>1, <2>2, <2>3, <2>4, <2>5 DEF AtForm
<1>2. CASE Handle(b)
  <2>1. Refuse(b) => form'[d] = form[d]
    BY <1>0 DEF Refuse
  <2>2. ASSUME NEW stage, Goto(b, stage) PROVE form'[d] = form[d]
    BY <1>0, <2>2 DEF Goto
  <2>3. ASSUME NEW u, NEW saw, Answer(b, u, saw) PROVE form'[d] = form[d]
    BY <1>0, <2>3 DEF Answer
  <2>4. ASSUME NEW u, NEW row, AnswerActive(b, u, row) PROVE form'[d] = form[d]
    BY <2>1, <2>3, <2>4 DEF AnswerActive
  <2>5. CASE FindTaken(b) \/ CreateByPassword(b) \/ FindByEmail(b) \/ CheckPassword(b)
    BY <1>0, <2>1, <2>2, <2>3, <2>5
    DEF FindTaken, CreateByPassword, FindByEmail, CheckPassword, Same
  <2>6. CASE FindByGoogle(b) \/ FindToLink(b)
    BY <1>0, <2>2, <2>4, <2>6 DEF FindByGoogle, FindToLink, Same
  <2>7. CASE LinkGoogle(b) \/ CreateByGoogle(b)
    BY <2>1, <2>4, <2>7 DEF LinkGoogle, CreateByGoogle, Same
  <2>8. CASE FindProfile(b) \/ CreateProfile(b) \/ Resend(b)
    BY <2>1, <2>2, <2>8 DEF FindProfile, CreateProfile, Resend, Same
  <2>9. CASE SignedIn(b) \/ Landed(b)
    BY <1>0, <2>1, <2>9 DEF SignedIn, Landed, Same
  <2>10. CASE Claimed(b)
    BY <1>0, <2>1, <2>10 DEF Claimed, Restore, Same
  <2>11. CASE ReadAccount(b) \/ Restored(b) \/ NotRestored(b)
    BY <1>0, <2>1, <2>11 DEF ReadAccount, Restored, NotRestored, Same
  <2> QED
    BY <1>2, <2>5, <2>6, <2>7, <2>8, <2>9, <2>10, <2>11 DEF Handle
<1>3. CASE OpenPage(b) \/ \E c \in Clicks : Bounce(c, b)
  <2>1. ASSUME NEW told, Load(b, told), UNCHANGED cookie PROVE Same(d)
    BY <1>0, <2>1 DEF Load, Same
  <2> QED
    BY <1>3, <2>1 DEF OpenPage, Bounce
<1>4. CASE Requery(b) \/ FailForm(b) \/ FailFlight(b)
  BY <1>0, <1>4 DEF Requery, FailForm, FailFlight, Restore, Refuse, Same
<1> QED
  BY <1>1, <1>2, <1>3, <1>4 DEF AtBrowser

(* At the browser itself.                                                  *)
LEMMA StepHere ==
    ASSUME AccountsInv, Next, NEW b \in Browsers, AtBrowser(b)
    PROVE  BrowserOK(b)'
<1>0. /\ TypeOK /\ BrowserOK(b) /\ Grows /\ UserIds \subseteq Nat \ {0}
      /\ form \in [Browsers -> Form] /\ page \in [Browsers -> Page]
      /\ flight \in [Browsers -> Flight] /\ flight[b] \in Flight
  BY IdsPositive, StepGrows DEF AccountsInv, TypeOK, BrowserOK
<1>1. CASE AtForm(b)
  BY <1>1, StepAtForm
<1>2. CASE Handle(b)
  BY <1>2, StepSubmission, StepSession DEF Handle
<1>3. CASE OpenPage(b)
  <2>1. Load(b, 0) /\ cookie'[b] = cookie[b]
    BY <1>3 DEF OpenPage
  <2> QED
    BY <1>0, <2>1, StepLoaded
<1>4. CASE Requery(b)
  <2>1. /\ form'[b] = form[b] /\ page'[b] = page[b] /\ cookie'[b] = cookie[b]
        /\ flight'[b].stage = "posted" /\ flight'[b].user = cookie[b]
        /\ flight'[b].saw = Nothing /\ UNCHANGED users
    BY <1>0, <1>4 DEF Requery, Restore, Asked, server
  <2>2. FormOK(b)'
    BY <1>0, <2>1 DEF BrowserOK, FormOK, Known, At, Grows
  <2>5. AfterTold(b)'
    BY <1>0, <2>1 DEF BrowserOK, AfterTold, Grows
  <2>3. AfterClaim(b)'
    BY <1>0, <2>1 DEF BrowserOK, AfterClaim
  <2>4. PageOK(b)' /\ FlightOK(b)'
    BY <1>0, <2>1 DEF BrowserOK, PageOK, FlightOK, Known, Grows, Nothing
  <2> QED
    BY <2>2, <2>3, <2>4, <2>5 DEF BrowserOK
<1>5. CASE FailForm(b)
  <2>1. /\ form'[b].stage = "idle" /\ form'[b].saw = Nothing /\ form'[b].user = 0
        /\ form'[b].kind = "login"
    BY <1>0, <1>5 DEF FailForm, Refuse, NoForm
  <2>2. page'[b] = page[b] /\ flight'[b] = flight[b] /\ cookie'[b] = cookie[b]
    BY <1>5 DEF FailForm
  <2> QED
    BY <1>0, <2>1, <2>2, FormAnew
<1>6. CASE FailFlight(b)
  <2>1. /\ form'[b] = form[b] /\ page'[b] = page[b] /\ cookie'[b] = cookie[b]
        /\ flight'[b].stage = "refused" /\ flight'[b].user = flight[b].user
        /\ flight'[b].saw = flight[b].saw /\ UNCHANGED users
    BY <1>0, <1>6 DEF FailFlight, server, Flight
  <2>2. FormOK(b)'
    BY <1>0, <2>1 DEF BrowserOK, FormOK, Known, At, Grows
  <2>5. AfterTold(b)'
    BY <1>0, <2>1 DEF BrowserOK, AfterTold, Grows
  <2>3. AfterClaim(b)'
    BY <1>0, <2>1 DEF BrowserOK, AfterClaim
  <2>4. PageOK(b)' /\ FlightOK(b)'
    BY <1>0, <2>1 DEF BrowserOK, PageOK, FlightOK, Known, Grows
  <2> QED
    BY <2>2, <2>3, <2>4, <2>5 DEF BrowserOK
<1> QED
  BY <1>1, <1>2, <1>3, <1>4, <1>5, <1>6 DEF AtBrowser

LEMMA StepBrowsers ==
    ASSUME AccountsInv, Next
    PROVE  \A d \in Browsers : BrowserOK(d)'
<1> SUFFICES ASSUME NEW d \in Browsers PROVE BrowserOK(d)'
  OBVIOUS
<1>0. TypeOK /\ BrowserOK(d) /\ Grows
  BY StepGrows DEF AccountsInv, BrowserOK
<1>1. Same(d) => BrowserOK(d)'
  BY <1>0, Undisturbed DEF Same
<1>2. ASSUME NEW b \in Browsers, AtBrowser(b) PROVE BrowserOK(d)'
  <2>1. CASE b = d
    BY <1>2, <2>1, StepHere
  <2>2. CASE b # d
    BY <1>0, <1>1, <1>2, <2>2, Elsewhere
  <2> QED
    BY <2>1, <2>2
<1>3. ASSUME NEW c \in Clicks, NEW b \in Browsers, Bounce(c, b) PROVE BrowserOK(d)'
  <2>1. CASE b = d
    <3> DEFINE told == IF click[c].ok THEN links[click[c].link].user ELSE 0
    <3>1. Load(b, told) /\ cookie'[b] = cookie[b]
      BY <1>3 DEF Bounce
    <3>2. told # 0 => told \in UserIds /\ users[told].verified
      BY <1>3 DEF AccountsInv, LinksOK, ClickOK, Bounce
    <3> HIDE DEF told
    <3> QED
      BY <1>0, <2>1, <3>1, <3>2, StepLoaded
  <2>2. CASE b # d
    BY <1>0, <1>1, <1>3, <2>2, Elsewhere
  <2> QED
    BY <2>1, <2>2
<1>4. ASSUME NEW c \in Clicks, Confirm(c) PROVE BrowserOK(d)'
  BY <1>1, <1>3, <1>4 DEF Confirm, OpenLink, TakeLink, MarkVerified, Dismiss, FailClick, Same
<1>5. ASSUME NEW u \in UserIds, SendLink(u) \/ Suspend(u) \/ Promote(u) PROVE BrowserOK(d)'
  BY <1>1, <1>5 DEF SendLink, Suspend, Promote, Same
<1>6. ASSUME NEW l \in DOMAIN links, ExpireLink(l) PROVE BrowserOK(d)'
  BY <1>1, <1>6 DEF ExpireLink, Same
<1> QED
  BY <1>2, <1>4, <1>5, <1>6 DEF Next, AtBrowser

LEMMA InvStep == AccountsInv /\ [Next]_vars => AccountsInv'
<1> SUFFICES ASSUME AccountsInv, [Next]_vars PROVE AccountsInv'
  OBVIOUS
<1>1. CASE Next
  <2>1. \A b \in Browsers :
          FormOK(b)' /\ AfterClaim(b)' /\ AfterTold(b)' /\ PageOK(b)' /\ FlightOK(b)'
    BY <1>1, StepBrowsers DEF BrowserOK
  <2> QED
    BY <1>1, <2>1, StepTypes, StepRows, StepMail, StepPosted DEF AccountsInv
<1>2. CASE UNCHANGED vars
  <2>1. TypeOK' /\ RowsOK' /\ LinksOK' /\ PostedOK' /\ LinkTakesEffect'
    BY <1>2 DEF AccountsInv, vars, TypeOK, RowsOK, LinksOK, PostedOK, LinkTakesEffect, UserIds
  <2>2. \A b \in Browsers : FormOK(b)' /\ AfterClaim(b)' /\ AfterTold(b)'
    BY <1>2 DEF AccountsInv, vars, FormOK, AfterClaim, AfterTold, Known, At, UserIds
  <2>3. \A b \in Browsers : PageOK(b)' /\ FlightOK(b)'
    BY <1>2 DEF AccountsInv, vars, PageOK, FlightOK, Known, UserIds
  <2>4. \A c \in Clicks : ClickOK(c)'
    BY <1>2 DEF AccountsInv, vars, ClickOK
  <2> QED
    BY <2>1, <2>2, <2>3, <2>4 DEF AccountsInv
<1> QED
  BY <1>1, <1>2

-----------------------------------------------------------------------------
(* The theorems.                                                           *)

(* In every reachable state of the handlers of auth.service.ts and         *)
(* verification.service.ts, and of the pages, the invariant holds.         *)
THEOREM AccountsSafe == Spec => []AccountsInv
<1>1. Init => AccountsInv
  BY InitInv
<1>2. AccountsInv /\ [Next]_vars => AccountsInv'
  BY InvStep
<1> QED
  BY <1>1, <1>2, PTL DEF Spec

(* The state has its types.                                                *)
THEOREM AccountsTypeCorrect == Spec => []TypeOK
<1>1. AccountsInv => TypeOK
  BY DEF AccountsInv
<1> QED
  BY <1>1, AccountsSafe, PTL

(* No two accounts share an address, a Google account or a name, whatever  *)
(* sign-ups, callbacks and claims overlap.                                 *)
THEOREM AccountsAreDistinct == Spec => []IdentitiesDistinct
<1>1. AccountsInv => IdentitiesDistinct
  BY DEF AccountsInv, RowsOK, IdentitiesDistinct
<1> QED
  BY <1>1, AccountsSafe, PTL

(* Nobody is confirmed without a proof of the address, and nobody writes   *)
(* unconfirmed or without a name, though the guards of the endpoints only  *)
(* look at the claims of a token.                                          *)
THEOREM ConfirmedAndNamed == Spec => []ConfirmedByProof
<1>1. AccountsInv => ConfirmedByProof
  BY DEF AccountsInv, RowsOK, PostedOK, ConfirmedByProof
<1> QED
  BY <1>1, AccountsSafe, PTL

(* A link that was used up has confirmed its account, or is about to.      *)
THEOREM UsedLinksConfirm == Spec => []LinkTakesEffect
<1>1. AccountsInv => LinkTakesEffect
  BY DEF AccountsInv
<1> QED
  BY <1>1, AccountsSafe, PTL

(* After a claim that asked for a token of its own the page has the name,  *)
(* and a page that reports a confirmation holds a token that says so.      *)
THEOREM PagesCatchUp == Spec => []PageCatchesUp
<1>1. ASSUME AccountsInv PROVE PageCatchesUp
  <2> SUFFICES ASSUME NEW b \in Browsers, page[b].status = "authenticated"
               PROVE  /\ form[b].stage = "done" /\ ~form[b].joined /\ form[b].user = page[b].user
                         => page[b].saw.name = users[page[b].user].name
                      /\ page[b].told = page[b].user => page[b].saw.ver
    BY DEF PageCatchesUp
  <2>1. AfterClaim(b) /\ AfterTold(b)
    BY <1>1 DEF AccountsInv
  <2> QED
    BY <2>1 DEF AfterClaim, AfterTold
<1> QED
  BY <1>1, AccountsSafe, PTL

=============================================================================
