--------------------------- MODULE SessionsProofs ---------------------------
(***************************************************************************)
(* What holds of Sessions for any number of refresh calls, tokens, loads   *)
(* and failures: the types for any tabs, the rest for a browser with one   *)
(* tab.                                                                    *)
(***************************************************************************)
EXTENDS Sessions, FiniteSetTheorems, TLAPS

-----------------------------------------------------------------------------
(* The book: rows are numbered from one, every sign-in is a row, and every *)
(* refresh on its way has a row left to take.                              *)

Busy == {c \in Calls : call[c].stage \in {"find", "revoke", "issue"}}

BookOK ==
    /\ Issued = 1 .. Cardinality(Issued)
    /\ Cardinality(Issued) + Cardinality(Busy) <= MaxTokens
    /\ \A x \in Issued : tokens[x].login \in Issued
    /\ \A c \in Busy : ~At(c, "find") => call[c].presented \in Issued

BookInv == TypeOK /\ BookOK

LEMMA Counted ==
    ASSUME TypeOK
    PROVE  /\ Issued \subseteq 1 .. MaxTokens /\ Cardinality(Issued) \in Nat
           /\ IsFiniteSet(Issued)
           /\ IsFiniteSet(Busy) /\ Cardinality(Busy) \in Nat
<1>0. 1 \in Int /\ MaxTokens \in Int
  BY SessionBoundsAssumption
<1>1. IsFiniteSet(1 .. MaxTokens)
  BY <1>0, FS_Interval
<1>2. Issued \in SUBSET (1 .. MaxTokens) /\ Busy \in SUBSET Calls
  BY DEF TypeOK, Issued, Busy
<1>3. IsFiniteSet(Issued)
  BY <1>1, <1>2, FS_Subset
<1>4. IsFiniteSet(Busy)
  BY <1>2, FS_Subset, TabsAssumption
<1> QED
  BY <1>2, <1>3, <1>4, FS_CardinalityType

(* The same of the next state.                                             *)
LEMMA CountedNext ==
    ASSUME TypeOK'
    PROVE  /\ Issued' \subseteq 1 .. MaxTokens /\ Cardinality(Issued') \in Nat
           /\ IsFiniteSet(Issued')
           /\ IsFiniteSet(Busy') /\ Cardinality(Busy') \in Nat
<1>0. 1 \in Int /\ MaxTokens \in Int
  BY SessionBoundsAssumption
<1>1. IsFiniteSet(1 .. MaxTokens)
  BY <1>0, FS_Interval
<1>2. Issued' \in SUBSET (1 .. MaxTokens) /\ Busy' \in SUBSET Calls
  BY DEF TypeOK, Issued, Busy
<1>3. IsFiniteSet(Issued')
  BY <1>1, <1>2, FS_Subset
<1>4. IsFiniteSet(Busy')
  BY <1>2, FS_Subset, TabsAssumption
<1> QED
  BY <1>2, <1>3, <1>4, FS_CardinalityType

(* The number a new row gets, while there is one left.                     *)
LEMMA FreshRow ==
    ASSUME BookInv, TokensLeft \/ Busy # {}
    PROVE  Fresh \in 1 .. MaxTokens /\ Fresh \notin Issued /\ Fresh \in TokenId
<1>1. /\ Cardinality(Issued) \in Nat /\ Cardinality(Busy) \in Nat /\ IsFiniteSet(Busy)
  BY Counted DEF BookInv
<1>2. Cardinality(Issued) < MaxTokens
  <2>1. CASE TokensLeft
    BY <1>1, <2>1, SessionBoundsAssumption DEF TokensLeft, Busy
  <2>2. CASE Busy # {}
    <3>1. Cardinality(Busy) # 0
      BY <1>1, <2>2, FS_EmptySet
    <3> QED
      BY <1>1, <3>1, SessionBoundsAssumption DEF BookInv, BookOK
  <2> QED
    BY <2>1, <2>2
<1> QED
  BY <1>1, <1>2, SessionBoundsAssumption DEF BookInv, BookOK, Fresh, TokenId

(* Steps that issue nothing.                                               *)
LEMMA NothingIssued ==
    ASSUME BookInv, TypeOK', Issued' = Issued,
           \/ Busy' \subseteq Busy
           \/ TokensLeft /\ \E c : Busy' = Busy \cup {c},
           \A x \in Issued : tokens'[x].login = tokens[x].login,
           \A c \in Busy' : ~At(c, "find")' => call'[c].presented \in Issued
    PROVE  BookOK'
<1>1. /\ Cardinality(Issued) \in Nat /\ Cardinality(Busy) \in Nat /\ IsFiniteSet(Busy)
      /\ Cardinality(Busy') \in Nat
  BY Counted, CountedNext DEF BookInv
<1>2. Cardinality(Issued) + Cardinality(Busy') <= MaxTokens
  <2>1. CASE Busy' \subseteq Busy
    <3>1. Cardinality(Busy') <= Cardinality(Busy)
      BY <1>1, <2>1, FS_Subset
    <3> QED
      BY <1>1, <3>1, SessionBoundsAssumption DEF BookInv, BookOK
  <2>2. ASSUME TokensLeft, NEW c, Busy' = Busy \cup {c}
        PROVE  Cardinality(Issued) + Cardinality(Busy') <= MaxTokens
    <3>0. Cardinality(Busy \cup {c}) =
             IF c \in Busy THEN Cardinality(Busy) ELSE Cardinality(Busy) + 1
      BY <1>1, FS_AddElement
    <3>1. Cardinality(Busy') <= Cardinality(Busy) + 1
      BY <1>1, <2>2, <3>0
    <3>2. Cardinality(Issued) + Cardinality(Busy) < MaxTokens
      BY <2>2 DEF TokensLeft, Busy
    <3> QED
      BY <1>1, <3>1, <3>2, SessionBoundsAssumption
  <2> QED
    BY <2>1, <2>2
<1>3. Issued' = 1 .. Cardinality(Issued')
  BY DEF BookInv, BookOK
<1>4. \A x \in Issued' : tokens'[x].login \in Issued'
  BY DEF BookInv, BookOK
<1> QED
  BY <1>2, <1>3, <1>4 DEF BookOK

(* Steps that issue a row.                                                 *)
LEMMA OneIssued ==
    ASSUME BookInv, TypeOK', Issued' = Issued \cup {Fresh}, Fresh \notin Issued,
           \/ TokensLeft /\ Busy' = Busy
           \/ \E c \in Busy : Busy' = Busy \ {c},
           \A x \in Issued : tokens'[x].login = tokens[x].login,
           tokens'[Fresh].login \in Issued',
           \A c \in Busy' : ~At(c, "find")' => call'[c].presented \in Issued
    PROVE  BookOK'
<1>1. /\ Cardinality(Issued) \in Nat /\ Cardinality(Busy) \in Nat /\ IsFiniteSet(Busy)
      /\ Cardinality(Busy') \in Nat /\ IsFiniteSet(Issued)
  BY Counted, CountedNext DEF BookInv
<1>2. Cardinality(Issued') = Cardinality(Issued) + 1
  BY <1>1, FS_AddElement
<1>3. Cardinality(Issued') + Cardinality(Busy') <= MaxTokens
  <2>1. CASE TokensLeft /\ Busy' = Busy
    <3>1. Cardinality(Issued) + Cardinality(Busy) < MaxTokens
      BY <2>1 DEF TokensLeft, Busy
    <3>2. Cardinality(Busy') = Cardinality(Busy)
      BY <2>1
    <3> QED
      BY <1>1, <1>2, <3>1, <3>2, SessionBoundsAssumption
  <2>2. ASSUME NEW c \in Busy, Busy' = Busy \ {c}
        PROVE  Cardinality(Issued') + Cardinality(Busy') <= MaxTokens
    <3>0. Cardinality(Busy \ {c}) =
             IF c \in Busy THEN Cardinality(Busy) - 1 ELSE Cardinality(Busy)
      BY <1>1, FS_RemoveElement
    <3>1. Cardinality(Busy') = Cardinality(Busy) - 1
      BY <2>2, <3>0
    <3> QED
      BY <1>1, <1>2, <3>1, SessionBoundsAssumption DEF BookInv, BookOK
  <2> QED
    BY <2>1, <2>2
<1>4. Issued' = 1 .. Cardinality(Issued')
  BY <1>1, <1>2 DEF BookInv, BookOK, Fresh
<1>5. \A x \in Issued' : tokens'[x].login \in Issued'
  BY DEF BookInv, BookOK
<1> QED
  BY <1>3, <1>4, <1>5 DEF BookOK

LEMMA InitBook == Init => BookInv
<1> SUFFICES ASSUME Init PROVE BookInv
  OBVIOUS
<1>1. TypeOK
  BY SessionBoundsAssumption DEF Init, TypeOK, TokenId, Token, Tab, Call, NoCall
<1>2. Issued = {} /\ Busy = {}
  BY DEF Init, Issued, Busy, NoCall
<1>3. Cardinality(Issued) = 0 /\ Cardinality(Busy) = 0
  BY <1>2, FS_EmptySet
<1>4. BookOK
  BY <1>2, <1>3, SessionBoundsAssumption DEF BookOK
<1> QED
  BY <1>1, <1>4 DEF BookInv

(* What of a step the types and the book depend on.                        *)
LEMMA StepTypes ==
    ASSUME BookInv, Next
    PROVE  TypeOK'
<1>0. /\ TypeOK /\ tokens \in [1 .. MaxTokens -> Token] /\ cookie \in TokenId
      /\ tab \in [Tabs -> Tab] /\ call \in [Calls -> Call] /\ 0 \in TokenId
      /\ loads \in Nat /\ failures \in Nat /\ hasty \in Nat
      /\ account \in {"ACTIVE", "SUSPENDED"}
  BY SessionBoundsAssumption DEF BookInv, TypeOK, TokenId
<1>1. NoCall \in Call /\ Restored \in Tab /\ NotRestored \in Tab
  BY <1>0 DEF NoCall, Call, Restored, NotRestored, Tab
<1>2. \A t \in Tabs : Post(t) \in Call /\ (Hasten(t) => hasty' \in Nat)
  BY <1>0 DEF Post, Call, Hasten
<1>3. ASSUME NEW t \in Tabs, NEW c \in Calls, Load(t, c) PROVE TypeOK'
  <2>1. call' \in [Calls -> Call]
    BY <1>0, <1>2, <1>3 DEF Load, Call
  <2>2. tab' \in [Tabs -> Tab]
    BY <1>0, <1>3 DEF Load, Tab
  <2> QED
    BY <1>0, <1>2, <1>3, <2>1, <2>2 DEF Load, TypeOK
<1>4. ASSUME NEW t \in Tabs, NEW c \in Calls, Query(t, c) \/ Renew(t, c) PROVE TypeOK'
  <2>1. call' \in [Calls -> Call]
    BY <1>0, <1>2, <1>4 DEF Query, Renew
  <2>2. tab' \in [Tabs -> Tab]
    <3>1. CASE Query(t, c)
      <4>1. tab' = [tab EXCEPT ![t] = [tab[t] EXCEPT !.query = TRUE, !.flight = TRUE]]
        BY <3>1 DEF Query
      <4>2. [tab[t] EXCEPT !.query = TRUE, !.flight = TRUE] \in Tab
        BY <1>0 DEF Tab
      <4> QED
        BY <1>0, <4>1, <4>2
    <3>2. CASE Renew(t, c)
      BY <1>0, <3>2 DEF Renew, Tab
    <3> QED
      BY <1>4, <3>1, <3>2
  <2> QED
    BY <1>0, <1>4, <2>1, <2>2 DEF Query, Renew, TypeOK
<1>5. ASSUME NEW t \in Tabs, Login(t) PROVE TypeOK'
  <2>1. Fresh \in 1 .. MaxTokens /\ Fresh \in TokenId
    BY <1>5, FreshRow DEF Login
  <2>2. [status |-> "active", expired |-> FALSE, next |-> 0, login |-> Fresh] \in Token
    BY <1>0, <2>1 DEF Token
  <2>3. tokens' \in [1 .. MaxTokens -> Token] /\ tab' \in [Tabs -> Tab]
    BY <1>0, <1>5, <2>2 DEF Login, Tab
  <2> QED
    BY <1>0, <1>5, <2>1, <2>3 DEF Login, TypeOK
<1>6. ASSUME NEW t \in Tabs, Logout(t) PROVE TypeOK'
  <2>1. tokens' \in [1 .. MaxTokens -> Token]
    BY <1>0, <1>6 DEF Logout, Token
  <2>2. tab' \in [Tabs -> Tab]
    BY <1>0, <1>6 DEF Logout, Tab
  <2> QED
    BY <1>0, <1>2, <1>6, <2>1, <2>2 DEF Logout, TypeOK
<1>7. ASSUME NEW t \in Tabs, ExpireAccess(t) PROVE TypeOK'
  <2>1. tab' \in [Tabs -> Tab]
    BY <1>0, <1>7 DEF ExpireAccess, Tab
  <2> QED
    BY <1>0, <1>7, <2>1 DEF ExpireAccess, TypeOK
<1>8. ASSUME NEW x \in DOMAIN tokens, ExpireToken(x) PROVE TypeOK'
  <2>1. tokens' \in [1 .. MaxTokens -> Token]
    BY <1>0, <1>8 DEF ExpireToken, Token
  <2> QED
    BY <1>0, <1>8, <2>1 DEF ExpireToken, TypeOK
<1>9. CASE Suspend
  BY <1>0, <1>9 DEF Suspend, TypeOK
<1>10. ASSUME NEW c \in Calls, FindToken(c) \/ CheckAccount(c) PROVE TypeOK'
  <2>1. call' \in [Calls -> Call]
    BY <1>0, <1>10 DEF FindToken, CheckAccount, Goto, Call
  <2> QED
    BY <1>0, <1>10, <2>1 DEF FindToken, CheckAccount, TypeOK
<1>11. ASSUME NEW c \in Calls, RevokeFamily(c) \/ RevokePresented(c) PROVE TypeOK'
  <2>1. call' \in [Calls -> Call]
    BY <1>0, <1>11 DEF RevokeFamily, RevokePresented, Goto, Call
  <2>2. tokens' \in [1 .. MaxTokens -> Token]
    BY <1>0, <1>11 DEF RevokeFamily, RevokePresented, Token
  <2> QED
    BY <1>0, <1>11, <2>1, <2>2 DEF RevokeFamily, RevokePresented, TypeOK
<1>12. ASSUME NEW c \in Calls, IssueNext(c) PROVE TypeOK'
  <2> DEFINE x == call[c].presented
             row == [status |-> "active", expired |-> FALSE, next |-> 0,
                     login |-> tokens[x].login]
  <2>1. c \in Busy /\ x \in Issued
    BY <1>12 DEF BookInv, BookOK, IssueNext, At, Busy
  <2>2. Fresh \in 1 .. MaxTokens /\ Fresh \in TokenId /\ x \in 1 .. MaxTokens /\ Fresh # x
    BY <1>0, <2>1, FreshRow, Counted
  <2>3. row \in Token
    BY <1>0, <2>2 DEF Token
  <2>4. tokens' = [tokens EXCEPT ![Fresh] = row, ![x].next = Fresh]
    BY <1>12 DEF IssueNext
  <2>5. tokens' \in [1 .. MaxTokens -> Token]
    <3> HIDE DEF x, row
    <3> QED
      BY <1>0, <2>2, <2>3, <2>4 DEF Token
  <2>6. call' \in [Calls -> Call]
    BY <1>0, <1>12, <2>2 DEF IssueNext, Call
  <2> QED
    BY <1>0, <1>12, <2>5, <2>6 DEF IssueNext, TypeOK
<1>13. ASSUME NEW c \in Calls, Grant(c) \/ Refuse(c) \/ Fail(c) PROVE TypeOK'
  <2>1. call' \in [Calls -> Call]
    BY <1>0, <1>1, <1>13 DEF Grant, Refuse, Fail
  <2>2. tab' \in [Tabs -> Tab]
    BY <1>0, <1>1, <1>13 DEF Grant, Refuse, Fail
  <2>3. cookie' \in TokenId
    BY <1>0, <1>13 DEF Grant, Refuse, Fail, Call
  <2> QED
    BY <1>0, <1>13, <2>1, <2>2, <2>3 DEF Grant, Refuse, Fail, TypeOK
<1> QED
  BY <1>3, <1>4, <1>5, <1>6, <1>7, <1>8, <1>9, <1>10, <1>11, <1>12, <1>13 DEF Next, User, Step

LEMMA StepBook ==
    ASSUME BookInv, Next
    PROVE  BookOK'
<1>0. /\ TypeOK /\ BookOK /\ TypeOK' /\ tokens \in [1 .. MaxTokens -> Token]
      /\ call \in [Calls -> Call]
  BY StepTypes DEF BookInv, TypeOK
<1>1. ASSUME Issued' = Issued, \A x \in Issued : tokens'[x].login = tokens[x].login,
             Busy' \subseteq Busy, \A c \in Busy' : ~At(c, "find")' =>
                call'[c].presented \in Issued
      PROVE  BookOK'
  BY <1>0, <1>1, NothingIssued
<1>2. ASSUME NEW t, NEW c \in Calls, UNCHANGED tokens, TokensLeft, At(c, "idle"),
             call'[c] = Post(t), \A d \in Calls \ {c} : call'[d].stage = call[d].stage
                                              /\ call'[d].presented = call[d].presented
      PROVE  BookOK'
  <2>1. Busy' = Busy \cup {c} /\ At(c, "find")'
    BY <1>2 DEF Busy, Post, At
  <2>2. Issued' = Issued
    BY <1>2 DEF Issued
  <2>3. \A d \in Busy' : ~At(d, "find")' => call'[d].presented \in Issued
    BY <1>0, <1>2, <2>1 DEF BookOK, At, Busy
  <2> QED
    BY <1>2, <2>1, <2>2, <2>3, NothingIssued, StepTypes
<1>3. CASE UNCHANGED <<tokens, call>>
  <2>1. Issued' = Issued /\ Busy' = Busy
    BY <1>3 DEF Issued, Busy
  <2> QED
    BY <1>0, <1>1, <1>3, <2>1 DEF BookOK, At
<1>4. ASSUME NEW t \in Tabs, NEW c \in Calls, Load(t, c) PROVE BookOK'
  BY <1>0, <1>2, <1>4 DEF Load, Call
<1>5. ASSUME NEW t \in Tabs, NEW c \in Calls, Query(t, c) \/ Renew(t, c) PROVE BookOK'
  <2>1. CASE UNCHANGED call
    BY <1>3, <1>5, <2>1 DEF Query, Renew
  <2>2. CASE At(c, "idle") /\ TokensLeft /\ call' = [call EXCEPT ![c] = Post(t)]
    BY <1>0, <1>2, <1>5, <2>2 DEF Query, Renew
  <2> QED
    BY <1>5, <2>1, <2>2 DEF Query, Renew
<1>6. ASSUME NEW t \in Tabs, Login(t) PROVE BookOK'
  <2>1. Fresh \in 1 .. MaxTokens /\ Fresh \notin Issued
    BY <1>6, FreshRow DEF Login
  <2>2. /\ tokens'[Fresh].status = "active" /\ tokens'[Fresh].login = Fresh
        /\ \A x \in 1 .. MaxTokens : x # Fresh => tokens'[x] = tokens[x]
    BY <1>0, <1>6, <2>1 DEF Login
  <2>3. Issued' = Issued \cup {Fresh}
    BY <1>0, <2>1, <2>2 DEF Issued, TypeOK
  <2>4. Busy' = Busy /\ TokensLeft /\ UNCHANGED call
    BY <1>6 DEF Login, Busy
  <2>5. \A c \in Busy' : ~At(c, "find")' => call'[c].presented \in Issued
    BY <1>0, <2>4 DEF BookOK, At
  <2>6. \A x \in Issued : tokens'[x].login = tokens[x].login
    BY <1>0, <2>1, <2>2 DEF Issued
  <2> QED
    BY <1>0, <2>1, <2>2, <2>3, <2>4, <2>5, <2>6, OneIssued
<1>7. ASSUME NEW t \in Tabs, Logout(t) PROVE BookOK'
  <2>1. Issued' = Issued /\ \A x \in Issued : tokens'[x].login = tokens[x].login
    <3>1. CASE UNCHANGED tokens
      BY <3>1 DEF Issued
    <3>2. CASE tokens' = [x \in DOMAIN tokens |->
                            IF x = cookie /\ x \in Active
                            THEN [tokens[x] EXCEPT !.status = "revoked"] ELSE tokens[x]]
      BY <1>0, <3>2 DEF Issued, Active, Token
    <3> QED
      BY <1>7, <3>1, <3>2 DEF Logout
  <2>2. Busy' = Busy /\ UNCHANGED call
    BY <1>7 DEF Logout, Busy
  <2> QED
    BY <1>0, <1>1, <2>1, <2>2 DEF BookOK, At
<1>8. ASSUME NEW t \in Tabs, ExpireAccess(t) PROVE BookOK'
  BY <1>3, <1>8 DEF ExpireAccess
<1>9. ASSUME NEW x \in DOMAIN tokens, ExpireToken(x) PROVE BookOK'
  <2>1. Issued' = Issued /\ \A y \in Issued : tokens'[y].login = tokens[y].login
    BY <1>0, <1>9 DEF ExpireToken, Issued, Token
  <2>2. Busy' = Busy /\ UNCHANGED call
    BY <1>9 DEF ExpireToken, Busy
  <2> QED
    BY <1>0, <1>1, <2>1, <2>2 DEF BookOK, At
<1>10. CASE Suspend
  BY <1>3, <1>10 DEF Suspend
<1>11. ASSUME NEW c \in Calls, FindToken(c) PROVE BookOK'
  <2>1. /\ call'[c].presented = call[c].presented /\ c \in Busy /\ Issued' = Issued
        /\ call'[c].stage = "revoke" => call[c].presented \in Issued
        /\ call'[c].stage \in {"refused", "family", "revoke"}
        /\ \A d \in Calls \ {c} : call'[d] = call[d]
    BY <1>0, <1>11 DEF FindToken, Goto, At, Call, Busy, Issued, Active
  <2>2. Busy' \subseteq Busy
    BY <2>1 DEF Busy
  <2>3. \A d \in Busy' : ~At(d, "find")' => call'[d].presented \in Issued
    BY <1>0, <2>1, <2>2 DEF BookOK, At, Busy
  <2> QED
    BY <1>1, <1>11, <2>1, <2>2, <2>3 DEF FindToken
<1>12. ASSUME NEW c \in Calls, RevokeFamily(c) \/ RevokePresented(c) PROVE BookOK'
  <2>1. /\ call'[c].presented = call[c].presented
        /\ call'[c].stage = "issue" => call[c].stage = "revoke"
        /\ call'[c].stage \in {"refused", "issue"}
        /\ \A d \in Calls \ {c} : call'[d] = call[d]
    BY <1>0, <1>12 DEF RevokeFamily, RevokePresented, Goto, At, Call
  <2>2. Busy' \subseteq Busy
    BY <2>1 DEF Busy
  <2>3. \A d \in Busy' : ~At(d, "find")' => call'[d].presented \in Issued
    BY <1>0, <2>1, <2>2 DEF BookOK, At, Busy
  <2>4. CASE RevokeFamily(c)
    <3>1. Issued' = Issued /\ \A x \in Issued : tokens'[x].login = tokens[x].login
      BY <1>0, <2>4 DEF RevokeFamily, Issued, Active, Token
    <3> QED
      BY <1>1, <2>2, <2>3, <3>1
  <2>5. CASE RevokePresented(c)
    <3>0. call[c].presented \in Issued
      BY <1>0, <2>5 DEF RevokePresented, BookOK, Busy, At
    <3>1. Issued' = Issued /\ \A x \in Issued : tokens'[x].login = tokens[x].login
      BY <1>0, <2>5, <3>0 DEF RevokePresented, Issued, Token
    <3> QED
      BY <1>1, <2>2, <2>3, <3>1
  <2> QED
    BY <1>12, <2>4, <2>5
<1>13. ASSUME NEW c \in Calls, IssueNext(c) PROVE BookOK'
  <2> DEFINE x == call[c].presented
  <2>1. c \in Busy /\ x \in Issued
    BY <1>0, <1>13 DEF BookOK, IssueNext, At, Busy
  <2>2. Fresh \in 1 .. MaxTokens /\ Fresh \notin Issued /\ x \in 1 .. MaxTokens
    BY <1>0, <2>1, FreshRow, Counted
  <2>3. /\ tokens'[Fresh].status = "active" /\ tokens'[Fresh].login = tokens[x].login
        /\ \A y \in 1 .. MaxTokens : y # Fresh =>
              tokens'[y].status = tokens[y].status /\ tokens'[y].login = tokens[y].login
    BY <1>0, <1>13, <2>1, <2>2 DEF IssueNext, Token
  <2>4. Issued' = Issued \cup {Fresh} /\ \A y \in Issued : tokens'[y].login = tokens[y].login
    BY <1>0, <2>2, <2>3 DEF Issued, TypeOK
  <2>5. /\ call'[c].stage = "account" /\ \A d \in Calls \ {c} : call'[d] = call[d]
    BY <1>0, <1>13 DEF IssueNext, Call
  <2>6. Busy' = Busy \ {c}
    BY <2>1, <2>5 DEF Busy
  <2>7. \A d \in Busy' : ~At(d, "find")' => call'[d].presented \in Issued
    BY <1>0, <2>5, <2>6 DEF BookOK, At, Busy
  <2>8. tokens'[Fresh].login \in Issued'
    BY <1>0, <2>1, <2>3, <2>4 DEF BookOK
  <2> QED
    BY <1>0, <2>1, <2>2, <2>4, <2>6, <2>7, <2>8, OneIssued
<1>14. ASSUME NEW c \in Calls, CheckAccount(c) \/ Grant(c) \/ Refuse(c) \/ Fail(c)
       PROVE  BookOK'
  <2>1. /\ call'[c].stage \in {"idle", "granted", "refused"} /\ UNCHANGED tokens
        /\ \A d \in Calls \ {c} : call'[d] = call[d]
    BY <1>0, <1>14 DEF CheckAccount, Grant, Refuse, Fail, Goto, NoCall, Call
  <2>2. Busy' \subseteq Busy /\ Issued' = Issued
    BY <2>1 DEF Busy, Issued
  <2>3. \A d \in Busy' : ~At(d, "find")' => call'[d].presented \in Issued
    BY <1>0, <2>1, <2>2 DEF BookOK, At, Busy
  <2> QED
    BY <1>1, <2>1, <2>2, <2>3
<1> QED
  BY <1>4, <1>5, <1>6, <1>7, <1>8, <1>9, <1>10, <1>11, <1>12, <1>13, <1>14 DEF Next, User, Step

-----------------------------------------------------------------------------
(* The rows, the cookie, the tabs and the refresh calls keep their types:  *)
(* the numbering of RefreshToken rows never runs past its bound, and no    *)
(* rotation starts that has no row left to issue.                          *)
THEOREM SessionsTypeCorrect == Spec => []TypeOK
<1>1. BookInv /\ [Next]_vars => BookInv'
  <2> SUFFICES ASSUME BookInv, [Next]_vars PROVE BookInv'
    OBVIOUS
  <2>1. CASE Next
    BY <2>1, StepTypes, StepBook DEF BookInv
  <2>2. CASE UNCHANGED vars
    BY <2>2 DEF vars, BookInv, TypeOK, BookOK, Issued, Busy, At
  <2> QED
    BY <2>1, <2>2
<1>2. BookInv => TypeOK
  BY DEF BookInv
<1> QED
  BY <1>1, <1>2, InitBook, PTL DEF Spec

-----------------------------------------------------------------------------
(* One tab.  The refresh calls of a browser with one tab, whose user does  *)
(* not leave during a refresh, are one at a time.                          *)

OneTab == \A s, t \in Tabs : s = t

OneCall ==
    /\ \A t \in Tabs : tab[t].valid => tab[t].status = "authenticated"
    /\ hasty = 0 =>
        /\ \A c \in Calls : ~At(c, "idle") => call[c].tab \in Tabs /\ tab[call[c].tab].flight
        /\ \A c, d \in Calls : ~At(c, "idle") /\ ~At(d, "idle") => c = d
        /\ \A t \in Tabs : tab[t].flight => tab[t].status \in {"restoring", "authenticated"}

(* The refresh that revokes found its row active, and between its two      *)
(* writes the session it rotates has no active row.                        *)
NoFork ==
    hasty = 0 =>
        /\ \A x, y \in Active : tokens[x].login = tokens[y].login => x = y
        /\ \A c \in Calls : At(c, "revoke") => call[c].presented \in Active
        /\ \A c \in Calls, y \in Active :
             At(c, "issue") => tokens[y].login # tokens[call[c].presented].login

(* While nothing fails the cookie is the active row or none at all, except *)
(* between the first write of a rotation and its answer.                   *)
CookieKept ==
    Undisturbed =>
        /\ \A c \in Calls : ~At(c, "family")
        /\ (\A c \in Calls : call[c].stage \in {"idle", "find", "refused"}) =>
             cookie \in Active \cup {0}
        /\ \A c \in Calls : At(c, "find") => call[c].presented = cookie
        /\ \A c \in Calls : call[c].stage \in {"account", "granted"} => call[c].next \in Active
        /\ \A t \in Tabs : tab[t].status = "authenticated" /\ ~tab[t].flight => cookie \in Active

(* A tab that waits for no refresh has none on its way.                    *)
LEMMA NoCallLeft ==
    ASSUME OneTab, TypeOK, OneCall, hasty = 0, NEW t \in Tabs, ~tab[t].flight
    PROVE  \A c \in Calls : At(c, "idle")
BY DEF OneTab, OneCall

(* Every step leaves one refresh call at most, with its tab behind it.     *)
LEMMA StepCalls ==
    ASSUME OneTab, BookInv, OneCall, Next
    PROVE  OneCall' /\ (hasty' = 0 => hasty = 0)
<1>0. /\ TypeOK /\ TypeOK' /\ call \in [Calls -> Call] /\ tab \in [Tabs -> Tab]
      /\ hasty \in Nat /\ NoTab \notin Tabs
  BY StepTypes, TabsAssumption DEF BookInv, TypeOK
<1>a. ASSUME UNCHANGED <<call, hasty>>,
             \A t \in Tabs : tab'[t].flight = tab[t].flight
                             /\ (tab[t].flight => tab'[t].status = tab[t].status)
                             /\ (tab'[t].valid => tab'[t].status = "authenticated")
      PROVE  OneCall' /\ (hasty' = 0 => hasty = 0)
  BY <1>a DEF OneCall, At
<1>b. ASSUME UNCHANGED <<tab, hasty>>,
             \A d \in Calls : ~At(d, "idle")' => ~At(d, "idle") /\ call'[d].tab = call[d].tab
      PROVE  OneCall' /\ (hasty' = 0 => hasty = 0)
  BY <1>b DEF OneCall
<1>1. ASSUME NEW t \in Tabs, NEW c \in Calls, Load(t, c)
      PROVE  OneCall' /\ (hasty' = 0 => hasty = 0)
  <2>1. hasty' = 0 => hasty = 0 /\ ~tab[t].flight
    BY <1>0, <1>1 DEF Load, Hasten
  <2>2. /\ tab'[t] = [status |-> "restoring", valid |-> FALSE, flight |-> TRUE, query |-> FALSE]
        /\ \A s \in Tabs : s # t => tab'[s] = tab[s]
    BY <1>0, <1>1 DEF Load
  <2>3. call'[c] = Post(t) /\ \A d \in Calls : d # c => call'[d].stage = call[d].stage
    BY <1>0, <1>1 DEF Load, Call
  <2>4. \A s \in Tabs : tab'[s].valid => tab'[s].status = "authenticated"
    BY <2>2 DEF OneCall
  <2>5. ASSUME hasty' = 0
        PROVE  /\ \A d \in Calls : ~At(d, "idle")' =>
                    d = c /\ call'[d].tab \in Tabs /\ tab'[call'[d].tab].flight
               /\ \A s \in Tabs : tab'[s].flight =>
                    tab'[s].status \in {"restoring", "authenticated"}
    <3>1. \A d \in Calls : At(d, "idle")
      BY <1>0, <2>1, <2>5, NoCallLeft
    <3>2. \A d \in Calls : ~At(d, "idle")' => d = c
      BY <2>3, <3>1 DEF At
    <3> QED
      BY <2>1, <2>2, <2>3, <2>5, <3>2 DEF OneCall, Post
  <2> QED
    BY <2>1, <2>4, <2>5 DEF OneCall
<1>2. ASSUME NEW t \in Tabs, NEW c \in Calls, Query(t, c) \/ Renew(t, c)
      PROVE  OneCall' /\ (hasty' = 0 => hasty = 0)
  <2>1. UNCHANGED hasty /\ tab[t].status = "authenticated"
    BY <1>2 DEF Query, Renew, OneCall
  <2>2. /\ tab'[t].flight /\ tab'[t].status = tab[t].status /\ tab'[t].valid = tab[t].valid
        /\ \A s \in Tabs : s # t => tab'[s] = tab[s]
    <3>1. CASE Query(t, c)
      BY <1>0, <3>1 DEF Query, Tab
    <3>2. CASE Renew(t, c)
      BY <1>0, <3>2 DEF Renew, Tab
    <3> QED
      BY <1>2, <3>1, <3>2
  <2>3. CASE UNCHANGED call /\ tab[t].flight
    BY <2>1, <2>2, <2>3 DEF OneCall, At
  <2>4. CASE call' = [call EXCEPT ![c] = Post(t)] /\ ~tab[t].flight
    <3>1. \A s \in Tabs : tab'[s].valid => tab'[s].status = "authenticated"
      BY <2>2 DEF OneCall
    <3>2. call'[c] = Post(t) /\ \A d \in Calls : d # c => call'[d] = call[d]
      BY <1>0, <2>4
    <3>3. ASSUME hasty = 0 PROVE \A d \in Calls : ~At(d, "idle")' => d = c
      BY <1>0, <2>4, <3>2, <3>3, NoCallLeft DEF At
    <3>4. call'[c].tab = t
      BY <3>2 DEF Post
    <3> QED
      BY <2>1, <2>2, <3>1, <3>3, <3>4 DEF OneCall
  <2> QED
    BY <1>2, <2>3, <2>4 DEF Query, Renew
<1>3. ASSUME NEW t \in Tabs, Login(t)
      PROVE  OneCall' /\ (hasty' = 0 => hasty = 0)
  <2>1. /\ tab'[t].flight = tab[t].flight /\ tab'[t].status = "authenticated"
        /\ \A s \in Tabs : s # t => tab'[s] = tab[s]
    BY <1>0, <1>3 DEF Login, Tab
  <2>2. UNCHANGED <<call, hasty>> /\ tab[t].status = "anonymous"
    BY <1>3 DEF Login
  <2> QED
    BY <2>1, <2>2 DEF OneCall, At
<1>4. ASSUME NEW t \in Tabs, Logout(t)
      PROVE  OneCall' /\ (hasty' = 0 => hasty = 0)
  <2>1. /\ tab'[t].flight = tab[t].flight /\ ~tab'[t].valid
        /\ \A s \in Tabs : s # t => tab'[s] = tab[s]
    BY <1>0, <1>4 DEF Logout, Tab
  <2>2. UNCHANGED call /\ (hasty' = 0 => hasty = 0 /\ ~tab[t].flight)
    BY <1>0, <1>4 DEF Logout, Hasten
  <2> QED
    BY <2>1, <2>2 DEF OneCall, At
<1>5. ASSUME NEW t \in Tabs, ExpireAccess(t)
      PROVE  OneCall' /\ (hasty' = 0 => hasty = 0)
  <2>1. /\ tab'[t].flight = tab[t].flight /\ ~tab'[t].valid /\ tab'[t].status = tab[t].status
        /\ \A s \in Tabs : s # t => tab'[s] = tab[s]
    BY <1>0, <1>5 DEF ExpireAccess, Tab
  <2> QED
    BY <1>5, <1>a, <2>1 DEF ExpireAccess, OneCall
<1>6. ASSUME NEW x \in DOMAIN tokens, ExpireToken(x)
      PROVE  OneCall' /\ (hasty' = 0 => hasty = 0)
  BY <1>6, <1>b DEF ExpireToken, At
<1>7. CASE Suspend
  BY <1>7, <1>b DEF Suspend, At
<1>8. ASSUME NEW c \in Calls, FindToken(c) \/ RevokeFamily(c) \/ RevokePresented(c)
                              \/ IssueNext(c) \/ CheckAccount(c)
      PROVE  OneCall' /\ (hasty' = 0 => hasty = 0)
  <2>1. call'[c].tab = call[c].tab /\ ~At(c, "idle")
    BY <1>0, <1>8
       DEF FindToken, RevokeFamily, RevokePresented, IssueNext, CheckAccount, Goto, At, Call
  <2>2. UNCHANGED <<tab, hasty>> /\ \A d \in Calls : d # c => call'[d] = call[d]
    BY <1>0, <1>8 DEF FindToken, RevokeFamily, RevokePresented, IssueNext, CheckAccount, Goto
  <2> QED
    BY <1>b, <2>1, <2>2 DEF At
<1>9. ASSUME NEW c \in Calls, Grant(c) \/ Refuse(c) \/ Fail(c)
      PROVE  OneCall' /\ (hasty' = 0 => hasty = 0)
  <2> DEFINE t == call[c].tab
  <2>1. /\ UNCHANGED hasty /\ ~At(c, "idle") /\ call'[c].stage = "idle"
        /\ \A d \in Calls : d # c => call'[d] = call[d]
    BY <1>0, <1>9 DEF Grant, Refuse, Fail, At, NoCall
  <2>2. \/ UNCHANGED tab
        \/ /\ t # NoTab
           /\ tab' = [tab EXCEPT ![t] = Restored] \/ tab' = [tab EXCEPT ![t] = NotRestored]
    BY <1>9 DEF Grant, Refuse, Fail
  <2>3. t \in Tabs \cup {NoTab}
    BY <1>0 DEF Call
  <2>4. UNCHANGED tab \/ \A s \in Tabs : tab'[s] \in {Restored, NotRestored, tab[s]}
    BY <1>0, <2>2, <2>3
  <2>5. \A s \in Tabs : tab'[s].valid => tab'[s].status = "authenticated"
    BY <2>4 DEF OneCall, Restored, NotRestored
  <2>6. ASSUME hasty' = 0
        PROVE  /\ \A d \in Calls : At(d, "idle")'
               /\ \A s \in Tabs : tab'[s].flight =>
                     tab'[s].status \in {"restoring", "authenticated"}
    <3>1. \A d \in Calls : At(d, "idle")'
      BY <2>1, <2>6 DEF OneCall, At
    <3>2. \A s \in Tabs : tab'[s].flight => tab'[s] = tab[s]
      BY <2>4 DEF Restored, NotRestored
    <3> QED
      BY <2>1, <2>6, <3>1, <3>2 DEF OneCall
  <2> QED
    BY <2>1, <2>5, <2>6 DEF OneCall
<1> QED
  BY <1>1, <1>2, <1>3, <1>4, <1>5, <1>6, <1>7, <1>8, <1>9 DEF Next, User, Step

(* A step that issues nothing and starts no rotation keeps NoFork; every   *)
(* row it revokes is one no call is about to revoke.                       *)
LEMMA NoForkKept ==
    ASSUME BookInv, NoFork, hasty' = 0 => hasty = 0, Active' \subseteq Active,
           \A x \in Issued : tokens'[x].login = tokens[x].login,
           \A d \in Calls : call'[d].stage \in {"revoke", "issue"} =>
              call'[d].stage = call[d].stage /\ call'[d].presented = call[d].presented,
           hasty' = 0 => \A d \in Calls : At(d, "revoke")' => call'[d].presented \in Active'
    PROVE  NoFork'
<1> SUFFICES ASSUME hasty' = 0
             PROVE  /\ \A x, y \in Active' : tokens'[x].login = tokens'[y].login => x = y
                    /\ \A d \in Calls, y \in Active' :
                         At(d, "issue")' => tokens'[y].login # tokens'[call'[d].presented].login
  BY DEF NoFork
<1>1. Active \subseteq Issued
  BY DEF Active, Issued
<1>2. \A x, y \in Active' : tokens'[x].login = tokens'[y].login => x = y
  BY <1>1 DEF NoFork
<1>3. ASSUME NEW d \in Calls, NEW y \in Active', At(d, "issue")'
      PROVE  tokens'[y].login # tokens'[call'[d].presented].login
  <2>1. At(d, "issue") /\ call'[d].presented = call[d].presented
    BY <1>3 DEF At
  <2>2. call[d].presented \in Issued
    BY <2>1 DEF BookInv, BookOK, Busy, At
  <2> QED
    BY <1>1, <2>1, <2>2 DEF NoFork
<1> QED
  BY <1>2, <1>3

LEMMA StepNoFork ==
    ASSUME OneTab, BookInv, OneCall, NoFork, Next
    PROVE  NoFork'
<1>0. /\ TypeOK /\ TypeOK' /\ call \in [Calls -> Call] /\ tab \in [Tabs -> Tab]
      /\ tokens \in [1 .. MaxTokens -> Token] /\ hasty \in Nat
      /\ OneCall' /\ (hasty' = 0 => hasty = 0) /\ Active \subseteq Issued
  BY StepTypes, StepCalls DEF BookInv, TypeOK, Active, Issued
<1>a. ASSUME UNCHANGED tokens,
             \A d \in Calls : call'[d].stage \in {"revoke", "issue"} =>
               call'[d].stage = call[d].stage /\ call'[d].presented = call[d].presented
      PROVE  NoFork'
  <2>1. Active' = Active
    BY <1>a DEF Active
  <2>2. hasty' = 0 => \A d \in Calls : At(d, "revoke")' => call'[d].presented \in Active'
    BY <1>0, <1>a, <2>1 DEF NoFork, At
  <2> QED
    BY <1>0, <1>a, <2>1, <2>2, NoForkKept
<1>1. ASSUME NEW t \in Tabs, NEW c \in Calls, Load(t, c) PROVE NoFork'
  <2>1. \A d \in Calls : d # c => call'[d].stage = call[d].stage
                                  /\ call'[d].presented = call[d].presented
    BY <1>0, <1>1 DEF Load, Call
  <2>2. call'[c].stage = "find" /\ UNCHANGED tokens
    BY <1>0, <1>1 DEF Load, Post
  <2> QED
    BY <1>a, <2>1, <2>2
<1>2. ASSUME NEW t \in Tabs, NEW c \in Calls, Query(t, c) \/ Renew(t, c) PROVE NoFork'
  <2>1. UNCHANGED tokens /\ (UNCHANGED call \/ call' = [call EXCEPT ![c] = Post(t)])
    BY <1>2 DEF Query, Renew
  <2>2. \A d \in Calls : call'[d] \in {call[d], Post(t)}
    BY <1>0, <2>1
  <2> QED
    BY <1>a, <2>1, <2>2 DEF Post
<1>3. ASSUME NEW t \in Tabs, Login(t) PROVE NoFork'
  <2> SUFFICES ASSUME hasty' = 0 PROVE NoFork'
    BY DEF NoFork
  <2>1. Fresh \in 1 .. MaxTokens /\ Fresh \notin Issued
    BY <1>3, FreshRow DEF Login
  <2>2. /\ tokens'[Fresh].status = "active" /\ tokens'[Fresh].login = Fresh
        /\ \A x \in 1 .. MaxTokens : x # Fresh => tokens'[x] = tokens[x]
    BY <1>0, <1>3, <2>1 DEF Login
  <2>3. Active' = Active \cup {Fresh}
    BY <1>0, <2>1, <2>2 DEF Active, TypeOK
  <2>4. ~tab[t].flight /\ UNCHANGED call
    BY <1>0, <1>3 DEF Login, OneCall
  <2>5. \A d \in Calls : At(d, "idle")' /\ At(d, "idle")
    BY <1>0, <2>4, NoCallLeft DEF At
  <2>6. \A x \in Active : tokens'[x].login = tokens[x].login /\ tokens[x].login # Fresh
    BY <1>0, <2>1, <2>2 DEF BookInv, BookOK, Active
  <2> QED
    BY <1>0, <2>2, <2>3, <2>5, <2>6 DEF NoFork, At
<1>4. ASSUME NEW t \in Tabs, Logout(t) PROVE NoFork'
  <2>1. \A x \in 1 .. MaxTokens : tokens'[x].login = tokens[x].login
          /\ (tokens'[x].status = "active" => tokens[x].status = "active")
    <3>1. CASE UNCHANGED tokens
      BY <3>1
    <3>2. CASE tokens' = [x \in DOMAIN tokens |->
                            IF x = cookie /\ x \in Active
                            THEN [tokens[x] EXCEPT !.status = "revoked"] ELSE tokens[x]]
      BY <1>0, <3>2 DEF Token
    <3> QED
      BY <1>4, <3>1, <3>2 DEF Logout
  <2>2. Active' \subseteq Active
    BY <1>0, <2>1 DEF Active, TypeOK
  <2>3. \A x \in Issued : tokens'[x].login = tokens[x].login
    BY <1>0, <2>1 DEF Issued
  <2>4. UNCHANGED call /\ (hasty' = 0 => ~tab[t].flight)
    BY <1>0, <1>4 DEF Logout, Hasten
  <2>5. hasty' = 0 => \A d \in Calls : At(d, "idle")
    BY <1>0, <2>4, NoCallLeft
  <2> QED
    BY <1>0, <2>2, <2>3, <2>4, <2>5, NoForkKept DEF At
<1>5. ASSUME NEW t \in Tabs, ExpireAccess(t) PROVE NoFork'
  BY <1>5, <1>a DEF ExpireAccess
<1>6. ASSUME NEW x \in DOMAIN tokens, ExpireToken(x) PROVE NoFork'
  <2>1. \A y \in 1 .. MaxTokens : tokens'[y].login = tokens[y].login
                                  /\ tokens'[y].status = tokens[y].status
    BY <1>0, <1>6 DEF ExpireToken, Token
  <2>2. Active' = Active /\ \A y \in Issued : tokens'[y].login = tokens[y].login
    BY <1>0, <2>1 DEF Active, Issued, TypeOK
  <2>3. UNCHANGED <<call, hasty>>
    BY <1>6 DEF ExpireToken
  <2> QED
    BY <1>0, <2>2, <2>3, NoForkKept DEF NoFork, At
<1>7. CASE Suspend
  BY <1>7, <1>a DEF Suspend
<1>8. ASSUME NEW c \in Calls, FindToken(c) PROVE NoFork'
  <2>1. /\ UNCHANGED tokens /\ \A d \in Calls : d # c => call'[d] = call[d]
        /\ call'[c].presented = call[c].presented
        /\ call'[c].stage # "issue"
        /\ call'[c].stage = "revoke" => call[c].presented \in Active
    BY <1>0, <1>8 DEF FindToken, Goto, Call
  <2>2. Active' = Active
    BY <2>1 DEF Active
  <2> QED
    BY <1>0, <2>1, <2>2 DEF NoFork, At
<1>9. ASSUME NEW c \in Calls, RevokeFamily(c) \/ RevokePresented(c) PROVE NoFork'
  <2> SUFFICES ASSUME hasty' = 0 PROVE NoFork'
    BY DEF NoFork
  <2>1. /\ ~At(c, "idle") /\ ~At(c, "issue")
        /\ call'[c].presented = call[c].presented
        /\ \A d \in Calls : d # c => call'[d] = call[d]
    BY <1>0, <1>9 DEF RevokeFamily, RevokePresented, Goto, At, Call
  <2>2. \A d \in Calls : d # c => At(d, "idle")
    BY <1>0, <2>1 DEF OneCall
  <2>3. CASE RevokeFamily(c)
    <3>1. \A x \in 1 .. MaxTokens : tokens'[x].login = tokens[x].login
                                    /\ tokens'[x].status # "active"
      BY <1>0, <2>3 DEF RevokeFamily, Active, Token
    <3>2. Active' = {} /\ \A x \in Issued : tokens'[x].login = tokens[x].login
      BY <1>0, <3>1 DEF Active, Issued, TypeOK
    <3>3. call'[c].stage = "refused"
      BY <1>0, <2>3 DEF RevokeFamily, Goto
    <3> QED
      BY <1>0, <2>1, <2>2, <3>2, <3>3, NoForkKept DEF At
  <2>4. CASE RevokePresented(c)
    <3> DEFINE x == call[c].presented
    <3>1. call'[c].stage = "issue" /\ x \in Active /\ x \in 1 .. MaxTokens
      BY <1>0, <2>4 DEF RevokePresented, NoFork, Goto, At, Active
    <3>2. /\ tokens'[x].status = "revoked"
          /\ \A y \in 1 .. MaxTokens : tokens'[y].login = tokens[y].login
               /\ (y # x => tokens'[y].status = tokens[y].status)
      BY <1>0, <2>4, <3>1 DEF RevokePresented, Token
    <3>3. Active' = Active \ {x}
      BY <1>0, <3>1, <3>2 DEF Active, TypeOK
    <3>4. \A y \in Active' : tokens'[y].login # tokens'[x].login
      BY <1>0, <3>1, <3>2, <3>3 DEF NoFork, Active
    <3>5. \A y, z \in Active' : tokens'[y].login = tokens'[z].login => y = z
      BY <1>0, <3>2, <3>3 DEF NoFork, Active
    <3>6. \A d \in Calls : ~At(d, "revoke")' /\ (At(d, "issue")' => d = c)
      BY <2>1, <2>2, <3>1 DEF At
    <3> QED
      BY <2>1, <3>4, <3>5, <3>6 DEF NoFork
  <2> QED
    BY <1>9, <2>3, <2>4
<1>10. ASSUME NEW c \in Calls, IssueNext(c) PROVE NoFork'
  <2> SUFFICES ASSUME hasty' = 0 PROVE NoFork'
    BY DEF NoFork
  <2> DEFINE x == call[c].presented
  <2>1. c \in Busy /\ x \in Issued /\ At(c, "issue")
    BY <1>10 DEF BookInv, BookOK, IssueNext, At, Busy
  <2>2. Fresh \in 1 .. MaxTokens /\ Fresh \notin Issued /\ x \in 1 .. MaxTokens
    BY <1>0, <2>1, FreshRow, Counted
  <2>3. /\ tokens'[Fresh].status = "active" /\ tokens'[Fresh].login = tokens[x].login
        /\ \A y \in 1 .. MaxTokens : y # Fresh =>
              tokens'[y].status = tokens[y].status /\ tokens'[y].login = tokens[y].login
    BY <1>0, <1>10, <2>1, <2>2 DEF IssueNext, Token
  <2>4. Active' = Active \cup {Fresh}
    BY <1>0, <2>2, <2>3 DEF Active, TypeOK
  <2>5. call'[c].stage = "account" /\ \A d \in Calls : d # c => call'[d] = call[d]
    BY <1>0, <1>10 DEF IssueNext, Call
  <2>6. \A d \in Calls : ~At(d, "revoke")' /\ ~At(d, "issue")'
    BY <1>0, <2>1, <2>5 DEF OneCall, At
  <2>7. \A y \in Active : tokens'[y].login = tokens[y].login /\ tokens[y].login # tokens[x].login
    BY <1>0, <2>1, <2>2, <2>3 DEF NoFork, Active
  <2>8. \A y, z \in Active' : tokens'[y].login = tokens'[z].login => y = z
    BY <1>0, <2>3, <2>4, <2>7 DEF NoFork
  <2> QED
    BY <2>6, <2>8 DEF NoFork
<1>11. ASSUME NEW c \in Calls, CheckAccount(c) \/ Grant(c) \/ Refuse(c) \/ Fail(c)
       PROVE  NoFork'
  <2>1. /\ call'[c].stage \in {"idle", "granted", "refused"} /\ UNCHANGED tokens
        /\ \A d \in Calls : d # c => call'[d] = call[d]
    BY <1>0, <1>11 DEF CheckAccount, Grant, Refuse, Fail, Goto, NoCall, Call
  <2> QED
    BY <1>a, <2>1
<1>12. ASSUME NEW t \in Tabs, \E c \in Calls : Load(t, c) \/ Query(t, c) \/ Renew(t, c)
       PROVE  NoFork'
  BY <1>1, <1>2, <1>12
<1> QED
  BY <1>3, <1>4, <1>5, <1>6, <1>7, <1>8, <1>9, <1>10, <1>11, <1>12 DEF Next, User, Step

-----------------------------------------------------------------------------
(* The cookie, while nothing fails.                                        *)

LEMMA StepCookie ==
    ASSUME OneTab, BookInv, OneCall, CookieKept, Next
    PROVE  CookieKept'
<1>0. /\ TypeOK /\ TypeOK' /\ call \in [Calls -> Call] /\ tab \in [Tabs -> Tab]
      /\ tokens \in [1 .. MaxTokens -> Token] /\ hasty \in Nat /\ failures \in Nat
      /\ OneCall' /\ (hasty' = 0 => hasty = 0) /\ Active \subseteq Issued /\ NoTab \notin Tabs
      /\ \A s, t \in Tabs : s = t
  BY StepTypes, StepCalls, TabsAssumption DEF BookInv, TypeOK, Active, Issued, OneTab
<1>1. ASSUME NEW t \in Tabs, NEW c \in Calls, Load(t, c) PROVE CookieKept'
  <2> SUFFICES ASSUME Undisturbed' PROVE CookieKept'
    BY DEF CookieKept
  <2>1. Undisturbed /\ ~tab[t].flight /\ hasty = 0
    BY <1>0, <1>1 DEF Load, Hasten, Undisturbed
  <2>2. \A d \in Calls : At(d, "idle")
    BY <1>0, <2>1, NoCallLeft
  <2>3. /\ call'[c] = Post(t) /\ \A d \in Calls : d # c => call'[d].stage = "idle"
        /\ tab'[t].status = "restoring" /\ UNCHANGED cookie /\ Active' = Active
    BY <1>0, <1>1, <2>2 DEF Load, Call, At, Active
  <2>4. cookie \in Active \cup {0}
    BY <2>1, <2>2 DEF CookieKept, At
  <2> QED
    BY <1>0, <2>3, <2>4 DEF CookieKept, At, Post
<1>2. ASSUME NEW t \in Tabs, NEW c \in Calls, Query(t, c) \/ Renew(t, c) PROVE CookieKept'
  <2> SUFFICES ASSUME Undisturbed' PROVE CookieKept'
    BY DEF CookieKept
  <2>1. Undisturbed /\ hasty = 0 /\ UNCHANGED cookie /\ Active' = Active
    BY <1>2 DEF Query, Renew, Undisturbed, Active
  <2>2. tab'[t].flight
    <3>1. CASE Query(t, c)
      BY <1>0, <3>1 DEF Query, Tab
    <3>2. CASE Renew(t, c)
      BY <1>0, <3>2 DEF Renew, Tab
    <3> QED
      BY <1>2, <3>1, <3>2
  <2>3. CASE UNCHANGED call
    BY <1>0, <2>1, <2>2, <2>3 DEF CookieKept, At
  <2>4. CASE call' = [call EXCEPT ![c] = Post(t)] /\ ~tab[t].flight
    <3>1. \A d \in Calls : At(d, "idle")
      BY <1>0, <2>1, <2>4, NoCallLeft
    <3>2. call'[c] = Post(t) /\ \A d \in Calls : d # c => call'[d].stage = "idle"
      BY <1>0, <2>4, <3>1 DEF At
    <3>3. cookie \in Active \cup {0}
      BY <2>1, <3>1 DEF CookieKept, At
    <3> QED
      BY <1>0, <2>1, <2>2, <3>2, <3>3 DEF CookieKept, At, Post
  <2> QED
    BY <1>2, <2>3, <2>4 DEF Query, Renew
<1>3. ASSUME NEW t \in Tabs, Login(t) PROVE CookieKept'
  <2> SUFFICES ASSUME Undisturbed' PROVE CookieKept'
    BY DEF CookieKept
  <2>1. Fresh \in 1 .. MaxTokens
    BY <1>3, FreshRow DEF Login
  <2>2. cookie' = Fresh /\ Fresh \in Active'
    BY <1>0, <1>3, <2>1 DEF Login, Active
  <2>3. hasty = 0 /\ ~tab[t].flight /\ UNCHANGED call
    BY <1>0, <1>3 DEF Login, OneCall, Undisturbed
  <2>4. \A d \in Calls : At(d, "idle")'
    BY <1>0, <2>3, NoCallLeft DEF At
  <2> QED
    BY <2>2, <2>4 DEF CookieKept, At
<1>4. ASSUME NEW t \in Tabs, Logout(t) PROVE CookieKept'
  <2> SUFFICES ASSUME Undisturbed' PROVE CookieKept'
    BY DEF CookieKept
  <2>1. hasty = 0 /\ ~tab[t].flight /\ UNCHANGED call /\ cookie' = 0
    BY <1>0, <1>4 DEF Logout, Hasten, Undisturbed
  <2>2. \A d \in Calls : At(d, "idle")'
    BY <1>0, <2>1, NoCallLeft DEF At
  <2>3. tab'[t].status = "anonymous"
    BY <1>0, <1>4 DEF Logout, Tab
  <2> QED
    BY <1>0, <2>1, <2>2, <2>3 DEF CookieKept, At
<1>5. ASSUME NEW t \in Tabs, ExpireAccess(t) PROVE CookieKept'
  <2>1. \A s \in Tabs : tab'[s].flight = tab[s].flight /\ tab'[s].status = tab[s].status
    BY <1>0, <1>5 DEF ExpireAccess, Tab
  <2>2. UNCHANGED <<tokens, cookie, account, call, failures, hasty>>
    BY <1>5 DEF ExpireAccess
  <2> QED
    BY <2>1, <2>2 DEF CookieKept, At, Active, Undisturbed
<1>6. ASSUME NEW x \in DOMAIN tokens, ExpireToken(x) PROVE CookieKept'
  <2>1. \A y \in 1 .. MaxTokens : tokens'[y].status = tokens[y].status
    BY <1>0, <1>6 DEF ExpireToken, Token
  <2>2. Active' = Active
    BY <1>0, <2>1 DEF Active, TypeOK
  <2>3. UNCHANGED <<cookie, account, tab, call, failures, hasty>>
    BY <1>6 DEF ExpireToken
  <2> QED
    BY <2>2, <2>3 DEF CookieKept, At, Undisturbed
<1>7. CASE Suspend
  BY <1>7 DEF Suspend, CookieKept, Undisturbed
<1>8. ASSUME NEW c \in Calls, FindToken(c) PROVE CookieKept'
  <2> SUFFICES ASSUME Undisturbed' PROVE CookieKept'
    BY DEF CookieKept
  <2>1. /\ Undisturbed /\ hasty = 0 /\ At(c, "find")
        /\ UNCHANGED <<cookie, tab>> /\ Active' = Active
        /\ \A d \in Calls : d # c => call'[d] = call[d]
    BY <1>0, <1>8 DEF FindToken, Undisturbed, Active, Goto
  <2>2. \A d \in Calls : d # c => call'[d].stage = "idle"
    BY <2>1 DEF OneCall, At
  <2>3. cookie \in Active \cup {0} /\ call[c].presented = cookie
    BY <2>1, <2>2 DEF CookieKept, At
  <2>4. call[c].presented \in Issued => call[c].presented \in Active
    BY <1>0, <2>3 DEF Issued
  <2>5. call'[c].stage \in {"refused", "revoke"}
    BY <1>0, <1>8, <2>4 DEF FindToken, Goto, Call
  <2> QED
    BY <2>1, <2>2, <2>3, <2>5 DEF CookieKept, At
<1>9. ASSUME NEW c \in Calls, RevokeFamily(c) PROVE CookieKept'
  BY <1>9 DEF RevokeFamily, CookieKept, Undisturbed
<1>10. ASSUME NEW c \in Calls, RevokePresented(c) \/ IssueNext(c) PROVE CookieKept'
  <2> SUFFICES ASSUME Undisturbed' PROVE CookieKept'
    BY DEF CookieKept
  <2>1. /\ hasty = 0 /\ ~At(c, "idle") /\ UNCHANGED tab
        /\ \A d \in Calls : d # c => call'[d] = call[d]
    BY <1>0, <1>10 DEF RevokePresented, IssueNext, Undisturbed, Goto, At
  <2>2. /\ \A d \in Calls : d # c => call'[d].stage = "idle"
        /\ \A t \in Tabs : tab'[t].flight
    BY <1>0, <2>1 DEF OneCall, At
  <2>3. CASE RevokePresented(c)
    <3>1. call'[c].stage = "issue"
      BY <1>0, <2>3 DEF RevokePresented, Goto
    <3> QED
      BY <2>2, <3>1 DEF CookieKept, At
  <2>4. CASE IssueNext(c)
    <3> DEFINE x == call[c].presented
    <3>1. c \in Busy /\ x \in Issued
      BY <2>4 DEF BookInv, BookOK, IssueNext, At, Busy
    <3>2. Fresh \in 1 .. MaxTokens /\ Fresh \notin Issued
      BY <1>0, <3>1, FreshRow
    <3>3. tokens'[Fresh].status = "active"
      BY <1>0, <2>4, <3>1, <3>2 DEF IssueNext, Token
    <3>4. Fresh \in Active'
      BY <1>0, <3>2, <3>3 DEF Active, TypeOK
    <3>5. call'[c].stage = "account" /\ call'[c].next = Fresh
      BY <1>0, <2>4 DEF IssueNext, Call
    <3> QED
      BY <2>2, <3>4, <3>5 DEF CookieKept, At
  <2> QED
    BY <1>10, <2>3, <2>4
<1>11. ASSUME NEW c \in Calls, CheckAccount(c) PROVE CookieKept'
  <2> SUFFICES ASSUME Undisturbed' PROVE CookieKept'
    BY DEF CookieKept
  <2>1. /\ call'[c].stage = "granted" /\ call'[c].next = call[c].next /\ At(c, "account")
        /\ UNCHANGED <<tokens, cookie, tab>> /\ Undisturbed
        /\ \A d \in Calls : d # c => call'[d] = call[d]
    BY <1>0, <1>11 DEF CheckAccount, Undisturbed, Goto, Call
  <2> QED
    BY <2>1 DEF CookieKept, At, Active
<1>12. ASSUME NEW c \in Calls, Grant(c) \/ Refuse(c) PROVE CookieKept'
  <2> SUFFICES ASSUME Undisturbed' PROVE CookieKept'
    BY DEF CookieKept
  <2> DEFINE t == call[c].tab
  <2>1. /\ Undisturbed /\ hasty = 0 /\ Active' = Active /\ ~At(c, "idle")
        /\ call'[c].stage = "idle" /\ \A d \in Calls : d # c => call'[d] = call[d]
    <3>1. /\ UNCHANGED <<tokens, account, hasty, failures>> /\ ~At(c, "idle")
          /\ call' = [call EXCEPT ![c] = NoCall]
      BY <1>12 DEF Grant, Refuse, At
    <3>2. Undisturbed /\ hasty = 0 /\ Active' = Active
      BY <3>1 DEF Undisturbed, Active
    <3> QED
      BY <1>0, <3>1, <3>2 DEF NoCall
  <2>2. /\ \A d \in Calls : d # c => At(d, "idle")
        /\ \A d \in Calls : call'[d].stage = "idle"
        /\ t \in Tabs /\ t # NoTab
    BY <1>0, <2>1 DEF OneCall, At
  <2>3. CASE Grant(c)
    <3>1. cookie' = call[c].next
      BY <2>2, <2>3 DEF Grant
    <3>2. call[c].next \in Active
      BY <2>1, <2>3 DEF CookieKept, Grant, At
    <3> QED
      BY <2>1, <2>2, <3>1, <3>2 DEF CookieKept, At
  <2>4. CASE Refuse(c)
    <3>1. tab' = [tab EXCEPT ![t] = NotRestored] /\ UNCHANGED cookie /\ At(c, "refused")
      BY <2>2, <2>4 DEF Refuse
    <3>2. cookie \in Active \cup {0}
      BY <2>1, <2>2, <3>1 DEF CookieKept, At
    <3>3. \A s \in Tabs : tab'[s] = NotRestored
      BY <1>0, <2>2, <3>1
    <3> QED
      BY <2>1, <2>2, <3>1, <3>2, <3>3 DEF CookieKept, At, NotRestored
  <2> QED
    BY <1>12, <2>3, <2>4
<1>13. ASSUME NEW c \in Calls, Fail(c) PROVE CookieKept'
  BY <1>0, <1>13 DEF Fail, CookieKept, Undisturbed
<1>14. ASSUME NEW t \in Tabs, \E c \in Calls : Load(t, c) \/ Query(t, c) \/ Renew(t, c)
       PROVE  CookieKept'
  BY <1>1, <1>2, <1>14
<1> QED
  BY <1>3, <1>4, <1>5, <1>6, <1>7, <1>8, <1>9, <1>10, <1>11, <1>12, <1>13, <1>14
     DEF Next, User, Step

-----------------------------------------------------------------------------
(* Together.                                                               *)

SessionInv == BookInv /\ OneCall /\ NoFork /\ CookieKept

LEMMA SessionsSafe ==
    ASSUME OneTab
    PROVE  Spec => []SessionInv
<1>1. Init => SessionInv
  <2> SUFFICES ASSUME Init PROVE OneCall /\ NoFork /\ CookieKept
    BY InitBook DEF SessionInv
  <2>1. \A c \in Calls : At(c, "idle")
    BY DEF Init, NoCall, At
  <2>2. \A t \in Tabs : ~tab[t].valid /\ ~tab[t].flight /\ tab[t].status = "closed"
    BY DEF Init
  <2>3. Active = {} /\ cookie = 0
    BY DEF Init, Active
  <2> QED
    BY <2>1, <2>2, <2>3 DEF OneCall, NoFork, CookieKept, At
<1>2. SessionInv /\ [Next]_vars => SessionInv'
  <2> SUFFICES ASSUME SessionInv, [Next]_vars PROVE SessionInv'
    OBVIOUS
  <2>1. CASE Next
    BY <2>1, StepTypes, StepBook, StepCalls, StepNoFork, StepCookie DEF SessionInv, BookInv
  <2>2. CASE UNCHANGED vars
    <3>1. BookInv'
      BY <2>2 DEF vars, SessionInv, BookInv, TypeOK, BookOK, Issued, Busy, At
    <3>2. OneCall' /\ NoFork' /\ CookieKept'
      BY <2>2 DEF vars, SessionInv, OneCall, NoFork, CookieKept, Active, At, Undisturbed
    <3> QED
      BY <3>1, <3>2 DEF SessionInv
  <2> QED
    BY <2>1, <2>2
<1> QED
  BY <1>1, <1>2, PTL DEF Spec

(* Rotation never forks a session: a browser with one tab, whose user      *)
(* leaves it alone while it refreshes, has at most one live token of each  *)
(* sign-in whatever fails or expires, and while nothing fails the cookie   *)
(* of a tab that is signed in is that token.                               *)
THEOREM OneTabOneLiveToken ==
    ASSUME OneTab
    PROVE  Spec => []OneLiveToken
<1>1. SessionInv => OneLiveToken
  BY DEF SessionInv, NoFork, CookieKept, OneLiveToken
<1> QED
  BY <1>1, SessionsSafe, PTL

(* Such a browser, while its answers arrive, never presents a token that   *)
(* was rotated already: rotateRefreshToken does not take it for a thief    *)
(* and revoke the family.                                                  *)
THEOREM OneTabNoSpuriousReuse ==
    ASSUME OneTab
    PROVE  Spec => []NoSpuriousReuse
<1>1. SessionInv => NoSpuriousReuse
  BY DEF SessionInv, CookieKept, NoSpuriousReuse
<1> QED
  BY <1>1, SessionsSafe, PTL

=============================================================================
