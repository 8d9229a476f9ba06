----------------------------- MODULE MCAccounts -----------------------------
(***************************************************************************)
(* Two people and two browsers: one has an account and a user name, the    *)
(* other a Google account; two of the names differ by case only, one is    *)
(* reserved.                                                               *)
(***************************************************************************)
EXTENDS Accounts, TLC

CONSTANTS a1, a2, g1, wolf, Wolf, fox, admin, b1, b2

MCAddresses == {a1, a2}
MCGoogles == {g1}
MCGoogleAddress == [g \in {g1} |-> a1]
MCNames == {wolf, Wolf, fox, admin}
MCFold == wolf :> "wolf" @@ Wolf :> "wolf" @@ fox :> "fox" @@ admin :> "admin"
MCReserved == {"admin"}
MCSettled == {<<[email |-> a2, password |-> TRUE, google |-> NoGoogle, verified |-> FALSE,
                active |-> TRUE, name |-> wolf]>>}
MCBrowsers == {b1, b2}

Symmetry == Permutations(MCBrowsers) \cup Permutations(Clicks)

=============================================================================
