------------------------------ MODULE SeatBook ------------------------------
(***************************************************************************)
(* What a room promises about its seats and its waiting line, whatever the *)
(* requests in flight are doing: docs/ARCHITECTURE.md 2.2 and the header   *)
(* of redis.service.ts.  A seat is given only while one is free, a profile *)
(* lines up only when none is, the order of those already in line never    *)
(* changes, and nobody leaves the line for a reason other than getting a   *)
(* seat or giving up.                                                      *)
(***************************************************************************)
EXTENDS Naturals, FiniteSets, WaitingLine

CONSTANTS Profiles, Capacity, Skew, Seated

VARIABLES seats, line

book == <<seats, line>>

Full == Cardinality(seats) >= Capacity

Open == seats = Seated /\ line = <<>>

(* The newcomer may have been waiting; the direct seat that `enqueue` can  *)
(* hand out does not take the place in line away.                          *)
Sit(p) ==
    /\ p \notin seats
    /\ ~Full
    /\ seats' = seats \cup {p}
    /\ line' \in {line, Without(line, p)}

Stand(p) ==
    /\ p \in seats
    /\ seats' = seats \ {p}
    /\ UNCHANGED line

LineUp(p) ==
    /\ p \notin seats
    /\ Full
    /\ ~Contains(line, p)
    /\ \E i \in Places(line, Skew) : line' = InsertAt(line, i, p)
    /\ UNCHANGED seats

GiveUp(p) ==
    /\ Contains(line, p)
    /\ line' = Without(line, p)
    /\ UNCHANGED seats

Trade == \E p \in Profiles : Sit(p) \/ Stand(p) \/ LineUp(p) \/ GiveUp(p)

Spec == Open /\ [][Trade]_book

=============================================================================
