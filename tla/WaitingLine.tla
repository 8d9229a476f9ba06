---------------------------- MODULE WaitingLine ----------------------------
(***************************************************************************)
(* The Redis sorted set cr:room:<id>:queue (redis.service.ts), seen as the *)
(* sequence of its members in score order: ZRANGE 0 0 is the head, ZRANK   *)
(* the position.  A member occurs once.                                    *)
(***************************************************************************)
EXTENDS Naturals, SequencesExt

(* ZREM queue p: a no-op when p is not waiting.                            *)
Without(line, p) ==
    IF Contains(line, p)
    THEN RemoveAt(line, CHOOSE i \in DOMAIN line : line[i] = p)
    ELSE line

(* The positions a ZADD can give a new member.  The score is Date.now() of *)
(* the pod that serves the request, read before the script runs, so with   *)
(* clocks (or requests) out of step by at most skew entries the newcomer   *)
(* may land that many places before the end.                               *)
Places(line, skew) ==
    {i \in 1 .. Len(line) + 1 : Len(line) + 1 <= i + skew}

=============================================================================
