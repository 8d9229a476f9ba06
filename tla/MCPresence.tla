---------------------------- MODULE MCPresence ----------------------------
(* Instances of Presence for TLC.                                          *)
EXTENDS Presence

CONSTANT Steady    \* profiles that keep their socket and never line up

(* The conditions the sweeper relies on without enforcing them: a tick is  *)
(* over before its lock expires, and nobody is on his way back, or is      *)
(* admitted by somebody else's leave, while a tick has him on its list.    *)
TickOver == \A w \in Sweepers : At(w, "idle")
Listed(p) == \E w \in Sweepers : Contains(tick[w].batch, p)
Settled(p) == \A t \in Tabs : socket[<<p, t>>] # "connecting"

Calm ==
    \/ \E p \in Profiles, t \in Tabs :
        \/ ~Listed(p) /\ Connect(p, t)
        \/ p \notin Steady /\ Disconnect(p, t)
        \/ Handlers(p, t)
    \/ \E p \in Profiles :
        \/ Join(p) \/ LeaveAborted(p)
        \/ (queue # <<>> => ~Listed(Head(queue))) /\ Leave(p)
    \/ \E w \in Sweepers :
        \/ (At(w, "read") => \A p \in Profiles : Contains(due, p) => Settled(p)) /\ Sweep(w)
        \/ TakeLock(w) \/ Fail(w)
    \/ GraceEnds \/ (TickOver /\ LockExpires)

CalmFairness == Fairness /\ WF_vars(TickOver /\ LockExpires)

(* Nobody lines up again after an admission or a cancellation.             *)
OnceNext ==
    \/ Calm
    \/ \E p \in Profiles \ Steady :
        (entries[p] \subseteq {"WAITING"} /\ Enqueue(p)) \/ CancelQueue(p)
OnceSpec == Init /\ [][OnceNext]_vars /\ CalmFairness

=============================================================================
