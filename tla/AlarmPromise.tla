---------------------------- MODULE AlarmPromise ----------------------------
(***************************************************************************)
(* What the alarm notifier promises of its alerts, without its goroutines, *)
(* its calls or its queue: a threshold found exceeded starts a timer, the  *)
(* timer is dropped when the threshold is found calm (or is forgotten), an *)
(* alert is recorded only from a timer that is old enough, and recording   *)
(* it uses the timer up.                                                   *)
(***************************************************************************)
EXTENDS Integers, Sequences

CONSTANTS
    Keys,      \* thresholds
    MinAge,    \* [threshold -> how old its timer must be]
    MaxTime,   \* bound on the clock
    None       \* no timer

VARIABLES now, since, log

vars == <<now, since, log>>

Init ==
    /\ now = 0
    /\ since = [k \in Keys |-> None]
    /\ log = <<>>

Tick ==
    /\ now < MaxTime
    /\ now' = now + 1
    /\ UNCHANGED <<since, log>>

Exceed(k) ==
    /\ since[k] = None
    /\ since' = [since EXCEPT ![k] = now]
    /\ UNCHANGED <<now, log>>

Calm(K) ==
    /\ since' = [k \in Keys |-> IF k \in K THEN None ELSE since[k]]
    /\ UNCHANGED <<now, log>>

\* The alert may be recorded some time after its timer was found old enough.
Record(k, t) ==
    /\ since[k] # None
    /\ t <= now
    /\ t - since[k] >= MinAge[k]
    /\ log' = Append(log, [key |-> k, time |-> t])
    /\ since' = [since EXCEPT ![k] = None]
    /\ UNCHANGED now

Next ==
    \/ Tick
    \/ \E k \in Keys : Exceed(k)
    \/ \E K \in SUBSET Keys : Calm(K)
    \/ \E k \in Keys, t \in 0 .. now : Record(k, t)

Spec == Init /\ [][Next]_vars

-----------------------------------------------------------------------------
\* Types: a timer holds the time it was started, if it runs.
TypeOK ==
    /\ now \in Nat
    /\ since \in [Keys -> {None} \cup Nat]
    /\ log \in Seq([key : Keys, time : Nat])

\* Two alerts of one threshold are at least its duration apart.
RateLimited ==
    \A i, j \in 1 .. Len(log) :
        (i < j /\ log[i].key = log[j].key)
            => log[j].time - log[i].time >= MinAge[log[i].key]

\* A running timer is not older than the last alert of its threshold.
TimersFollowAlerts ==
    \A i \in 1 .. Len(log) :
        /\ log[i].time <= now
        /\ since[log[i].key] # None => log[i].time <= since[log[i].key]

\* No timer was started in the future.
TimersStarted == \A k \in Keys : since[k] # None => since[k] <= now

\* The four together are inductive: RateLimited alone is not, because nothing in
\* it keeps a timer from being older than the last alert.
PromiseInv == TypeOK /\ RateLimited /\ TimersFollowAlerts /\ TimersStarted
=============================================================================
