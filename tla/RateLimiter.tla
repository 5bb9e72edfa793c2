----------------------------- MODULE RateLimiter -----------------------------
(***************************************************************************)
(* InMemoryRateLimiter (rate_limit.py): a sliding window of the requests   *)
(* accepted under each name.  main.py asks it before the administrator's   *)
(* login, the creation and the use of mailboxes, and registration; a       *)
(* request it refuses is answered at once and not counted.                 *)
(*                                                                         *)
(* A deque is the tail of the list of all times accepted under its name:   *)
(* the events from popped + 1 on.  Times are whole numbers, as only their  *)
(* differences to the window matter.                                       *)
(***************************************************************************)
EXTENDS Integers, Sequences

CONSTANTS
    Names,      \* keys of the limiter: a hash of X-API-Key, or a host
    Limit,      \* max(1, limit)
    Window,     \* max(1, window_seconds)
    MaxTime,    \* bound: end of the clock
    Never

ASSUME LimiterAssumption ==
    /\ Limit \in Nat \ {0}
    /\ Window \in Nat \ {0}
    /\ MaxTime \in Nat
    /\ Never \notin Nat

VARIABLES
    clock,
    accepted,   \* accepted[k]: the times of the requests let through
    popped,     \* popped[k]: how many of them have left the deque again
    refusedAt   \* refusedAt[k]: when the last request was refused

limiterVars == <<accepted, popped, refusedAt>>

LimiterTypeOK ==
    /\ clock \in Nat
    /\ accepted \in [Names -> Seq(Nat)]
    /\ popped \in [Names -> Nat]
    /\ refusedAt \in [Names -> Nat \union {Never}]

LimiterInit ==
    /\ clock = 0
    /\ accepted = [k \in Names |-> <<>>]
    /\ popped = [k \in Names |-> 0]
    /\ refusedAt = [k \in Names |-> Never]

(* Mutant: an event that is exactly one window old still counts.           *)
StaleLater(e) == e + Window < clock

(* An event that has left the window.                                      *)
Stale(e) == e + Window <= clock

(* How many events are gone when the stale ones are taken off the left end *)
(* of the deque.                                                           *)
Trimmed(k) ==
    {n \in popped[k] .. Len(accepted[k]) :
        /\ \A i \in popped[k] + 1 .. n : Stale(accepted[k][i])
        /\ n < Len(accepted[k]) => ~Stale(accepted[k][n + 1])}

(* Mutant: one request too many.                                           *)
FullLater(k, n) == Len(accepted[k]) - n > Limit

Full(k, n) == Len(accepted[k]) - n >= Limit

Passes(k) ==
    \E n \in Trimmed(k) :
        /\ ~Full(k, n)
        /\ popped' = [popped EXCEPT ![k] = n]
        /\ accepted' = [accepted EXCEPT ![k] = Append(@, clock)]
        /\ UNCHANGED <<clock, refusedAt>>

Refused(k) ==
    \E n \in Trimmed(k) :
        /\ Full(k, n)
        /\ popped' = [popped EXCEPT ![k] = n]
        /\ refusedAt' = [refusedAt EXCEPT ![k] = clock]
        /\ UNCHANGED <<clock, accepted>>

Tick ==
    /\ clock < MaxTime
    /\ clock' = clock + 1
    /\ UNCHANGED limiterVars

-----------------------------------------------------------------------------
(* No window of time, wherever it begins, has more than Limit accepted     *)
(* requests, although stale events are only taken off when the next        *)
(* request comes (check, rate_limit.py).                                   *)
WindowKept ==
    \A k \in Names : \A i \in DOMAIN accepted[k] :
        i + Limit \in DOMAIN accepted[k] =>
            accepted[k][i] + Window <= accepted[k][i + Limit]

(* Nobody is refused too early: Limit requests were accepted less than one *)
(* window before the one that was refused.                                 *)
RefusedRightly ==
    \A k \in Names : refusedAt[k] # Never =>
        \E n \in 0 .. Len(accepted[k]) - Limit :
            \A i \in n + 1 .. n + Limit :
                /\ accepted[k][i] <= refusedAt[k]
                /\ refusedAt[k] < accepted[k][i] + Window

==============================================================================
