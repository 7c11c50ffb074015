----------------------------- MODULE RateLimiter ----------------------------
(***************************************************************************)
(* core/rate_limiter.py: SlidingWindowRateLimiter for one key (the limiter *)
(* keeps an independent list per key), as RateLimitMiddleware uses it.     *)
(*                                                                         *)
(* Time advances in ticks, TicksPerSecond of them a second.  A timestamp t *)
(* is represented by its age now - t, which stops counting at the window:  *)
(* older entries all mean "expired".  The middleware runs on the event     *)
(* loop and check has no await, so a check is one step.                    *)
(***************************************************************************)
EXTENDS Integers, Sequences

CONSTANTS
    MaxRequests,     \* max_requests
    WindowSeconds,   \* window_seconds
    TicksPerSecond   \* resolution of time.time() in this instance

ASSUME LimiterAssumption ==
    /\ MaxRequests \in Nat \ {0}
    /\ WindowSeconds \in Nat \ {0}
    /\ TicksPerSecond \in Nat \ {0}

VARIABLES
    requests,  \* _requests[key], oldest first
    recent     \* history: the requests allowed less than one window ago

limiterVars == <<requests, recent>>
Window == WindowSeconds * TicksPerSecond

LimiterTypeOK ==
    /\ requests \in Seq(0..Window)
    /\ recent \in Seq(0..(Window - 1))

LimiterInit == requests = <<>> /\ recent = <<>>

\* The list n ticks later.
Aged(ages, n) ==
    [i \in DOMAIN ages |-> IF ages[i] + n < Window THEN ages[i] + n ELSE Window]

\* The ages below a limit, in the order of the list.
Younger(ages, limit) ==
    LET kept[i \in 0..Len(ages)] ==
            IF i = 0 THEN <<>>
            ELSE IF ages[i] < limit THEN Append(kept[i - 1], ages[i]) ELSE kept[i - 1]
    IN kept[Len(ages)]

\* Mutant: timestamps leave the window one tick early.
CleanedEarly(ages) == Younger(ages, Window - 1)
\* _cleanup: t > now - window_seconds.
Cleaned(ages) == Younger(ages, Window)

IsFull(ages) == Len(Cleaned(ages)) >= MaxRequests

\* Mutant: the hint is rounded down.
ResetSecondsDown(ages) == (Window - Cleaned(ages)[1]) \div TicksPerSecond
\* int(oldest + window_seconds - now) + 1, sent as Retry-After.
ResetSeconds(ages) == (Window - Cleaned(ages)[1]) \div TicksPerSecond + 1

\* check returns allowed: the timestamp is recorded.
Allow ==
    /\ ~IsFull(requests)
    /\ requests' = Append(Cleaned(requests), 0)
    /\ recent' = Append(recent, 0)

\* check returns not allowed (429): only the clean-up remains.
Reject ==
    /\ IsFull(requests)
    /\ requests' = Cleaned(requests)
    /\ UNCHANGED recent

LimiterTick ==
    /\ requests' = Aged(requests, 1)
    /\ recent' = Aged(Younger(recent, Window - 1), 1)

-----------------------------------------------------------------------------
\* "Fixed window has a burst problem at the boundary ... Sliding window smooths
\* this out": no interval of one window, wherever it starts, has more than
\* max_requests allowed requests.
SlidingLimit == Len(recent) <= MaxRequests

\* A client that is turned away and waits for the Retry-After of its 429 finds
\* room, whatever fraction of a second the truncation dropped, unless others
\* were allowed in the meantime.
RetryAfterSuffices ==
    IsFull(requests) =>
        ~IsFull(Aged(requests, ResetSeconds(requests) * TicksPerSecond))
=============================================================================
