--------------------------- MODULE ResilientClient --------------------------
(***************************************************************************)
(* core/http.py, ResilientHttpClient.request: tasks of one process that    *)
(* call a service behind RateLimitMiddleware, with retries, backoff and a  *)
(* shared circuit breaker.  The retry loop checks the breaker only before  *)
(* its first attempt.  A request whose client gave up is a stray: it still *)
(* reaches the service and counts there.                                   *)
(***************************************************************************)
EXTENDS RateLimiter, CircuitBreaker, FiniteSets

CONSTANTS
    Tasks,       \* asyncio tasks that issue requests, one after the other
    MaxRetries,  \* max_retries
    MaxErrors    \* bound on server errors, lost requests and cancellations

ASSUME ClientAssumption == MaxRetries \in Nat /\ MaxErrors \in Nat

VARIABLES
    pc,       \* where the task stands in request()
    attempt,  \* the loop variable
    stray,    \* requests on the wire that nobody waits for
    errors    \* errors of the environment so far

clientVars == <<pc, attempt>>
vars == <<requests, recent, state, failureCount, sinceChange, pc, attempt, stray, errors>>

TypeOK ==
    /\ LimiterTypeOK
    /\ BreakerTypeOK
    /\ pc \in [Tasks -> {"idle", "sent", "ok", "failed", "backoff"}]
    /\ attempt \in [Tasks -> 0..MaxRetries]
    /\ stray \in 0..MaxErrors
    /\ errors \in 0..MaxErrors

Init ==
    /\ LimiterInit
    /\ BreakerInit
    /\ pc = [t \in Tasks |-> "idle"]
    /\ attempt = [t \in Tasks |-> 0]
    /\ stray = 0
    /\ errors = 0

Goto(t, point) == pc' = [pc EXCEPT ![t] = point]
Fault == errors < MaxErrors /\ errors' = errors + 1

\* A new request that the breaker lets through.  One that it does not let
\* through raises CircuitBreakerOpenException and changes nothing.
Begin(t) ==
    /\ pc[t] = "idle"
    /\ MayRequest
    /\ CheckState
    /\ Goto(t, "sent")
    /\ attempt' = [attempt EXCEPT ![t] = 0]
    /\ UNCHANGED <<limiterVars, stray, errors>>

\* The service allows the request and answers it.
Answer(t) ==
    /\ pc[t] = "sent"
    /\ Allow
    /\ Goto(t, "ok")
    /\ UNCHANGED <<breakerVars, attempt, stray, errors>>

\* The service allows the request and answers with a status of 400 or more.
AnswerError(t) ==
    /\ pc[t] = "sent"
    /\ Fault
    /\ Allow
    /\ Goto(t, "failed")
    /\ UNCHANGED <<breakerVars, attempt, stray>>

\* 429 Too Many Requests: raise_for_status raises like for any other error.
TooManyRequests(t) ==
    /\ pc[t] = "sent"
    /\ Reject
    /\ Goto(t, "failed")
    /\ UNCHANGED <<breakerVars, attempt, stray, errors>>

\* httpx.RequestError: the connection failed, or the client timed out and the
\* request stays on the wire.
RequestError(t) ==
    /\ pc[t] = "sent"
    /\ Fault
    /\ stray' \in {stray, stray + 1}
    /\ Goto(t, "failed")
    /\ UNCHANGED <<limiterVars, breakerVars, attempt>>

StrayArrives ==
    /\ stray > 0
    /\ stray' = stray - 1
    /\ Allow \/ Reject
    /\ UNCHANGED <<breakerVars, clientVars, errors>>

Succeed(t) ==
    /\ pc[t] = "ok"
    /\ RecordSuccess
    /\ Goto(t, "idle")
    /\ UNCHANGED <<limiterVars, attempt, stray, errors>>

\* attempt += 1, and asyncio.sleep unless the attempts are used up.
Backoff(t) ==
    /\ pc[t] = "failed"
    /\ attempt[t] + 1 <= MaxRetries
    /\ attempt' = [attempt EXCEPT ![t] = @ + 1]
    /\ Goto(t, "backoff")
    /\ UNCHANGED <<limiterVars, breakerVars, stray, errors>>

GiveUp(t) ==
    /\ pc[t] = "failed"
    /\ attempt[t] + 1 > MaxRetries
    /\ RecordFailure
    /\ Goto(t, "idle")
    /\ UNCHANGED <<limiterVars, attempt, stray, errors>>

\* The next attempt is sent whatever the breaker says by now.
Resend(t) ==
    /\ pc[t] = "backoff"
    /\ Goto(t, "sent")
    /\ UNCHANGED <<limiterVars, breakerVars, attempt, stray, errors>>

\* The task is cancelled at an await: CancelledError is not caught and nothing
\* is recorded, for a probe of the half-open breaker either.
Cancel(t) ==
    /\ pc[t] \in {"sent", "backoff"}
    /\ Fault
    /\ stray' = IF pc[t] = "sent" THEN stray + 1 ELSE stray
    /\ Goto(t, "idle")
    /\ UNCHANGED <<limiterVars, breakerVars, attempt>>

Tick ==
    /\ LimiterTick
    /\ BreakerTick
    /\ UNCHANGED <<clientVars, stray, errors>>

TaskStep(t) ==
    \/ Begin(t) \/ Answer(t) \/ AnswerError(t) \/ TooManyRequests(t) \/ RequestError(t)
    \/ Succeed(t) \/ Backoff(t) \/ GiveUp(t) \/ Resend(t)

Next ==
    \/ \E t \in Tasks : TaskStep(t) \/ Cancel(t)
    \/ StrayArrives
    \/ Tick

Spec == Init /\ [][Next]_vars

\* Time passes, the event loop runs every task, and tasks keep issuing requests.
FairSpec == Spec /\ WF_vars(Tick) /\ \A t \in Tasks : WF_vars(TaskStep(t))

-----------------------------------------------------------------------------
InFlight == {t \in Tasks : pc[t] # "idle"}

\* While the breaker is open, before recovery_timeout and as long as it stays
\* open after that, the requests in flight only get fewer: what may still hit
\* the service, or close the breaker by a late success, was let through before
\* it opened.
OpenAdmitsNobody ==
    [][state = "OPEN" /\ (Recovered => state' = "OPEN") => InFlight' \subseteq InFlight]_vars

\* "CLOSED -> OPEN -> HALF_OPEN -> CLOSED": once errors have stopped the breaker
\* closes again, although rejections by the rate limiter count as failures,
\* probes can be cancelled and several of them can run at a time.
NeverStuckOpen == []<>(state = "CLOSED")
=============================================================================
