--------------------------- MODULE CircuitBreaker ---------------------------
(***************************************************************************)
(* core/http.py: CircuitBreaker, shared by the requests of a               *)
(* ResilientHttpClient.  Its methods have no await, so each is one step.   *)
(* last_state_change is represented by the ticks since then, which stop    *)
(* counting once recovery_timeout has passed.                              *)
(***************************************************************************)
EXTENDS Integers

CONSTANTS
    FailureThreshold,  \* failure_threshold
    RecoveryTicks      \* recovery_timeout

ASSUME BreakerAssumption ==
    FailureThreshold \in Nat \ {0} /\ RecoveryTicks \in Nat

VARIABLES state, failureCount, sinceChange

breakerVars == <<state, failureCount, sinceChange>>

BreakerTypeOK ==
    /\ state \in {"CLOSED", "OPEN", "HALF_OPEN"}
    /\ failureCount \in Nat
    /\ sinceChange \in 0..(RecoveryTicks + 1)

BreakerInit == state = "CLOSED" /\ failureCount = 0 /\ sinceChange = 0

Recovered == sinceChange > RecoveryTicks

\* Mutant: the check after _check_state is missing.
MayRequestAlways == TRUE
\* request() goes on: _check_state leaves a state other than OPEN.
MayRequest == state # "OPEN" \/ Recovered

\* _check_state of a request that goes on.
CheckState ==
    /\ IF state = "OPEN"
         THEN state' = "HALF_OPEN" /\ sinceChange' = 0
         ELSE UNCHANGED <<state, sinceChange>>
    /\ UNCHANGED failureCount

\* Mutant: failures before a success still count after it.
RecordSuccessKeepsCount ==
    state' = "CLOSED" /\ sinceChange' = 0 /\ UNCHANGED failureCount
\* Mutant: a success resets the count and not the state.
RecordSuccessKeepsState ==
    sinceChange' = 0 /\ failureCount' = 0 /\ UNCHANGED state
RecordSuccess == state' = "CLOSED" /\ sinceChange' = 0 /\ failureCount' = 0

\* The request failed for good; a failed probe of the half-open breaker reopens it.
RecordFailure ==
    /\ failureCount' = failureCount + 1
    /\ IF (state = "CLOSED" /\ failureCount' >= FailureThreshold) \/ state = "HALF_OPEN"
         THEN state' = "OPEN" /\ sinceChange' = 0
         ELSE UNCHANGED <<state, sinceChange>>

BreakerTick ==
    /\ sinceChange' = IF sinceChange > RecoveryTicks THEN sinceChange ELSE sinceChange + 1
    /\ UNCHANGED <<state, failureCount>>

-----------------------------------------------------------------------------
\* The breaker is closed exactly while fewer requests than failure_threshold
\* have failed since the last success: late successes and late failures of
\* requests that were let through earlier included.
ClosedBelowThreshold == state = "CLOSED" <=> failureCount < FailureThreshold
=============================================================================
