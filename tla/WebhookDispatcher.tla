-------------------------- MODULE WebhookDispatcher --------------------------
(***************************************************************************)
(* services/webhook: merchants register endpoints; dispatch_event posts an *)
(* event to every endpoint of the tenant that subscribes to its type, one  *)
(* after the other, and logs all posts in one transaction at the end;      *)
(* retry_delivery posts a logged delivery again.                           *)
(*                                                                         *)
(* Each request runs in a thread with its own database session.  A post    *)
(* may be answered, refused, or time out after the merchant has taken it.  *)
(* Payload, secret, signature and timing are left out.  The delivery that  *)
(* dispatch d logs for subscription s is <<d, s>>.                         *)
(***************************************************************************)
EXTENDS Integers, FiniteSets

CONSTANTS
    Tenants,        \* merchants
    EventTypes,     \* event types
    Subscriptions,  \* ids of webhook_subscriptions rows
    Dispatches,     \* POST /webhooks/dispatch requests
    Retries,        \* POST /webhooks/deliveries/{id}/retry requests
    None,           \* no row, no request
    MaxRestarts     \* bound on restarts of the process

ASSUME WebhookAssumption ==
    /\ None \notin (Subscriptions \cup Dispatches \cup Retries)
    /\ Dispatches \cap Retries = {}
    /\ MaxRestarts \in Nat

VARIABLES
    subs,        \* webhook_subscriptions: tenant and event types
    event,       \* the event that a dispatch carries
    matched,     \* the subscriptions its query and filter selected
    session,     \* delivery statuses a dispatch has added, not yet committed
    deliveries,  \* webhook_deliveries: status, attempt_count, next_retry_at set
    pc,          \* where the thread of a dispatch or of a retry stands
    target,      \* the delivery that a retry is about
    seen,        \* the attempt_count that a retry has read
    outcome,     \* whether the post of a retry succeeded
    tries,       \* history: posts made, by delivery
    taken,       \* history: posts that the merchant has taken, by delivery
    restarts

vars == <<subs, event, matched, session, deliveries, pc, target, seen, outcome,
          tries, taken, restarts>>

Deliveries == Dispatches \X Subscriptions
Subscription == [tenant : Tenants, types : SUBSET EventTypes]
Event == [tenant : Tenants, type : EventTypes]

\* The statuses that are written; "PENDING", the column's default, never is.
Statuses == {"SUCCESS", "RETRYING", "FAILED"}
Row == [status : Statuses, attempts : Nat, scheduled : BOOLEAN]

ASSUME NoneAssumption == None \notin Statuses \cup Row

TypeOK ==
    /\ subs \in [Subscriptions -> Subscription \cup {None}]
    /\ event \in [Dispatches -> Event \cup {None}]
    /\ matched \in [Dispatches -> SUBSET Subscriptions]
    /\ session \in [Deliveries -> Statuses \cup {None}]
    /\ deliveries \in [Deliveries -> Row \cup {None}]
    /\ pc \in [Dispatches \cup Retries -> {"idle", "post", "write", "done", "dead"}]
    /\ target \in [Retries -> Deliveries \cup {None}]
    /\ seen \in [Retries -> Nat]
    /\ outcome \in [Retries -> BOOLEAN]
    /\ tries \in [Deliveries -> Nat] /\ taken \in [Deliveries -> Nat]
    /\ restarts \in 0..MaxRestarts

Init ==
    /\ subs = [s \in Subscriptions |-> None]
    /\ event = [d \in Dispatches |-> None]
    /\ matched = [d \in Dispatches |-> {}]
    /\ session = [x \in Deliveries |-> None]
    /\ deliveries = [x \in Deliveries |-> None]
    /\ pc = [c \in Dispatches \cup Retries |-> "idle"]
    /\ target = [r \in Retries |-> None]
    /\ seen = [r \in Retries |-> 0]
    /\ outcome = [r \in Retries |-> FALSE]
    /\ tries = [x \in Deliveries |-> 0]
    /\ taken = [x \in Deliveries |-> 0]
    /\ restarts = 0

Goto(c, point) == pc' = [pc EXCEPT ![c] = point]

-----------------------------------------------------------------------------
\* create_subscription: is_active is 1 and nothing ever clears it.
CreateSubscription(s, tenant, types) ==
    /\ subs[s] = None
    /\ subs' = [subs EXCEPT ![s] = [tenant |-> tenant, types |-> types]]
    /\ UNCHANGED <<event, matched, session, deliveries, pc, target, seen, outcome,
                   tries, taken, restarts>>

\* The query for the tenant's subscriptions and the filter on the event type.
Subscribers(e) ==
    {s \in Subscriptions :
        subs[s] # None /\ subs[s].tenant = e.tenant /\ e.type \in subs[s].types}

\* dispatch_event arrives and selects its subscribers.
StartDispatch(d, e) ==
    /\ pc[d] = "idle"
    /\ event' = [event EXCEPT ![d] = e]
    /\ matched' = [matched EXCEPT ![d] = Subscribers(e)]
    /\ Goto(d, "post")
    /\ UNCHANGED <<subs, session, deliveries, target, seen, outcome, tries, taken,
                   restarts>>

\* _deliver_webhook: the post succeeds; it fails before the merchant takes it;
\* or the merchant takes it and answers with an error or too late.
Post(x, success) ==
    /\ tries' = [tries EXCEPT ![x] = @ + 1]
    /\ \/ taken' = [taken EXCEPT ![x] = @ + 1]
       \/ ~success /\ UNCHANGED taken

\* Mutant: a failed post counts as delivered.
StatusOfAlways(success) == "SUCCESS"
\* The status that a dispatch logs.
StatusOf(success) == IF success THEN "SUCCESS" ELSE "RETRYING"

\* The loop of dispatch_event posts to the next subscriber and adds its row to
\* the session.
DispatchPost(d, s) ==
    /\ pc[d] = "post"
    /\ s \in matched[d] /\ session[<<d, s>>] = None
    /\ \E success \in BOOLEAN :
          /\ Post(<<d, s>>, success)
          /\ session' = [session EXCEPT ![<<d, s>>] = StatusOf(success)]
    /\ UNCHANGED <<subs, event, matched, deliveries, pc, target, seen, outcome,
                   restarts>>

\* Mutant: the loop ends with its first post.
AllPostedOnce(d) == matched[d] = {} \/ \E s \in matched[d] : session[<<d, s>>] # None
\* Mutant: the dispatch answers only when every post has succeeded.
AllSucceeded(d) == \A s \in matched[d] : session[<<d, s>>] = "SUCCESS"
AllPosted(d) == \A s \in matched[d] : session[<<d, s>>] # None

\* The row that is logged for a status: a failure schedules the next attempt.
LoggedRow(st) == [status |-> st, attempts |-> 1, scheduled |-> st = "RETRYING"]

\* The end of the session: all rows of the dispatch are committed.
CommitDispatch(d) ==
    /\ pc[d] = "post" /\ AllPosted(d)
    /\ deliveries' =
          [x \in Deliveries |->
              IF x[1] = d /\ session[x] # None THEN LoggedRow(session[x])
                                               ELSE deliveries[x]]
    /\ Goto(d, "done")
    /\ UNCHANGED <<subs, event, matched, session, target, seen, outcome, tries, taken,
                   restarts>>

-----------------------------------------------------------------------------
\* retry_delivery finds the row and its subscription, or answers 404.  It does
\* not look at the status.
StartRetry(r, x) ==
    /\ pc[r] = "idle"
    /\ target' = [target EXCEPT ![r] = x]
    /\ IF deliveries[x] = None
         THEN Goto(r, "done") /\ UNCHANGED seen
         ELSE /\ seen' = [seen EXCEPT ![r] = deliveries[x].attempts]
              /\ Goto(r, "post")
    /\ UNCHANGED <<subs, event, matched, session, deliveries, outcome, tries, taken,
                   restarts>>

RetryPost(r) ==
    /\ pc[r] = "post"
    /\ \E success \in BOOLEAN :
          /\ Post(target[r], success)
          /\ outcome' = [outcome EXCEPT ![r] = success]
    /\ Goto(r, "write")
    /\ UNCHANGED <<subs, event, matched, session, deliveries, target, seen, restarts>>

\* attempt_count += 1 writes the value read plus one.
Attempts(r) == seen[r] + 1

\* The commit of the retry; next_retry_at keeps its value.
CommitRetry(r) ==
    /\ pc[r] = "write"
    /\ deliveries' =
          [deliveries EXCEPT
              ![target[r]].status = IF outcome[r] THEN "SUCCESS" ELSE "FAILED",
              ![target[r]].attempts = Attempts(r)]
    /\ Goto(r, "done")
    /\ UNCHANGED <<subs, event, matched, session, target, seen, outcome, tries, taken,
                   restarts>>

\* The container is killed and restarted: threads and their sessions are gone.
Restart ==
    /\ restarts < MaxRestarts
    /\ restarts' = restarts + 1
    /\ pc' = [c \in DOMAIN pc |-> IF pc[c] \in {"post", "write"} THEN "dead" ELSE pc[c]]
    /\ UNCHANGED <<subs, event, matched, session, deliveries, target, seen, outcome,
                   tries, taken>>

DispatchStep(d) == (\E s \in Subscriptions : DispatchPost(d, s)) \/ CommitDispatch(d)
RetryStep(r) == RetryPost(r) \/ CommitRetry(r)

Next ==
    \/ \E s \in Subscriptions, tenant \in Tenants, types \in SUBSET EventTypes :
          CreateSubscription(s, tenant, types)
    \/ \E d \in Dispatches : (\E e \in Event : StartDispatch(d, e)) \/ DispatchStep(d)
    \/ \E r \in Retries : (\E x \in Deliveries : StartRetry(r, x)) \/ RetryStep(r)
    \/ Restart

Spec == Init /\ [][Next]_vars

\* Threads are scheduled, and every post ends.  The 10 s that httpx is given
\* bound each connect, read and write, not the whole post: that an endpoint does
\* not trickle its answer for ever is an assumption about merchants.
FairSpec ==
    /\ Spec
    /\ \A d \in Dispatches : WF_vars(DispatchStep(d))
    /\ \A r \in Retries : WF_vars(RetryStep(r))

-----------------------------------------------------------------------------

\* A dispatch that has answered has logged a delivery for each of its
\* subscribers: one that fails does not stop the others.
AnsweredIsLogged ==
    \A d \in Dispatches : pc[d] = "done" =>
        \A s \in matched[d] : deliveries[<<d, s>>] # None

\* The log claims no success that the merchant did not take, and no attempt that
\* was not made, whatever retries overlap and whenever the process dies.
LogNeverOverstates ==
    \A x \in Deliveries : deliveries[x] # None =>
        /\ deliveries[x].attempts <= tries[x]
        /\ deliveries[x].status = "SUCCESS" => taken[x] > 0

\* Every dispatch and every retry ends.
RequestsEnd ==
    \A c \in Dispatches \cup Retries : pc[c] = "post" ~> pc[c] \in {"done", "dead"}
=============================================================================
