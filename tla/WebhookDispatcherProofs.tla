----------------------- MODULE WebhookDispatcherProofs -----------------------
(***************************************************************************)
(* Proofs about WebhookDispatcher, for any sets of tenants, event types,   *)
(* subscriptions, dispatches and retries and any number of restarts.       *)
(*                                                                         *)
(* The log is written from what a thread remembers: a dispatch from its    *)
(* session, a retry from the attempt count it has read and the outcome of  *)
(* its post.  IInv bounds each of these memories by the posts that were    *)
(* really made, so that it holds when the thread writes it, whatever other *)
(* threads wrote in between.                                               *)
(***************************************************************************)
EXTENDS WebhookDispatcher, TLAPS

\* What a dispatch keeps in its session was posted, and taken if it says so.
SessionInv(x) ==
    session[x] # None => /\ tries[x] >= 1
                         /\ session[x] = "SUCCESS" => taken[x] > 0

\* A row of the log.
LogInv(x) ==
    deliveries[x] # None => /\ deliveries[x].attempts <= tries[x]
                            /\ deliveries[x].status = "SUCCESS" => taken[x] > 0

\* What a retry has read, and what it will write.
RetryInv(r) ==
    /\ pc[r] \in {"post", "write"} => target[r] \in Deliveries /\ deliveries[target[r]] # None
    /\ pc[r] = "post" => seen[r] <= tries[target[r]]
    /\ pc[r] = "write" => /\ seen[r] + 1 <= tries[target[r]]
                          /\ outcome[r] => taken[target[r]] > 0

IInv ==
    /\ TypeOK
    /\ \A x \in Deliveries : SessionInv(x) /\ LogInv(x)
    /\ \A r \in Retries : RetryInv(r)
    /\ AnsweredIsLogged

-----------------------------------------------------------------------------
(* What the operators of the model do *)

\* A post adds one to the tries; what the merchant has taken never shrinks, and a
\* success was taken.
LEMMA PostEffect ==
    ASSUME TypeOK, NEW x \in Deliveries, NEW success \in BOOLEAN, Post(x, success)
    PROVE  /\ tries' \in [Deliveries -> Nat] /\ taken' \in [Deliveries -> Nat]
           /\ tries'[x] = tries[x] + 1
           /\ success => taken'[x] > 0
           /\ \A y \in Deliveries : tries'[y] >= tries[y] /\ taken'[y] >= taken[y]
  BY DEF Post, TypeOK

\* What a dispatch logs is a row with one attempt and the status of the post.
LEMMA LoggedRowType ==
    ASSUME NEW st \in Statuses
    PROVE  /\ LoggedRow(st) \in Row /\ LoggedRow(st) # None
           /\ LoggedRow(st).attempts = 1 /\ LoggedRow(st).status = st
<1>1. LoggedRow(st) \in Row
  BY DEF LoggedRow, Row, Statuses
<1> QED
  BY <1>1, NoneAssumption DEF LoggedRow

\* Facts that hold of a state hold after a step that leaves the log alone and
\* only adds to the posts.
LEMMA MorePosts ==
    ASSUME TypeOK, TypeOK', UNCHANGED deliveries,
           \A x \in Deliveries : tries'[x] >= tries[x] /\ taken'[x] >= taken[x],
           NEW x \in Deliveries
    PROVE  /\ LogInv(x) => LogInv(x)'
           /\ SessionInv(x) /\ session'[x] = session[x] => SessionInv(x)'
<1>1. tries[x] \in Nat /\ taken[x] \in Nat /\ tries'[x] \in Nat /\ taken'[x] \in Nat
  BY DEF TypeOK
<1>2. deliveries[x] # None => deliveries[x].attempts \in Nat
  BY DEF TypeOK, Row
<1> QED
  BY <1>1, <1>2 DEF LogInv, SessionInv

-----------------------------------------------------------------------------
(* Every action preserves IInv *)

\* create_subscription touches only the subscriptions.
LEMMA CreateSubscriptionInv ==
    ASSUME IInv, NEW s \in Subscriptions, NEW tenant \in Tenants,
           NEW types \in SUBSET EventTypes, CreateSubscription(s, tenant, types)
    PROVE  IInv'
<1>1. TypeOK'
  BY DEF IInv, CreateSubscription, TypeOK, Subscription
<1> QED
  BY <1>1 DEF IInv, CreateSubscription, SessionInv, LogInv, RetryInv, AnsweredIsLogged

\* A dispatch arrives.
LEMMA StartDispatchInv ==
    ASSUME IInv, NEW d \in Dispatches, NEW e \in Event, StartDispatch(d, e)
    PROVE  IInv'
<1> USE DEF IInv
<1>1. TypeOK'
  BY DEF StartDispatch, TypeOK, Goto, Subscribers
<1>2. \A x \in Deliveries : SessionInv(x)' /\ LogInv(x)'
  BY DEF StartDispatch, SessionInv, LogInv
<1>3. \A r \in Retries : RetryInv(r)'
  BY WebhookAssumption DEF StartDispatch, Goto, TypeOK, RetryInv
<1>4. AnsweredIsLogged'
  BY DEF StartDispatch, Goto, TypeOK, AnsweredIsLogged
<1> QED
  BY <1>1, <1>2, <1>3, <1>4

\* A post of the dispatch loop.
LEMMA DispatchPostInv ==
    ASSUME IInv, NEW d \in Dispatches, NEW s \in Subscriptions, DispatchPost(d, s)
    PROVE  IInv'
<1> USE DEF IInv
<1> DEFINE y == <<d, s>>
<1>1. y \in Deliveries
  BY DEF Deliveries
<1>2. PICK success \in BOOLEAN :
         Post(y, success) /\ session' = [session EXCEPT ![y] = StatusOf(success)]
  BY DEF DispatchPost
<1>3. /\ tries' \in [Deliveries -> Nat] /\ taken' \in [Deliveries -> Nat]
      /\ tries'[y] = tries[y] + 1
      /\ success => taken'[y] > 0
      /\ \A x \in Deliveries : tries'[x] >= tries[x] /\ taken'[x] >= taken[x]
  BY <1>1, <1>2, PostEffect
<1>4. TypeOK'
  BY <1>2, <1>3 DEF DispatchPost, TypeOK, StatusOf, Statuses
<1>5. \A x \in Deliveries : SessionInv(x)' /\ LogInv(x)'
  <2> SUFFICES ASSUME NEW x \in Deliveries PROVE SessionInv(x)' /\ LogInv(x)'
    OBVIOUS
  <2>1. LogInv(x)' /\ (session'[x] = session[x] => SessionInv(x)')
    BY <1>3, <1>4, MorePosts DEF DispatchPost
  <2>2. CASE x = y
    <3>1. session'[y] = StatusOf(success) /\ tries[y] \in Nat
      BY <1>1, <1>2 DEF TypeOK
    <3>2. SessionInv(y)'
      BY <1>3, <3>1 DEF SessionInv, StatusOf
    <3> QED
      BY <2>1, <2>2, <3>2
  <2>3. CASE x # y
    BY <1>2, <2>1, <2>3 DEF TypeOK
  <2> QED
    BY <2>2, <2>3
<1>6. \A r \in Retries : RetryInv(r)'
  <2> SUFFICES ASSUME NEW r \in Retries PROVE RetryInv(r)'
    OBVIOUS
  <2>1. RetryInv(r) /\ UNCHANGED <<pc, target, seen, outcome, deliveries>>
    BY DEF DispatchPost
  <2>2. seen[r] \in Nat
    BY DEF TypeOK
  <2>3. \A x \in Deliveries : tries[x] \in Nat /\ taken[x] \in Nat
                              /\ tries'[x] \in Nat /\ taken'[x] \in Nat
    BY <1>3 DEF TypeOK
  <2> QED
    BY <1>3, <2>1, <2>2, <2>3 DEF RetryInv
<1>7. AnsweredIsLogged'
  BY DEF DispatchPost, AnsweredIsLogged
<1> QED
  BY <1>4, <1>5, <1>6, <1>7

\* The end of a dispatch: the session is logged, one row for each subscriber.
LEMMA CommitDispatchInv ==
    ASSUME IInv, NEW d \in Dispatches, CommitDispatch(d)
    PROVE  IInv'
<1> USE DEF IInv
<1>1. \A x \in Deliveries : session[x] # None =>
         /\ LoggedRow(session[x]) \in Row /\ LoggedRow(session[x]) # None
         /\ LoggedRow(session[x]).attempts = 1 /\ LoggedRow(session[x]).status = session[x]
  BY LoggedRowType DEF TypeOK
<1>2. \A x \in Deliveries :
         deliveries'[x] = IF x[1] = d /\ session[x] # None THEN LoggedRow(session[x])
                                                           ELSE deliveries[x]
  BY DEF CommitDispatch
<1>3. deliveries' \in [Deliveries -> Row \cup {None}]
  BY <1>1 DEF CommitDispatch, TypeOK
<1>4. TypeOK'
  BY <1>3 DEF CommitDispatch, Goto, TypeOK
<1>5. \A x \in Deliveries : SessionInv(x)' /\ LogInv(x)'
  <2> SUFFICES ASSUME NEW x \in Deliveries PROVE SessionInv(x)' /\ LogInv(x)'
    OBVIOUS
  <2>1. SessionInv(x) /\ LogInv(x) /\ UNCHANGED <<session, tries, taken>>
    BY DEF CommitDispatch
  <2>2. tries[x] \in Nat /\ taken[x] \in Nat
    BY DEF TypeOK
  <2> QED
    BY <1>1, <1>2, <2>1, <2>2 DEF SessionInv, LogInv
<1>6. \A x \in Deliveries : deliveries[x] # None => deliveries'[x] # None
  BY <1>1, <1>2
<1>7. \A r \in Retries : RetryInv(r)'
  BY <1>6, WebhookAssumption DEF CommitDispatch, Goto, TypeOK, RetryInv
<1>8. \A s \in matched[d] : deliveries'[<<d, s>>] # None
  <2> SUFFICES ASSUME NEW s \in matched[d] PROVE deliveries'[<<d, s>>] # None
    OBVIOUS
  <2>1. <<d, s>> \in Deliveries /\ <<d, s>>[1] = d
    BY DEF TypeOK, Deliveries
  <2>2. session[<<d, s>>] # None
    BY DEF CommitDispatch, AllPosted
  <2> QED
    BY <1>1, <1>2, <2>1, <2>2
<1>9. AnsweredIsLogged'
  <2> SUFFICES ASSUME NEW e \in Dispatches, pc'[e] = "done", NEW s \in matched[e]
               PROVE  deliveries'[<<e, s>>] # None
    BY DEF CommitDispatch, AnsweredIsLogged
  <2>1. CASE e = d
    BY <1>8, <2>1
  <2>2. CASE e # d
    <3>1. pc[e] = "done"
      BY <2>2 DEF CommitDispatch, Goto, TypeOK
    <3>2. <<e, s>> \in Deliveries
      BY DEF TypeOK, Deliveries
    <3> QED
      BY <1>6, <3>1, <3>2 DEF AnsweredIsLogged
  <2> QED
    BY <2>1, <2>2
<1> QED
  BY <1>4, <1>5, <1>7, <1>9

\* A retry finds its row, or there is none.
LEMMA StartRetryInv ==
    ASSUME IInv, NEW r \in Retries, NEW x \in Deliveries, StartRetry(r, x)
    PROVE  IInv'
<1> USE DEF IInv
<1>1. deliveries[x] # None => deliveries[x] \in Row /\ deliveries[x].attempts \in Nat
  BY DEF TypeOK, Row
<1>2. seen' \in [Retries -> Nat]
      /\ (deliveries[x] # None => seen'[r] = deliveries[x].attempts)
      /\ \A q \in Retries \ {r} : seen'[q] = seen[q]
  BY <1>1 DEF StartRetry, TypeOK
<1>3. TypeOK'
  BY <1>2 DEF StartRetry, Goto, TypeOK
<1>4. \A y \in Deliveries : SessionInv(y)' /\ LogInv(y)'
  BY DEF StartRetry, SessionInv, LogInv
<1>5. \A q \in Retries : RetryInv(q)'
  <2> SUFFICES ASSUME NEW q \in Retries PROVE RetryInv(q)'
    OBVIOUS
  <2>1. CASE q = r
    BY <1>2, <2>1 DEF StartRetry, Goto, TypeOK, RetryInv, LogInv
  <2>2. CASE q # r
    BY <1>2, <2>2 DEF StartRetry, Goto, TypeOK, RetryInv
  <2> QED
    BY <2>1, <2>2
<1>6. AnsweredIsLogged'
  BY WebhookAssumption DEF StartRetry, Goto, TypeOK, AnsweredIsLogged
<1> QED
  BY <1>3, <1>4, <1>5, <1>6

\* The post of a retry.
LEMMA RetryPostInv ==
    ASSUME IInv, NEW r \in Retries, RetryPost(r)
    PROVE  IInv'
<1> USE DEF IInv
<1>1. target[r] \in Deliveries
  BY DEF RetryPost, RetryInv
<1>2. PICK success \in BOOLEAN :
         Post(target[r], success) /\ outcome' = [outcome EXCEPT ![r] = success]
  BY DEF RetryPost
<1>3. /\ tries' \in [Deliveries -> Nat] /\ taken' \in [Deliveries -> Nat]
      /\ tries'[target[r]] = tries[target[r]] + 1
      /\ success => taken'[target[r]] > 0
      /\ \A x \in Deliveries : tries'[x] >= tries[x] /\ taken'[x] >= taken[x]
  BY <1>1, <1>2, PostEffect
<1>4. TypeOK'
  BY <1>2, <1>3 DEF RetryPost, Goto, TypeOK
<1>5. \A x \in Deliveries : SessionInv(x)' /\ LogInv(x)'
  BY <1>3, <1>4, MorePosts DEF RetryPost
<1>6. \A q \in Retries : RetryInv(q)'
  <2> SUFFICES ASSUME NEW q \in Retries PROVE RetryInv(q)'
    OBVIOUS
  <2>1. RetryInv(q) /\ UNCHANGED <<target, seen, deliveries>> /\ seen[q] \in Nat
    BY DEF RetryPost, TypeOK
  <2>2. \A x \in Deliveries : tries[x] \in Nat /\ taken[x] \in Nat
                              /\ tries'[x] \in Nat /\ taken'[x] \in Nat
    BY <1>3 DEF TypeOK
  <2>3. CASE q = r
    <3>1. pc'[r] = "write" /\ pc[r] = "post" /\ outcome'[r] = success
      BY <1>2 DEF RetryPost, Goto, TypeOK
    <3> QED
      BY <1>1, <1>3, <2>1, <2>2, <2>3, <3>1 DEF RetryInv
  <2>4. CASE q # r
    <3>1. pc'[q] = pc[q] /\ outcome'[q] = outcome[q]
      BY <1>2, <2>4 DEF RetryPost, Goto, TypeOK
    <3> QED
      BY <1>3, <2>1, <2>2, <3>1 DEF RetryInv
  <2> QED
    BY <2>3, <2>4
<1>7. AnsweredIsLogged'
  BY WebhookAssumption DEF RetryPost, Goto, TypeOK, AnsweredIsLogged
<1> QED
  BY <1>4, <1>5, <1>6, <1>7

\* The commit of a retry overwrites status and attempt count with what it
\* remembers, which other retries may have outdated.
LEMMA CommitRetryInv ==
    ASSUME IInv, NEW r \in Retries, CommitRetry(r)
    PROVE  IInv'
<1> USE DEF IInv
<1>1. PICK x \in Deliveries : x = target[r]
  BY DEF CommitRetry, RetryInv
<1> DEFINE status == IF outcome[r] THEN "SUCCESS" ELSE "FAILED"
           new == [deliveries[x] EXCEPT !.status = status, !.attempts = Attempts(r)]
<1>2. deliveries[x] \in Row /\ Attempts(r) \in Nat /\ status \in Statuses
  BY <1>1 DEF CommitRetry, RetryInv, TypeOK, Attempts, Statuses
<1>3. status = "SUCCESS" => outcome[r]
  OBVIOUS
<1>4. deliveries' = [deliveries EXCEPT ![x] = new]
  <2>1. deliveries' = [deliveries EXCEPT ![x].status = status, ![x].attempts = Attempts(r)]
    BY <1>1 DEF CommitRetry
  <2> QED
    BY <2>1 DEF TypeOK
<1> HIDE DEF status
<1>5. new \in Row /\ new.status = status /\ new.attempts = Attempts(r)
  BY <1>2 DEF Row
<1> HIDE DEF new
<1>6. new # None
  BY <1>5, NoneAssumption
<1>7. /\ TypeOK' /\ deliveries'[x] = new
      /\ \A y \in Deliveries \ {x} : deliveries'[y] = deliveries[y]
      /\ \A y \in Deliveries : deliveries[y] # None => deliveries'[y] # None
  <2>1. deliveries \in [Deliveries -> Row \cup {None}]
    BY DEF TypeOK
  <2>2. /\ deliveries' \in [Deliveries -> Row \cup {None}] /\ deliveries'[x] = new
        /\ \A y \in Deliveries \ {x} : deliveries'[y] = deliveries[y]
    BY <1>4, <1>5, <2>1
  <2>3. pc' \in [Dispatches \cup Retries -> {"idle", "post", "write", "done", "dead"}]
    BY DEF CommitRetry, Goto, TypeOK
  <2>4. UNCHANGED <<subs, event, matched, session, target, seen, outcome, tries, taken,
                    restarts>>
    BY DEF CommitRetry
  <2>5. TypeOK'
    BY <2>2, <2>3, <2>4 DEF TypeOK
  <2> QED
    BY <1>6, <2>2, <2>5
<1>8. \A y \in Deliveries : SessionInv(y)' /\ LogInv(y)'
  <2>1. Attempts(r) <= tries[x] /\ (outcome[r] => taken[x] > 0)
    BY <1>1 DEF CommitRetry, RetryInv, Attempts
  <2>2. LogInv(x)'
    BY <1>3, <1>5, <1>7, <2>1 DEF CommitRetry, LogInv
  <2> QED
    BY <1>7, <2>2 DEF CommitRetry, SessionInv, LogInv
<1>9. \A q \in Retries : RetryInv(q)'
  BY <1>7 DEF CommitRetry, Goto, TypeOK, RetryInv
<1>10. AnsweredIsLogged'
  <2>1. \A d \in Dispatches : pc'[d] = pc[d] /\ matched'[d] = matched[d]
    BY WebhookAssumption DEF CommitRetry, Goto, TypeOK
  <2>2. \A d \in Dispatches, s \in Subscriptions : <<d, s>> \in Deliveries
    BY DEF Deliveries
  <2> QED
    BY <1>7, <2>1, <2>2 DEF AnsweredIsLogged, TypeOK
<1> QED
  BY <1>7, <1>8, <1>9, <1>10

\* A restart ends the threads and loses their sessions; the log stays.
LEMMA RestartInv ==
    ASSUME IInv, Restart
    PROVE  IInv'
<1> USE DEF IInv
<1>1. TypeOK'
  BY WebhookAssumption DEF Restart, TypeOK
<1>2. \A x \in Deliveries : SessionInv(x)' /\ LogInv(x)'
  BY DEF Restart, SessionInv, LogInv
<1>3. \A r \in Retries : RetryInv(r)'
  BY DEF Restart, TypeOK, RetryInv
<1>4. AnsweredIsLogged'
  BY DEF Restart, TypeOK, AnsweredIsLogged
<1> QED
  BY <1>1, <1>2, <1>3, <1>4

-----------------------------------------------------------------------------
(* The theorems *)

\* IInv holds initially and is preserved by every step.
THEOREM Invariance == Spec => []IInv
<1>1. Init => IInv
  <2> SUFFICES ASSUME Init PROVE IInv
    OBVIOUS
  <2>1. TypeOK
    BY WebhookAssumption DEF Init, TypeOK
  <2>2. (\A x \in Deliveries : SessionInv(x) /\ LogInv(x)) /\ (\A r \in Retries : RetryInv(r))
    BY DEF Init, SessionInv, LogInv, RetryInv
  <2>3. AnsweredIsLogged
    BY DEF Init, AnsweredIsLogged
  <2> QED
    BY <2>1, <2>2, <2>3 DEF IInv
<1>2. IInv /\ [Next]_vars => IInv'
  <2> SUFFICES ASSUME IInv, [Next]_vars PROVE IInv'
    OBVIOUS
  <2>1. CASE UNCHANGED vars
    BY <2>1 DEF vars, IInv, TypeOK, SessionInv, LogInv, RetryInv, AnsweredIsLogged
  <2> QED
    BY <2>1, CreateSubscriptionInv, StartDispatchInv, DispatchPostInv, CommitDispatchInv,
       StartRetryInv, RetryPostInv, CommitRetryInv, RestartInv
       DEF Next, DispatchStep, RetryStep
<1> QED
  BY <1>1, <1>2, PTL DEF Spec

\* The tables and the threads' state are always well typed.
THEOREM TypeCorrect == Spec => []TypeOK
  BY Invariance, PTL DEF IInv

\* A dispatch that has answered has logged a delivery for each subscriber.
THEOREM AnsweredStaysLogged == Spec => []AnsweredIsLogged
  BY Invariance, PTL DEF IInv

\* The log claims no success that no merchant took and no attempt that was not
\* made, with lost updates between overlapping retries and across restarts.
THEOREM LogIsSound == Spec => []LogNeverOverstates
<1>1. IInv => LogNeverOverstates
  BY DEF IInv, LogInv, LogNeverOverstates
<1> QED
  BY <1>1, Invariance, PTL
=============================================================================
