--------------------------- MODULE PaymentService ---------------------------
(***************************************************************************)
(* services/payment: concurrent requests to authorize and to refund, each  *)
(* served by a thread of its own, an in-memory idempotency cache that a    *)
(* restart empties, and a payments table whose idempotency_key column is   *)
(* unique.                                                                 *)
(*                                                                         *)
(* Calls are requests; every request that gets past the cache mints one    *)
(* fresh id (PAY-... or REF-...), so the id minted by call c is c itself.  *)
(* Keys repeat: clients retry.                                             *)
(***************************************************************************)
EXTENDS Integers, FiniteSets

CONSTANTS
    Calls,       \* requests, and the payment ids they mint
    Keys,        \* idempotency keys
    None,        \* no row, no reply, no cache entry
    MaxRestarts  \* bound on restarts of the process

ASSUME PaymentAssumption == None \notin Calls /\ MaxRestarts \in Nat

VARIABLES
    op,        \* what call c asks for, once it has arrived
    pc,        \* where its thread stands
    result,    \* payment_status, a local variable of the handler
    reply,     \* the HTTP answer of call c
    rows,      \* payments table by payment_id
    cache,     \* idem_store
    failRate,  \* FAIL_RATE: zero, some or one
    restarts

vars == <<op, pc, result, reply, rows, cache, failRate, restarts>>

\* The statuses that the handlers store (FAILED is declared and never used).
PaymentStatus == {"AUTHORIZED", "DECLINED", "REFUNDED"}
Ops == [kind : {"authorize"}, key : Keys, over : BOOLEAN]
       \cup [kind : {"refund"}, key : Keys, payment : Calls]
Row == [key : Keys, kind : {"authorize", "refund"}, of : Calls \cup {None},
        status : PaymentStatus]
Response == [id : Calls, status : PaymentStatus]
Reply == [code : {200}, body : Response]
         \cup [code : {404, 500}, body : {None}]

ASSUME NoneAssumption ==
    None \notin Ops \cup PaymentStatus \cup Reply \cup Row \cup Response

Active == {"cache", "decide", "lookup", "commit", "remember"}

TypeOK ==
    /\ op \in [Calls -> Ops \cup {None}]
    /\ pc \in [Calls -> Active \cup {"idle", "done", "dead"}]
    /\ result \in [Calls -> PaymentStatus \cup {None}]
    /\ reply \in [Calls -> Reply \cup {None}]
    /\ rows \in [Calls -> Row \cup {None}]
    /\ cache \in [Keys -> Response \cup {None}]
    /\ failRate \in {"zero", "some", "one"}
    /\ restarts \in 0..MaxRestarts

Init ==
    /\ op = [c \in Calls |-> None]
    /\ pc = [c \in Calls |-> "idle"]
    /\ result = [c \in Calls |-> None]
    /\ reply = [c \in Calls |-> None]
    /\ rows = [c \in Calls |-> None]
    /\ cache = [k \in Keys |-> None]
    /\ failRate = "zero"
    /\ restarts = 0

Goto(c, point) == pc' = [pc EXCEPT ![c] = point]

\* The handler's last step: the thread ends and the client has its answer.
Finish(c, code, body) ==
    /\ reply' = [reply EXCEPT ![c] = [code |-> code, body |-> body]]
    /\ Goto(c, "done")

-----------------------------------------------------------------------------
Arrive(c, request) ==
    /\ pc[c] = "idle"
    /\ op' = [op EXCEPT ![c] = request]
    /\ Goto(c, "cache")
    /\ UNCHANGED <<result, reply, rows, cache, failRate, restarts>>

\* Both handlers begin with the same look into the cache, which authorize and
\* refund share: a hit is answered whatever the request was.
CheckCache(c) ==
    /\ pc[c] = "cache"
    /\ LET hit == cache[op[c].key] IN
         IF hit # None
           THEN Finish(c, 200, hit)
           ELSE /\ Goto(c, IF op[c].kind = "authorize" THEN "decide"
                                                       ELSE "lookup")
                /\ UNCHANGED reply
    /\ UNCHANGED <<op, result, rows, cache, failRate, restarts>>

\* Mutant: the column is not unique.
KeyIsStoredNever(k) == FALSE
\* The unique index on idempotency_key: a commit that repeats a key raises.
KeyIsStored(k) == \E p \in Calls : rows[p] # None /\ rows[p].key = k

\* should_fail: the amount is over the limit, or random.random() < FAIL_RATE.
Verdicts(c) ==
    IF op[c].over \/ failRate = "one" THEN {"DECLINED"}
    ELSE IF failRate = "zero" THEN {"AUTHORIZED"}
    ELSE {"AUTHORIZED", "DECLINED"}

\* After the injected latency: decide, insert, commit.
CommitAuthorize(c) ==
    /\ pc[c] = "decide"
    /\ IF KeyIsStored(op[c].key)
         THEN Finish(c, 500, None) /\ UNCHANGED <<rows, result>>
         ELSE \E v \in Verdicts(c) :
                /\ rows' = [rows EXCEPT ![c] =
                              [key |-> op[c].key, kind |-> "authorize",
                               of |-> None, status |-> v]]
                /\ result' = [result EXCEPT ![c] = v]
                /\ Goto(c, "remember")
                /\ UNCHANGED reply
    /\ UNCHANGED <<op, cache, failRate, restarts>>

\* refund_payment reads the original, whatever its status or kind.
Lookup(c) ==
    /\ pc[c] = "lookup"
    /\ IF rows[op[c].payment] = None
         THEN Finish(c, 404, None)
         ELSE Goto(c, "commit") /\ UNCHANGED reply
    /\ UNCHANGED <<op, result, rows, cache, failRate, restarts>>

\* Mutant: the original payment is not marked.
RefundRowsUnmarked(c) ==
    [rows EXCEPT ![c] = [key |-> op[c].key, kind |-> "refund",
                         of |-> op[c].payment, status |-> "REFUNDED"]]
\* The refund row and the mark on the original, in one transaction.
RefundRows(c) ==
    [rows EXCEPT ![c] = [key |-> op[c].key, kind |-> "refund",
                         of |-> op[c].payment, status |-> "REFUNDED"],
                 ![op[c].payment].status = "REFUNDED"]

CommitRefund(c) ==
    /\ pc[c] = "commit"
    /\ IF KeyIsStored(op[c].key)
         THEN Finish(c, 500, None) /\ UNCHANGED <<rows, result>>
         ELSE /\ rows' = RefundRows(c)
              /\ result' = [result EXCEPT ![c] = "REFUNDED"]
              /\ Goto(c, "remember")
              /\ UNCHANGED reply
    /\ UNCHANGED <<op, cache, failRate, restarts>>

\* Mutant: the replayed response carries the id of the refunded payment.
ResponseOfOriginal(c) ==
    [id |-> IF op[c].kind = "refund" THEN op[c].payment ELSE c,
     status |-> result[c]]
\* The response is built from the handler's local variables.
ResponseOf(c) == [id |-> c, status |-> result[c]]

\* After the commit: build the response, cache it, answer.
Remember(c) ==
    /\ pc[c] = "remember"
    /\ cache' = [cache EXCEPT ![op[c].key] = ResponseOf(c)]
    /\ Finish(c, 200, ResponseOf(c))
    /\ UNCHANGED <<op, result, rows, failRate, restarts>>

\* POST /config/fail-rate, from the chaos console.
SetFailRate(r) ==
    /\ failRate' = r
    /\ UNCHANGED <<op, pc, result, reply, rows, cache, restarts>>

\* The container is killed and restarted: threads, cache and configuration are
\* gone, the table stays.
Restart ==
    /\ restarts < MaxRestarts
    /\ restarts' = restarts + 1
    /\ pc' = [c \in Calls |-> IF pc[c] \in Active THEN "dead" ELSE pc[c]]
    /\ cache' = [k \in Keys |-> None]
    /\ failRate' = "zero"
    /\ UNCHANGED <<op, result, reply, rows>>

CallStep(c) ==
    \/ CheckCache(c)
    \/ CommitAuthorize(c)
    \/ Lookup(c)
    \/ CommitRefund(c)
    \/ Remember(c)

Next ==
    \/ \E c \in Calls : (\E request \in Ops : Arrive(c, request)) \/ CallStep(c)
    \/ \E r \in {"zero", "some", "one"} : SetFailRate(r)
    \/ Restart

Spec == Init /\ [][Next]_vars

-----------------------------------------------------------------------------
\* The idempotency promise: any two requests with one key that are answered
\* 200 are answered with the same payment and the same status, through any
\* interleaving of retries, restarts and chaos settings.
ReplaysAgree ==
    \A c, d \in Calls :
        /\ reply[c] # None /\ reply[d] # None
        /\ op[c].key = op[d].key
        /\ reply[c].code = 200 /\ reply[d].code = 200
        => reply[c].body = reply[d].body

\* What a row may answer for: its own status, or the one it had before a refund.
Explains(p, key, status) ==
    /\ rows[p] # None
    /\ rows[p].key = key
    /\ rows[p].status \in {status, "REFUNDED"}
    /\ status = "REFUNDED" <=> rows[p].kind = "refund"

\* A 200 that a client has seen, and an entry of the cache, are backed by a
\* committed row: the cache is filled after the commit, never before.
AcknowledgedIsStored ==
    /\ \A c \in Calls : reply[c] # None /\ reply[c].code = 200 =>
          Explains(reply[c].body.id, op[c].key, reply[c].body.status)
    /\ \A k \in Keys : cache[k] # None =>
          Explains(cache[k].id, k, cache[k].status)

\* No refund is half done: the payment that a refund row gives back is marked.
RefundMarksOriginal ==
    \A p \in Calls : rows[p] # None /\ rows[p].kind = "refund" =>
        rows[rows[p].of] # None /\ rows[rows[p].of].status = "REFUNDED"
=============================================================================
