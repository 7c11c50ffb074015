---------------------------- MODULE CheckoutSaga ----------------------------
(***************************************************************************)
(* The checkout of an order: the saga orchestrator                         *)
(* (services/orchestrator) driving the payment and the inventory service   *)
(* over HTTP.                                                              *)
(*                                                                         *)
(* Each call of POST /saga/start runs start_saga in a thread of its own    *)
(* and mints a saga id; Sagas are those ids.  pc[s] is the place where     *)
(* the thread of saga s stands between two durable commits or at a remote  *)
(* call; everything else is a column of a database row or a request on     *)
(* the wire.  A request that the orchestrator has given up on (10 s client *)
(* timeout) stays on the wire: the service may still execute it.  The      *)
(* orchestrator never retries a request, so each of them is sent at most   *)
(* once.                                                                   *)
(***************************************************************************)
EXTENDS Integers, Sequences, FiniteSets

CONSTANTS
    Orders,        \* order ids a client may check out
    Sagas,         \* saga ids, one per POST /saga/start
    NoOrder,       \* the order id of a saga that has not started
    Items,         \* item ids of the inventory
    Carts,         \* item lists of requests, as item |-> multiplicity
    InitialStock,  \* stock of each item when the model starts
    Faults,        \* faults of the environment that this instance allows
    AdapterParams  \* keyword parameters of the order adapter's update_status

FaultKinds == {"timeout", "unavailable", "death", "orderdown"}

ASSUME CheckoutAssumption ==
    /\ NoOrder \notin Orders
    /\ Carts \subseteq [Items -> Nat]
    /\ InitialStock \in [Items -> Nat]
    /\ Faults \subseteq FaultKinds

VARIABLES
    \* saga_db
    orderOf,       \* SagaInstance.order_id
    state,         \* SagaInstance.current_state, as committed
    paymentId,     \* SagaInstance.payment_id is set
    reservationId, \* SagaInstance.reservation_id is set
    refundId,      \* SagaInstance.refund_id is set
    eta,           \* where eta_minutes/eta_lower/eta_upper came from
    completed,     \* SagaInstance.completed_at is set
    steps,         \* SagaStepLog.to_state of the saga, oldest first
    \* the orchestrator's threads and the wire
    pc,            \* control point of the thread that runs the saga
    cart,          \* items of the request
    req,           \* the three remote calls of the saga
    \* the databases of the services
    payRow,        \* status of the payment with the saga's authorize key
    refundRow,     \* a row with the saga's refund key exists
    rsvRow,        \* a reservation with the saga's reserve key exists
    stock,         \* InventoryItem.stock
    orderStatus    \* Order.status

sagaDb  == <<orderOf, state, paymentId, reservationId, refundId, eta,
             completed, steps>>
threads == <<pc, cart, req>>
ledgers == <<payRow, refundRow, rsvRow, stock, orderStatus>>
vars    == <<orderOf, state, paymentId, reservationId, refundId, eta,
             completed, steps, pc, cart, req, payRow, refundRow, rsvRow,
             stock, orderStatus>>

-----------------------------------------------------------------------------
SagaState == {"CREATED", "PAYMENT_PENDING", "PAYMENT_OK", "PAYMENT_FAILED",
              "INVENTORY_PENDING", "INVENTORY_OK", "INVENTORY_FAILED",
              "ETA_PENDING", "ETA_OK", "ETA_FAILED", "CONFIRMED",
              "CONFIRMED_DEGRADED", "REFUNDING", "REFUNDED", "CANCELLED",
              "MANUAL_REVIEW"}

Confirmed == {"CONFIRMED", "CONFIRMED_DEGRADED"}
Calls     == {"authorize", "reserve", "refund"}

\* A call that was not made, is on the wire or being served, or was answered:
\* ok (AUTHORIZED, RESERVED, REFUNDED), no (DECLINED, OUT_OF_STOCK) or error
\* (connection refused, 5xx, and 422 for authorize and reserve: the adapters
\* raise and nothing was stored).  refund raises on 5xx only: the body of a 4xx
\* would be taken for a refund by _compensate.  The handler's one 4xx is the 404
\* of a payment without a row, and its requests are well formed: see ServeRefund.
CallState == {"none", "sent", "ok", "no", "error"}

\* Mutant: the status column has no value for a refunded payment.
PayStatusWithoutRefund == {"none", "AUTHORIZED", "DECLINED"}
\* No row, or its status (PaymentStatus.FAILED is never stored).
PayStatus == {"none", "AUTHORIZED", "DECLINED", "REFUNDED"}

\* none: not started; dead: the thread is gone and the saga is not finished.
Running == {"authorize", "payok", "reserve", "invok", "eta", "compensate",
            "refund", "update"}
Point   == Running \cup {"none", "done", "dead"}

TypeOK ==
    /\ orderOf \in [Sagas -> Orders \cup {NoOrder}]
    /\ state \in [Sagas -> SagaState]
    /\ paymentId \in [Sagas -> BOOLEAN]
    /\ reservationId \in [Sagas -> BOOLEAN]
    /\ refundId \in [Sagas -> BOOLEAN]
    /\ eta \in [Sagas -> {"none", "live", "degraded", "fallback"}]
    /\ completed \in [Sagas -> BOOLEAN]
    /\ steps \in [Sagas -> Seq(SagaState)]
    /\ pc \in [Sagas -> Point]
    /\ cart \in [Sagas -> [Items -> Nat]]
    /\ req \in [Sagas -> [Calls -> CallState]]
    /\ payRow \in [Sagas -> PayStatus]
    /\ refundRow \in [Sagas -> BOOLEAN]
    /\ rsvRow \in [Sagas -> BOOLEAN]
    /\ stock \in [Items -> Int]
    /\ orderStatus \in [Orders -> SagaState]

Init ==
    /\ orderOf = [s \in Sagas |-> NoOrder]
    /\ state = [s \in Sagas |-> "CREATED"]
    /\ paymentId = [s \in Sagas |-> FALSE]
    /\ reservationId = [s \in Sagas |-> FALSE]
    /\ refundId = [s \in Sagas |-> FALSE]
    /\ eta = [s \in Sagas |-> "none"]
    /\ completed = [s \in Sagas |-> FALSE]
    /\ steps = [s \in Sagas |-> <<>>]
    /\ pc = [s \in Sagas |-> "none"]
    /\ cart = [s \in Sagas |-> [i \in Items |-> 0]]
    /\ req = [s \in Sagas |-> [c \in Calls |-> "none"]]
    /\ payRow = [s \in Sagas |-> "none"]
    /\ refundRow = [s \in Sagas |-> FALSE]
    /\ rsvRow = [s \in Sagas |-> FALSE]
    /\ stock = InitialStock
    /\ orderStatus = [o \in Orders |-> "CREATED"]

-----------------------------------------------------------------------------
(* Helpers of the orchestrator *)

\* Mutant: states passed through within one commit are not logged.
TransitionLogsLast(s, path) ==
    /\ state' = [state EXCEPT ![s] = path[Len(path)]]
    /\ steps' = [steps EXCEPT ![s] = Append(@, path[Len(path)])]
\* _transition: the new state and one step log row per state passed through.
Transition(s, path) ==
    /\ state' = [state EXCEPT ![s] = path[Len(path)]]
    /\ steps' = [steps EXCEPT ![s] = @ \o path]

\* Mutant: the return after a failed payment is missing.
GotoWithoutReturn(s, point) ==
    pc' = [pc EXCEPT ![s] = IF @ = "authorize" THEN "payok" ELSE point]
Goto(s, point) == pc' = [pc EXCEPT ![s] = point]

\* The thread moves on and leaves a request on the wire.
Send(s, call) == req' = [req EXCEPT ![s][call] = "sent"]

\* Mutant: the body of any answer is taken for success.
AnsweredAtAll(s, call, answer) == req[s][call] \notin {"none", "sent"}
Answered(s, call, answer) == req[s][call] = answer

\* Mutant: only timeouts are caught.
CallRaisesOnTimeout(s, call) == req[s][call] = "sent"

\* The adapter raises: the answer is an error, or none comes within the
\* client timeout, whatever the service did or may still do.
CallRaises(s, call) ==
    \/ Answered(s, call, "error")
    \/ "timeout" \in Faults

\* Mutant: the column is not unique.
OrderIsFreeWithoutIndex(o) == TRUE
\* The unique index on SagaInstance.order_id: the insert of a second saga for
\* an order raises IntegrityError and the request ends with nothing stored.
OrderIsFree(o) == \A t \in Sagas : orderOf[t] # o

-----------------------------------------------------------------------------
(* start_saga *)

\* Any order id is accepted: POST /saga/start does not look the order up.
StartSaga(s, o, items) ==
    /\ pc[s] = "none"
    /\ OrderIsFree(o)
    /\ orderOf' = [orderOf EXCEPT ![s] = o]
    /\ cart' = [cart EXCEPT ![s] = items]
    /\ Transition(s, <<"PAYMENT_PENDING">>)
    /\ Goto(s, "authorize")
    /\ Send(s, "authorize")
    /\ UNCHANGED <<paymentId, reservationId, refundId, eta, completed>>
    /\ UNCHANGED ledgers

\* The call raised or was declined: cancelled at once, nothing is undone and
\* the order service is not told.
PaymentFailed(s) ==
    /\ pc[s] = "authorize"
    /\ CallRaises(s, "authorize") \/ Answered(s, "authorize", "no")
    /\ Transition(s, <<"PAYMENT_FAILED", "CANCELLED">>)
    /\ completed' = [completed EXCEPT ![s] = TRUE]
    /\ Goto(s, "done")
    /\ UNCHANGED <<orderOf, paymentId, reservationId, refundId, eta, cart,
                   req>>
    /\ UNCHANGED ledgers

PaymentAuthorized(s) ==
    /\ pc[s] = "authorize"
    /\ Answered(s, "authorize", "ok")
    /\ paymentId' = [paymentId EXCEPT ![s] = TRUE]
    /\ Transition(s, <<"PAYMENT_OK">>)
    /\ Goto(s, "payok")
    /\ UNCHANGED <<orderOf, reservationId, refundId, eta, completed, cart,
                   req>>
    /\ UNCHANGED ledgers

BeginReserve(s) ==
    /\ pc[s] = "payok"
    /\ Transition(s, <<"INVENTORY_PENDING">>)
    /\ Goto(s, "reserve")
    /\ Send(s, "reserve")
    /\ UNCHANGED <<orderOf, paymentId, reservationId, refundId, eta,
                   completed, cart>>
    /\ UNCHANGED ledgers

\* The call raised or the stock is out.
InventoryFailed(s) ==
    /\ pc[s] = "reserve"
    /\ CallRaises(s, "reserve") \/ Answered(s, "reserve", "no")
    /\ Transition(s, <<"INVENTORY_FAILED">>)
    /\ Goto(s, "compensate")
    /\ UNCHANGED <<orderOf, paymentId, reservationId, refundId, eta,
                   completed, cart, req>>
    /\ UNCHANGED ledgers

InventoryReserved(s) ==
    /\ pc[s] = "reserve"
    /\ Answered(s, "reserve", "ok")
    /\ reservationId' = [reservationId EXCEPT ![s] = TRUE]
    /\ Transition(s, <<"INVENTORY_OK">>)
    /\ Goto(s, "invok")
    /\ UNCHANGED <<orderOf, paymentId, refundId, eta, completed, cart, req>>
    /\ UNCHANGED ledgers

BeginEta(s) ==
    /\ pc[s] = "invok"
    /\ Transition(s, <<"ETA_PENDING">>)
    /\ Goto(s, "eta")
    /\ UNCHANGED <<orderOf, paymentId, reservationId, refundId, eta,
                   completed, cart, req>>
    /\ UNCHANGED ledgers

\* The ETA service answers with a live or a degraded estimate (a 4xx is turned
\* into a degraded one by the adapter), or does not answer (no service, 5xx,
\* timeout).  The prediction changes no state of the ETA service.
EtaOutcome(s, result) ==
    /\ pc[s] = "eta"
    /\ eta' = [eta EXCEPT ![s] = result]
    /\ Transition(s, IF result = "live" THEN <<"CONFIRMED">>
                                        ELSE <<"CONFIRMED_DEGRADED">>)
    /\ completed' = [completed EXCEPT ![s] = TRUE]
    /\ Goto(s, "update")
    /\ UNCHANGED <<orderOf, paymentId, reservationId, refundId, cart, req>>
    /\ UNCHANGED ledgers

-----------------------------------------------------------------------------
(* _compensate: refunds the payment; a reservation is never released *)

\* Reached only with payment_id set (StateInv in CheckoutSagaProofs).
BeginRefund(s) ==
    /\ pc[s] = "compensate"
    /\ paymentId[s]
    /\ Transition(s, <<"REFUNDING">>)
    /\ Goto(s, "refund")
    /\ Send(s, "refund")
    /\ UNCHANGED <<orderOf, paymentId, reservationId, refundId, eta,
                   completed, cart>>
    /\ UNCHANGED ledgers

\* REFUNDED is logged and overwritten by CANCELLED in the same commit.
RefundDone(s) ==
    /\ pc[s] = "refund"
    /\ Answered(s, "refund", "ok")
    /\ refundId' = [refundId EXCEPT ![s] = TRUE]
    /\ Transition(s, <<"REFUNDED", "CANCELLED">>)
    /\ completed' = [completed EXCEPT ![s] = TRUE]
    /\ Goto(s, "update")
    /\ UNCHANGED <<orderOf, paymentId, reservationId, eta, cart, req>>
    /\ UNCHANGED ledgers

RefundFailed(s) ==
    /\ pc[s] = "refund"
    /\ CallRaises(s, "refund")
    /\ Transition(s, <<"MANUAL_REVIEW">>)
    /\ completed' = [completed EXCEPT ![s] = TRUE]
    /\ Goto(s, "done")
    /\ UNCHANGED <<orderOf, paymentId, reservationId, refundId, eta, cart,
                   req>>
    /\ UNCHANGED ledgers

-----------------------------------------------------------------------------
(* The call of the order adapter that ends a saga *)

\* The keywords that start_saga passes to update_status.
ConfirmKeywords == {"order_id", "new_status", "eta_minutes", "eta_lower",
                    "eta_upper", "degraded"}
\* The keywords that _compensate passes to it.
CancelKeywords  == {"order_id", "new_status"}

\* HttpOrderService.update_status, injected by _auto_init in Docker.
HttpOrderParams == {"order_id", "status", "eta_minutes"}
\* The parameters of the order service's handler, update_order_status: an
\* adapter that passes the keywords on.  None exists in the repository, where
\* HttpOrderService never binds; with it the order rows move, so that what
\* start_saga tells the order service can be checked at all.
OrderEndpointParams == {"order_id", "new_status", "eta_minutes", "eta_lower",
                        "eta_upper", "degraded"}

\* Python binds the keywords to parameters or raises TypeError.
KeywordsBind(s) ==
    (IF state[s] \in Confirmed THEN ConfirmKeywords ELSE CancelKeywords)
        \subseteq AdapterParams

\* Mutant: a degraded confirmation is passed on as CONFIRMED.
FinalStatusWithoutDegraded(s) ==
    IF state[s] \in Confirmed THEN "CONFIRMED" ELSE "CANCELLED"
\* The value of new_status: the saga's state, or CANCELLED from _compensate.
FinalStatus(s) == IF state[s] \in Confirmed THEN state[s] ELSE "CANCELLED"

\* Every exception is logged and swallowed: keywords that do not bind, an order
\* service that is down, or one that has no such order.
UpdateOrder(s) ==
    /\ pc[s] = "update"
    /\ \/ /\ KeywordsBind(s)
          /\ orderStatus' = [orderStatus EXCEPT ![orderOf[s]] = FinalStatus(s)]
       \/ /\ ~KeywordsBind(s) \/ "orderdown" \in Faults
          /\ orderStatus' = orderStatus
    /\ Goto(s, "done")
    /\ UNCHANGED sagaDb
    /\ UNCHANGED <<cart, req, payRow, refundRow, rsvRow, stock>>

\* The thread ends at the outer except (a commit raised: rollback, re-raise)
\* or the process is killed.  Nothing resumes the saga: a restarted process
\* does not read unfinished sagas, and the order id is taken.
ThreadDies(s) ==
    /\ "death" \in Faults
    /\ pc[s] \in Running
    /\ Goto(s, "dead")
    /\ UNCHANGED sagaDb
    /\ UNCHANGED <<cart, req>>
    /\ UNCHANGED ledgers

-----------------------------------------------------------------------------
(* The services, as far as the orchestrator's requests reach them *)

\* authorize_payment: the bank's verdict is stored and answered.
ServeAuthorize(s, verdict) ==
    /\ req[s]["authorize"] = "sent"
    /\ payRow' = [payRow EXCEPT ![s] = verdict]
    /\ req' = [req EXCEPT ![s]["authorize"] =
                  IF verdict = "AUTHORIZED" THEN "ok" ELSE "no"]
    /\ UNCHANGED sagaDb
    /\ UNCHANGED <<pc, cart, refundRow, rsvRow, stock, orderStatus>>

\* reserve_stock checks each occurrence of an item before it takes any.
InStock(s) == \A i \in Items : cart[s][i] > 0 => stock[i] > 0

\* One decrement for each occurrence.
Take(s) == [i \in Items |-> stock[i] - cart[s][i]]

ServeReserve(s) ==
    /\ req[s]["reserve"] = "sent"
    /\ IF InStock(s)
         THEN /\ stock' = Take(s)
              /\ rsvRow' = [rsvRow EXCEPT ![s] = TRUE]
              /\ req' = [req EXCEPT ![s]["reserve"] = "ok"]
         ELSE /\ req' = [req EXCEPT ![s]["reserve"] = "no"]
              /\ UNCHANGED <<stock, rsvRow>>
    /\ UNCHANGED sagaDb
    /\ UNCHANGED <<pc, cart, payRow, refundRow, orderStatus>>

\* refund_payment: the original is found by payment_id whatever its status.  A
\* refund is sent for a payment_id that authorize answered, whose row is
\* committed and never deleted (proved as part of WireInv), so the guard on the
\* row cuts the 404 branch off and no reachable request.
ServeRefund(s) ==
    /\ req[s]["refund"] = "sent"
    /\ payRow[s] # "none"
    /\ refundRow' = [refundRow EXCEPT ![s] = TRUE]
    /\ payRow' = [payRow EXCEPT ![s] = "REFUNDED"]
    /\ req' = [req EXCEPT ![s]["refund"] = "ok"]
    /\ UNCHANGED sagaDb
    /\ UNCHANGED <<pc, cart, rsvRow, stock, orderStatus>>

\* The request does not reach the handler, or its transaction rolls back.
Unavailable(s, call) ==
    /\ "unavailable" \in Faults
    /\ req[s][call] = "sent"
    /\ req' = [req EXCEPT ![s][call] = "error"]
    /\ UNCHANGED sagaDb
    /\ UNCHANGED <<pc, cart>>
    /\ UNCHANGED ledgers

-----------------------------------------------------------------------------
SagaStep(s) ==
    \/ PaymentFailed(s)
    \/ PaymentAuthorized(s)
    \/ BeginReserve(s)
    \/ InventoryFailed(s)
    \/ InventoryReserved(s)
    \/ BeginEta(s)
    \/ \E result \in {"live", "degraded", "fallback"} : EtaOutcome(s, result)
    \/ BeginRefund(s)
    \/ RefundDone(s)
    \/ RefundFailed(s)
    \/ UpdateOrder(s)

ServiceStep(s) ==
    \/ \E verdict \in {"AUTHORIZED", "DECLINED"} : ServeAuthorize(s, verdict)
    \/ ServeReserve(s)
    \/ ServeRefund(s)

Next ==
    \E s \in Sagas :
        \/ \E o \in Orders, items \in Carts : StartSaga(s, o, items)
        \/ SagaStep(s)
        \/ ServiceStep(s)
        \/ \E call \in Calls : Unavailable(s, call)
        \/ ThreadDies(s)

Spec == Init /\ [][Next]_vars

\* A thread that is alive is scheduled, and a call it waits for ends: with an
\* answer of the service or by the client timeout.  Starting a saga, dying
\* and answering with an error are never forced.
FairSpec ==
    /\ Spec
    /\ \A s \in Sagas : WF_vars(SagaStep(s)) /\ WF_vars(ServiceStep(s))
-----------------------------------------------------------------------------
(* Safety *)

\* A saga that reports CONFIRMED or CONFIRMED_DEGRADED (the ETA step never
\* cancels) was charged once, was not refunded, and its goods are reserved.
ConfirmedPaidAndHeld ==
    \A s \in Sagas : state[s] \in Confirmed =>
        payRow[s] = "AUTHORIZED" /\ ~refundRow[s] /\ rsvRow[s]

\* However often POST /saga/start is called for an order, and although every
\* saga has idempotency keys of its own, at most one saga of the order ever
\* reaches the payment ledger.
OneChargePerOrder ==
    \A s, t \in Sagas :
        /\ orderOf[s] \in Orders /\ orderOf[s] = orderOf[t]
        /\ payRow[s] # "none" /\ payRow[t] # "none"
        => s = t

\* The compensation is complete on the money side: when a saga that recorded a
\* payment_id ends CANCELLED, the refund is on the ledger (_compensate turns
\* a refund that raises into MANUAL_REVIEW; an answer it does not look at, for
\* the refund of a payment without a row, cannot come: see ServeRefund).
CancelledAfterPaymentIsRefunded ==
    \A s \in Sagas : state[s] = "CANCELLED" /\ paymentId[s] =>
        refundRow[s] /\ payRow[s] = "REFUNDED"

\* Stock is taken only for an order whose payment was authorized, even by a
\* reserve request that outlives its saga.
StockOnlyForPaidOrders ==
    \A s \in Sagas : rsvRow[s] => payRow[s] \in {"AUTHORIZED", "REFUNDED"}

\* Carts without repeated items never drive a stock below zero.
NoOversell ==
    (\A c \in Carts, i \in Items : c[i] <= 1) => \A i \in Items : stock[i] >= 0

\* The edges of the state diagram in the module comment of
\* saga_state_machine.py, and the edge to MANUAL_REVIEW that it leaves out.
DocumentedEdges ==
    {<<"PAYMENT_PENDING", "PAYMENT_OK">>, <<"PAYMENT_OK", "INVENTORY_PENDING">>,
     <<"INVENTORY_PENDING", "INVENTORY_OK">>, <<"INVENTORY_OK", "ETA_PENDING">>,
     <<"ETA_PENDING", "CONFIRMED">>, <<"ETA_PENDING", "CONFIRMED_DEGRADED">>,
     <<"PAYMENT_PENDING", "PAYMENT_FAILED">>, <<"PAYMENT_FAILED", "CANCELLED">>,
     <<"INVENTORY_PENDING", "INVENTORY_FAILED">>,
     <<"INVENTORY_FAILED", "REFUNDING">>, <<"REFUNDING", "REFUNDED">>,
     <<"REFUNDED", "CANCELLED">>, <<"REFUNDING", "MANUAL_REVIEW">>}

\* The step log is a complete audit: it ends in the committed state, follows
\* the documented diagram without gaps, and tells from the ledger's point of
\* view too what happened (a logged refund is on the ledger).
AuditTrail ==
    \A s \in Sagas : pc[s] # "none" =>
        /\ steps[s][1] = "PAYMENT_PENDING"
        /\ steps[s][Len(steps[s])] = state[s]
        /\ \A k \in 1..(Len(steps[s]) - 1) :
               <<steps[s][k], steps[s][k + 1]>> \in DocumentedEdges
        /\ \A k \in 1..Len(steps[s]) : steps[s][k] = "REFUNDED" => refundRow[s]

\* The order row never runs ahead of the saga or disagrees with it: a status
\* other than CREATED is the final state of the saga of that order.
OrderRowNeverAhead ==
    \A o \in Orders : orderStatus[o] # "CREATED" =>
        \E s \in Sagas : /\ orderOf[s] = o /\ completed[s]
                         /\ orderStatus[o] = state[s]

\* HttpOrderService: "Calls Order Service to update status after saga
\* completion": when the thread of a confirmed saga has ended, the order row
\* shows it.
ConfirmedReachesOrderRow ==
    \A s \in Sagas : pc[s] = "done" /\ state[s] \in Confirmed =>
        orderStatus[orderOf[s]] = state[s]

\* What a step may do to the rows of completed sagas: nothing.
RowsStay ==
    \A s \in Sagas : completed[s] =>
        /\ state'[s] = state[s] /\ steps'[s] = steps[s] /\ completed'[s]
        /\ orderOf'[s] = orderOf[s]

\* A saga row with completed_at set is final: no late answer, second start or
\* dying thread ever changes it or its step log.
CompletedIsFinal == [][RowsStay]_vars

-----------------------------------------------------------------------------
(* Liveness *)

\* Every saga that starts is brought to a final state, unless its thread dies:
\* no combination of errors and lost answers leaves it waiting.
SagasFinish ==
    \A s \in Sagas : pc[s] # "none" ~> completed[s] \/ pc[s] = "dead"

-----------------------------------------------------------------------------
(* Refinement *)

VerdictOf(st) ==
    CASE st = "CREATED" -> "unopened"
      [] st \in Confirmed -> "confirmed"
      [] st = "CANCELLED" -> "cancelled"
      [] st = "MANUAL_REVIEW" -> "review"
      [] OTHER -> "open"

ChargeOf(row) ==
    CASE row = "none" -> "none"
      [] row = "AUTHORIZED" -> "charged"
      [] row = "DECLINED" -> "declined"
      [] row = "REFUNDED" -> "refunded"

Outcome == INSTANCE CheckoutOutcome WITH
    verdict <- [s \in Sagas |-> VerdictOf(state[s])],
    charge  <- [s \in Sagas |-> ChargeOf(payRow[s])],
    hold    <- rsvRow

\* The orchestrator, the two services and the unreliable wire between them
\* implement the outcome that CheckoutOutcome promises.
ImplementsOutcome == Outcome!Spec
=============================================================================
