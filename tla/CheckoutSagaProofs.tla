------------------------- MODULE CheckoutSagaProofs -------------------------
(***************************************************************************)
(* Proofs about CheckoutSaga, for any sets of orders, sagas, items and     *)
(* carts, any initial stock, any combination of faults and either order    *)
(* adapter.                                                                *)
(*                                                                         *)
(* The safety properties are not inductive: they speak of ledgers and      *)
(* final states, and a late request connects the two.  SagaInv closes the  *)
(* gap.  It ties each answer on the wire to the ledger row behind it       *)
(* (WireInv), each committed state to the requests that must have been     *)
(* answered before it (StateInv), and the control point of the thread to   *)
(* the committed state (PcInv).                                            *)
(***************************************************************************)
EXTENDS CheckoutSaga, SequenceTheorems, TLAPS

Final == Confirmed \cup {"CANCELLED", "MANUAL_REVIEW"}

\* A request and the row it leaves.
WireInv(s) ==
    /\ req[s]["authorize"] \in {"none", "sent", "error"} => payRow[s] = "none"
    /\ req[s]["authorize"] = "no" => payRow[s] = "DECLINED"
    /\ req[s]["authorize"] = "ok" =>
          payRow[s] = IF refundRow[s] THEN "REFUNDED" ELSE "AUTHORIZED"
    /\ rsvRow[s] <=> req[s]["reserve"] = "ok"
    /\ refundRow[s] <=> req[s]["refund"] = "ok"
    /\ req[s]["reserve"] # "none" => paymentId[s]
    /\ req[s]["refund"] # "none" => paymentId[s]
    /\ paymentId[s] => req[s]["authorize"] = "ok"

\* A committed state and the requests behind it.
StateInv(s) ==
    /\ state[s] \in {"CREATED", "PAYMENT_PENDING"} => ~paymentId[s]
    /\ state[s] \in {"PAYMENT_OK", "INVENTORY_PENDING", "INVENTORY_OK",
                     "INVENTORY_FAILED", "ETA_PENDING", "REFUNDING",
                     "MANUAL_REVIEW"} \cup Confirmed => paymentId[s]
    /\ state[s] \in {"CREATED", "PAYMENT_PENDING", "PAYMENT_OK"} =>
          req[s]["reserve"] = "none"
    /\ state[s] \in {"INVENTORY_OK", "ETA_PENDING"} \cup Confirmed =>
          req[s]["reserve"] = "ok"
    /\ state[s] \notin {"REFUNDING", "CANCELLED", "MANUAL_REVIEW"} =>
          req[s]["refund"] = "none"
    /\ state[s] = "CANCELLED" /\ paymentId[s] => req[s]["refund"] = "ok"
    /\ completed[s] <=> state[s] \in Final

\* The committed state at each control point.
PcInv(s) ==
    /\ pc[s] = "none" => /\ state[s] = "CREATED"
                         /\ \A c \in Calls : req[s][c] = "none"
    /\ pc[s] = "none" <=> orderOf[s] = NoOrder
    /\ pc[s] # "none" => state[s] # "CREATED"
    /\ pc[s] = "authorize" => /\ state[s] = "PAYMENT_PENDING"
                              /\ req[s]["authorize"] # "none"
    /\ pc[s] = "payok" => state[s] = "PAYMENT_OK"
    /\ pc[s] = "reserve" => state[s] = "INVENTORY_PENDING"
    /\ pc[s] = "invok" => state[s] = "INVENTORY_OK"
    /\ pc[s] = "eta" => state[s] = "ETA_PENDING"
    /\ pc[s] = "compensate" => state[s] = "INVENTORY_FAILED"
    /\ pc[s] = "refund" => state[s] = "REFUNDING"
    /\ pc[s] = "update" => state[s] \in Confirmed \cup {"CANCELLED"}
    /\ pc[s] = "done" => state[s] \in Final

SagaInv(s) == WireInv(s) /\ StateInv(s) /\ PcInv(s)

OneSagaPerOrder ==
    \A s, t \in Sagas : orderOf[s] \in Orders /\ orderOf[s] = orderOf[t] => s = t

IInv == TypeOK /\ (\A s \in Sagas : SagaInv(s)) /\ OneSagaPerOrder

-----------------------------------------------------------------------------
(* Type correctness *)

\* _transition keeps the state column and the step log well typed, for the two
\* lengths of path that the orchestrator takes.
LEMMA OneTransition ==
    ASSUME TypeOK, NEW s \in Sagas, NEW a \in SagaState, Transition(s, <<a>>)
    PROVE  /\ state' = [state EXCEPT ![s] = a]
           /\ state' \in [Sagas -> SagaState]
           /\ steps' \in [Sagas -> Seq(SagaState)]
<1>1. <<a>> \in Seq(SagaState) /\ Len(<<a>>) = 1 /\ <<a>>[1] = a
  OBVIOUS
<1>2. state' = [state EXCEPT ![s] = a]
  BY <1>1 DEF Transition
<1>3. steps[s] \o <<a>> \in Seq(SagaState)
  BY <1>1 DEF TypeOK
<1> QED
  BY <1>2, <1>3 DEF Transition, TypeOK

\* The same for the two transitions that _compensate makes in one commit.
LEMMA TwoTransitions ==
    ASSUME TypeOK, NEW s \in Sagas, NEW a \in SagaState, NEW b \in SagaState,
           Transition(s, <<a, b>>)
    PROVE  /\ state' = [state EXCEPT ![s] = b]
           /\ state' \in [Sagas -> SagaState]
           /\ steps' \in [Sagas -> Seq(SagaState)]
<1>1. <<a, b>> \in Seq(SagaState) /\ Len(<<a, b>>) = 2 /\ <<a, b>>[2] = b
  OBVIOUS
<1>2. state' = [state EXCEPT ![s] = b]
  BY <1>1 DEF Transition
<1>3. steps[s] \o <<a, b>> \in Seq(SagaState)
  BY <1>1 DEF TypeOK
<1> QED
  BY <1>2, <1>3 DEF Transition, TypeOK

\* The initial state is well typed.
LEMMA InitType == Init => TypeOK
  BY CheckoutAssumption DEF Init, TypeOK, SagaState, Calls, CallState, PayStatus, Point, Running

\* Every step of every actor keeps the variables well typed.
LEMMA NextType == TypeOK /\ [Next]_vars => TypeOK'
<1> SUFFICES ASSUME TypeOK, [Next]_vars PROVE TypeOK'
  OBVIOUS
<1>1. ASSUME NEW s \in Sagas, NEW o \in Orders, NEW items \in Carts, StartSaga(s, o, items) PROVE TypeOK'
  <2>1. state' \in [Sagas -> SagaState] /\ steps' \in [Sagas -> Seq(SagaState)]
    BY <1>1, OneTransition DEF StartSaga, SagaState
  <2> QED
    BY <1>1, <2>1, CheckoutAssumption DEF StartSaga, TypeOK, sagaDb, ledgers, Goto, Send,
       Calls, CallState, PayStatus, Point, Running
<1>2. ASSUME NEW s \in Sagas, PaymentFailed(s) PROVE TypeOK'
  <2>1. state' \in [Sagas -> SagaState] /\ steps' \in [Sagas -> Seq(SagaState)]
    BY <1>2, TwoTransitions DEF PaymentFailed, SagaState
  <2> QED
    BY <1>2, <2>1 DEF PaymentFailed, TypeOK, sagaDb, ledgers, Goto,
       Calls, CallState, PayStatus, Point, Running
<1>3. ASSUME NEW s \in Sagas, PaymentAuthorized(s) PROVE TypeOK'
  <2>1. state' \in [Sagas -> SagaState] /\ steps' \in [Sagas -> Seq(SagaState)]
    BY <1>3, OneTransition DEF PaymentAuthorized, SagaState
  <2> QED
    BY <1>3, <2>1 DEF PaymentAuthorized, TypeOK, sagaDb, ledgers, Goto,
       Calls, CallState, PayStatus, Point, Running
<1>4. ASSUME NEW s \in Sagas, BeginReserve(s) PROVE TypeOK'
  <2>1. state' \in [Sagas -> SagaState] /\ steps' \in [Sagas -> Seq(SagaState)]
    BY <1>4, OneTransition DEF BeginReserve, SagaState
  <2> QED
    BY <1>4, <2>1 DEF BeginReserve, TypeOK, sagaDb, ledgers, Goto, Send,
       Calls, CallState, PayStatus, Point, Running
<1>5. ASSUME NEW s \in Sagas, InventoryFailed(s) PROVE TypeOK'
  <2>1. state' \in [Sagas -> SagaState] /\ steps' \in [Sagas -> Seq(SagaState)]
    BY <1>5, OneTransition DEF InventoryFailed, SagaState
  <2> QED
    BY <1>5, <2>1 DEF InventoryFailed, TypeOK, sagaDb, ledgers, Goto,
       Calls, CallState, PayStatus, Point, Running
<1>6. ASSUME NEW s \in Sagas, InventoryReserved(s) PROVE TypeOK'
  <2>1. state' \in [Sagas -> SagaState] /\ steps' \in [Sagas -> Seq(SagaState)]
    BY <1>6, OneTransition DEF InventoryReserved, SagaState
  <2> QED
    BY <1>6, <2>1 DEF InventoryReserved, TypeOK, sagaDb, ledgers, Goto,
       Calls, CallState, PayStatus, Point, Running
<1>7. ASSUME NEW s \in Sagas, BeginEta(s) PROVE TypeOK'
  <2>1. state' \in [Sagas -> SagaState] /\ steps' \in [Sagas -> Seq(SagaState)]
    BY <1>7, OneTransition DEF BeginEta, SagaState
  <2> QED
    BY <1>7, <2>1 DEF BeginEta, TypeOK, sagaDb, ledgers, Goto,
       Calls, CallState, PayStatus, Point, Running
<1>8. ASSUME NEW s \in Sagas, BeginRefund(s) PROVE TypeOK'
  <2>1. state' \in [Sagas -> SagaState] /\ steps' \in [Sagas -> Seq(SagaState)]
    BY <1>8, OneTransition DEF BeginRefund, SagaState
  <2> QED
    BY <1>8, <2>1 DEF BeginRefund, TypeOK, sagaDb, ledgers, Goto, Send,
       Calls, CallState, PayStatus, Point, Running
<1>9. ASSUME NEW s \in Sagas, RefundDone(s) PROVE TypeOK'
  <2>1. state' \in [Sagas -> SagaState] /\ steps' \in [Sagas -> Seq(SagaState)]
    BY <1>9, TwoTransitions DEF RefundDone, SagaState
  <2> QED
    BY <1>9, <2>1 DEF RefundDone, TypeOK, sagaDb, ledgers, Goto,
       Calls, CallState, PayStatus, Point, Running
<1>10. ASSUME NEW s \in Sagas, RefundFailed(s) PROVE TypeOK'
  <2>1. state' \in [Sagas -> SagaState] /\ steps' \in [Sagas -> Seq(SagaState)]
    BY <1>10, OneTransition DEF RefundFailed, SagaState
  <2> QED
    BY <1>10, <2>1 DEF RefundFailed, TypeOK, sagaDb, ledgers, Goto,
       Calls, CallState, PayStatus, Point, Running
<1>11. ASSUME NEW s \in Sagas, NEW result \in {"live", "degraded", "fallback"},
               EtaOutcome(s, result)
       PROVE  TypeOK'
  <2>1. state' \in [Sagas -> SagaState] /\ steps' \in [Sagas -> Seq(SagaState)]
    BY <1>11, OneTransition DEF EtaOutcome, SagaState
  <2> QED
    BY <1>11, <2>1 DEF EtaOutcome, TypeOK, ledgers, Goto,
       Calls, CallState, PayStatus, Point, Running
<1>12. ASSUME NEW s \in Sagas, UpdateOrder(s) PROVE TypeOK'
  BY <1>12 DEF UpdateOrder, FinalStatus, TypeOK, sagaDb, Goto,
     Calls, CallState, PayStatus, Point, Running, SagaState, Confirmed
<1>13. ASSUME NEW s \in Sagas, ThreadDies(s) PROVE TypeOK'
  BY <1>13 DEF ThreadDies, TypeOK, sagaDb, ledgers, Goto,
     Calls, CallState, PayStatus, Point, Running
<1>14. ASSUME NEW s \in Sagas, NEW verdict \in {"AUTHORIZED", "DECLINED"},
               ServeAuthorize(s, verdict)
       PROVE  TypeOK'
  BY <1>14 DEF ServeAuthorize, TypeOK, sagaDb,
     Calls, CallState, PayStatus, Point, Running
<1>15. ASSUME NEW s \in Sagas, ServeReserve(s) PROVE TypeOK'
  <2>1. Take(s) \in [Items -> Int]
    BY DEF Take, TypeOK
  <2>2. stock' \in [Items -> Int] /\ rsvRow' \in [Sagas -> BOOLEAN]
    BY <1>15, <2>1 DEF ServeReserve, TypeOK
  <2>3. req' \in [Sagas -> [Calls -> CallState]]
    <3>1. PICK answer \in {"ok", "no"} : req' = [req EXCEPT ![s]["reserve"] = answer]
      BY <1>15 DEF ServeReserve
    <3> QED
      BY <3>1 DEF TypeOK, Calls, CallState
  <2> QED
    BY <1>15, <2>2, <2>3 DEF ServeReserve, TypeOK, sagaDb
<1>16. ASSUME NEW s \in Sagas, ServeRefund(s) PROVE TypeOK'
  BY <1>16 DEF ServeRefund, TypeOK, sagaDb,
     Calls, CallState, PayStatus, Point, Running
<1>17. ASSUME NEW s \in Sagas, NEW call \in Calls, Unavailable(s, call) PROVE TypeOK'
  BY <1>17 DEF Unavailable, TypeOK, sagaDb, ledgers,
     Calls, CallState, PayStatus, Point, Running
<1>18. CASE UNCHANGED vars
  BY <1>18 DEF vars, TypeOK
<1> QED
  BY <1>1, <1>2, <1>3, <1>4, <1>5, <1>6, <1>7, <1>8, <1>9, <1>10, <1>11, <1>12, <1>13, <1>14, <1>15, <1>16, <1>17, <1>18 DEF Next, SagaStep, ServiceStep

\* Type correctness of the checkout: every column, request and ledger row keeps
\* to its domain, whatever fails and whoever interleaves.
THEOREM TypeCorrect == Spec => []TypeOK
  BY InitType, NextType, PTL DEF Spec

-----------------------------------------------------------------------------
(* The inductive invariant *)

\* A step that leaves the variables of saga t alone keeps its invariant.
LEMMA Frame ==
    ASSUME NEW t \in Sagas, SagaInv(t),
           orderOf'[t] = orderOf[t], state'[t] = state[t],
           paymentId'[t] = paymentId[t], completed'[t] = completed[t],
           pc'[t] = pc[t], req'[t] = req[t], payRow'[t] = payRow[t],
           refundRow'[t] = refundRow[t], rsvRow'[t] = rsvRow[t]
    PROVE  SagaInv(t)'
  BY DEF SagaInv, WireInv, StateInv, PcInv

\* The inductive invariant holds initially.
LEMMA InitInv == Init => IInv
  BY InitType, CheckoutAssumption
     DEF Init, IInv, SagaInv, WireInv, StateInv, PcInv, OneSagaPerOrder,
         Final, Confirmed, Calls

\* A step of saga s leaves the others alone and, except for a start, takes no
\* order: its own invariant is what remains to show.
LEMMA Local ==
    ASSUME IInv, TypeOK', NEW s \in Sagas, SagaInv(s)',
           \A t \in Sagas \ {s} :
               /\ orderOf'[t] = orderOf[t] /\ state'[t] = state[t]
               /\ paymentId'[t] = paymentId[t] /\ completed'[t] = completed[t]
               /\ pc'[t] = pc[t] /\ req'[t] = req[t] /\ payRow'[t] = payRow[t]
               /\ refundRow'[t] = refundRow[t] /\ rsvRow'[t] = rsvRow[t],
           orderOf' = orderOf
    PROVE  IInv'
<1>1. \A t \in Sagas : SagaInv(t)'
  BY Frame DEF IInv
<1> QED
  BY <1>1 DEF IInv, OneSagaPerOrder

\* Every step keeps the invariant.
LEMMA NextInv == IInv /\ [Next]_vars => IInv'
<1> SUFFICES ASSUME IInv, [Next]_vars PROVE IInv'
  OBVIOUS
<1>0. TypeOK /\ TypeOK'
  BY NextType DEF IInv
<1>1. ASSUME NEW s \in Sagas, NEW o \in Orders, NEW items \in Carts, StartSaga(s, o, items)
      PROVE  IInv'
  <2>1. state' = [state EXCEPT ![s] = "PAYMENT_PENDING"]
    BY <1>0, <1>1, OneTransition DEF StartSaga, SagaState
  <2>2. SagaInv(s)'
    BY <1>0, <1>1, <2>1, CheckoutAssumption
       DEF StartSaga, Goto, Send, ledgers, IInv, SagaInv, WireInv, StateInv, PcInv,
           Final, Confirmed, Calls, TypeOK
  <2>3. ASSUME NEW t \in Sagas, t # s PROVE SagaInv(t)'
    BY <1>0, <1>1, <2>1, <2>3, Frame DEF StartSaga, Goto, Send, ledgers, IInv, TypeOK
  <2>4. OneSagaPerOrder'
    BY <1>0, <1>1 DEF StartSaga, OrderIsFree, IInv, OneSagaPerOrder, TypeOK
  <2> QED
    BY <1>0, <2>2, <2>3, <2>4 DEF IInv
<1>2. ASSUME NEW s \in Sagas, PaymentFailed(s) PROVE IInv'
  <2>1. state' = [state EXCEPT ![s] = "CANCELLED"]
    BY <1>0, <1>2, TwoTransitions DEF PaymentFailed, SagaState
  <2>2. SagaInv(s)'
    BY <1>0, <1>2, <2>1
       DEF PaymentFailed, Answered, Goto, ledgers, IInv, SagaInv, WireInv, StateInv, PcInv,
           Final, Confirmed, Calls, TypeOK
  <2> QED
    BY <1>0, <1>2, <2>1, <2>2, Local DEF PaymentFailed, Goto, ledgers, TypeOK
<1>3. ASSUME NEW s \in Sagas, PaymentAuthorized(s) PROVE IInv'
  <2>1. state' = [state EXCEPT ![s] = "PAYMENT_OK"]
    BY <1>0, <1>3, OneTransition DEF PaymentAuthorized, SagaState
  <2>2. SagaInv(s)'
    BY <1>0, <1>3, <2>1
       DEF PaymentAuthorized, Answered, Goto, ledgers, IInv, SagaInv, WireInv, StateInv, PcInv,
           Final, Confirmed, Calls, TypeOK
  <2> QED
    BY <1>0, <1>3, <2>1, <2>2, Local DEF PaymentAuthorized, Goto, ledgers, TypeOK
<1>4. ASSUME NEW s \in Sagas, BeginReserve(s) PROVE IInv'
  <2>1. state' = [state EXCEPT ![s] = "INVENTORY_PENDING"]
    BY <1>0, <1>4, OneTransition DEF BeginReserve, SagaState
  <2>2. SagaInv(s)'
    BY <1>0, <1>4, <2>1
       DEF BeginReserve, Goto, Send, ledgers, IInv, SagaInv, WireInv, StateInv, PcInv,
           Final, Confirmed, Calls, TypeOK
  <2> QED
    BY <1>0, <1>4, <2>1, <2>2, Local DEF BeginReserve, Goto, Send, ledgers, TypeOK
<1>5. ASSUME NEW s \in Sagas, InventoryFailed(s) PROVE IInv'
  <2>1. state' = [state EXCEPT ![s] = "INVENTORY_FAILED"]
    BY <1>0, <1>5, OneTransition DEF InventoryFailed, SagaState
  <2>2. SagaInv(s)'
    BY <1>0, <1>5, <2>1
       DEF InventoryFailed, Answered, Goto, ledgers, IInv, SagaInv, WireInv, StateInv, PcInv,
           Final, Confirmed, Calls, TypeOK
  <2> QED
    BY <1>0, <1>5, <2>1, <2>2, Local DEF InventoryFailed, Goto, ledgers, TypeOK
<1>6. ASSUME NEW s \in Sagas, InventoryReserved(s) PROVE IInv'
  <2>1. state' = [state EXCEPT ![s] = "INVENTORY_OK"]
    BY <1>0, <1>6, OneTransition DEF InventoryReserved, SagaState
  <2>2. SagaInv(s)'
    BY <1>0, <1>6, <2>1
       DEF InventoryReserved, Answered, Goto, ledgers, IInv, SagaInv, WireInv, StateInv, PcInv,
           Final, Confirmed, Calls, TypeOK
  <2> QED
    BY <1>0, <1>6, <2>1, <2>2, Local DEF InventoryReserved, Goto, ledgers, TypeOK
<1>7. ASSUME NEW s \in Sagas, BeginEta(s) PROVE IInv'
  <2>1. state' = [state EXCEPT ![s] = "ETA_PENDING"]
    BY <1>0, <1>7, OneTransition DEF BeginEta, SagaState
  <2>2. SagaInv(s)'
    BY <1>0, <1>7, <2>1
       DEF BeginEta, Goto, ledgers, IInv, SagaInv, WireInv, StateInv, PcInv,
           Final, Confirmed, Calls, TypeOK
  <2> QED
    BY <1>0, <1>7, <2>1, <2>2, Local DEF BeginEta, Goto, ledgers, TypeOK
<1>8. ASSUME NEW s \in Sagas, BeginRefund(s) PROVE IInv'
  <2>1. state' = [state EXCEPT ![s] = "REFUNDING"]
    BY <1>0, <1>8, OneTransition DEF BeginRefund, SagaState
  <2>2. SagaInv(s)'
    BY <1>0, <1>8, <2>1
       DEF BeginRefund, Goto, Send, ledgers, IInv, SagaInv, WireInv, StateInv, PcInv,
           Final, Confirmed, Calls, TypeOK
  <2> QED
    BY <1>0, <1>8, <2>1, <2>2, Local DEF BeginRefund, Goto, Send, ledgers, TypeOK
<1>9. ASSUME NEW s \in Sagas, RefundDone(s) PROVE IInv'
  <2>1. state' = [state EXCEPT ![s] = "CANCELLED"]
    BY <1>0, <1>9, TwoTransitions DEF RefundDone, SagaState
  <2>2. SagaInv(s)'
    BY <1>0, <1>9, <2>1
       DEF RefundDone, Answered, Goto, ledgers, IInv, SagaInv, WireInv, StateInv, PcInv,
           Final, Confirmed, Calls, TypeOK
  <2> QED
    BY <1>0, <1>9, <2>1, <2>2, Local DEF RefundDone, Goto, ledgers, TypeOK
<1>10. ASSUME NEW s \in Sagas, RefundFailed(s) PROVE IInv'
  <2>1. state' = [state EXCEPT ![s] = "MANUAL_REVIEW"]
    BY <1>0, <1>10, OneTransition DEF RefundFailed, SagaState
  <2>2. SagaInv(s)'
    BY <1>0, <1>10, <2>1
       DEF RefundFailed, Goto, ledgers, IInv, SagaInv, WireInv, StateInv, PcInv,
           Final, Confirmed, Calls, TypeOK
  <2> QED
    BY <1>0, <1>10, <2>1, <2>2, Local DEF RefundFailed, Goto, ledgers, TypeOK
<1>11. ASSUME NEW s \in Sagas, NEW result \in {"live", "degraded", "fallback"},
               EtaOutcome(s, result)
       PROVE  IInv'
  <2>1. PICK final \in Confirmed : state' = [state EXCEPT ![s] = final]
    BY <1>0, <1>11, OneTransition DEF EtaOutcome, SagaState, Confirmed
  <2>2. SagaInv(s)'
    <3>1. /\ SagaInv(s) /\ state[s] = "ETA_PENDING" /\ state'[s] = final
          /\ completed'[s] /\ pc'[s] = "update" /\ orderOf[s] # NoOrder
          /\ UNCHANGED <<orderOf, paymentId, req, payRow, refundRow, rsvRow>>
      BY <1>0, <1>11, <2>1 DEF EtaOutcome, Goto, ledgers, IInv, SagaInv, PcInv, TypeOK
    <3>2. WireInv(s)'
      BY <3>1 DEF SagaInv, WireInv
    <3>3. StateInv(s)'
      BY <3>1 DEF SagaInv, StateInv, Final, Confirmed
    <3>4. PcInv(s)'
      BY <3>1 DEF PcInv, Confirmed
    <3> QED
      BY <3>2, <3>3, <3>4 DEF SagaInv
  <2> QED
    BY <1>0, <1>11, <2>1, <2>2, Local DEF EtaOutcome, Goto, ledgers, TypeOK
<1>12. ASSUME NEW s \in Sagas, UpdateOrder(s)
       PROVE  IInv'
  <2>1. SagaInv(s)'
    BY <1>0, <1>12
       DEF UpdateOrder, Goto, sagaDb, IInv, SagaInv, WireInv, StateInv, PcInv,
           Final, Confirmed, Calls, TypeOK
  <2> QED
    BY <1>0, <1>12, <2>1, Local DEF UpdateOrder, Goto, sagaDb, TypeOK
<1>13. ASSUME NEW s \in Sagas, ThreadDies(s)
       PROVE  IInv'
  <2>1. SagaInv(s)'
    BY <1>0, <1>13
       DEF ThreadDies, Goto, sagaDb, ledgers, Running, IInv, SagaInv, WireInv, StateInv, PcInv,
           Final, Confirmed, Calls, TypeOK
  <2> QED
    BY <1>0, <1>13, <2>1, Local DEF ThreadDies, Goto, sagaDb, ledgers, Running, TypeOK
<1>14. ASSUME NEW s \in Sagas, NEW verdict \in {"AUTHORIZED", "DECLINED"}, ServeAuthorize(s, verdict)
       PROVE  IInv'
  <2>1. SagaInv(s)'
    BY <1>0, <1>14
       DEF ServeAuthorize, sagaDb, IInv, SagaInv, WireInv, StateInv, PcInv,
           Final, Confirmed, Calls, TypeOK
  <2> QED
    BY <1>0, <1>14, <2>1, Local DEF ServeAuthorize, sagaDb, TypeOK
<1>15. ASSUME NEW s \in Sagas, ServeReserve(s)
       PROVE  IInv'
  <2>1. SagaInv(s)'
    BY <1>0, <1>15
       DEF ServeReserve, sagaDb, IInv, SagaInv, WireInv, StateInv, PcInv,
           Final, Confirmed, Calls, TypeOK
  <2> QED
    BY <1>0, <1>15, <2>1, Local DEF ServeReserve, sagaDb, TypeOK
<1>16. ASSUME NEW s \in Sagas, ServeRefund(s)
       PROVE  IInv'
  <2>1. SagaInv(s)'
    BY <1>0, <1>16
       DEF ServeRefund, sagaDb, IInv, SagaInv, WireInv, StateInv, PcInv,
           Final, Confirmed, Calls, TypeOK
  <2> QED
    BY <1>0, <1>16, <2>1, Local DEF ServeRefund, sagaDb, TypeOK
<1>17. ASSUME NEW s \in Sagas, NEW call \in Calls, Unavailable(s, call)
       PROVE  IInv'
  <2>1. SagaInv(s)'
    BY <1>0, <1>17
       DEF Unavailable, sagaDb, ledgers, IInv, SagaInv, WireInv, StateInv, PcInv,
           Final, Confirmed, Calls, TypeOK
  <2> QED
    BY <1>0, <1>17, <2>1, Local DEF Unavailable, sagaDb, ledgers, TypeOK
<1>18. CASE UNCHANGED vars
  BY <1>0, <1>18, Frame DEF vars, IInv, OneSagaPerOrder
<1> QED
  BY <1>1, <1>2, <1>3, <1>4, <1>5, <1>6, <1>7, <1>8, <1>9, <1>10, <1>11, <1>12, <1>13, <1>14, <1>15, <1>16, <1>17, <1>18 DEF Next, SagaStep, ServiceStep

\* The inductive invariant holds throughout every behaviour.
LEMMA Invariance == Spec => []IInv
  BY InitInv, NextInv, PTL DEF Spec

-----------------------------------------------------------------------------
(* The safety properties *)

\* A confirmed checkout was charged, was not refunded and holds its goods, for
\* every interleaving of late, lost and failed calls and dying threads.
THEOREM ConfirmedPaidAndHeldHolds == Spec => []ConfirmedPaidAndHeld
<1>1. IInv => ConfirmedPaidAndHeld
  BY DEF IInv, SagaInv, WireInv, StateInv, ConfirmedPaidAndHeld, Confirmed
<1> QED
  BY <1>1, Invariance, PTL

\* An order is charged by at most one saga, however often it is started.
THEOREM OneChargePerOrderHolds == Spec => []OneChargePerOrder
<1>1. IInv => OneChargePerOrder
  BY DEF IInv, OneSagaPerOrder, OneChargePerOrder
<1> QED
  BY <1>1, Invariance, PTL

\* A saga that recorded its payment and ends CANCELLED has refunded it.
THEOREM CancelledAfterPaymentIsRefundedHolds ==
    Spec => []CancelledAfterPaymentIsRefunded
<1>1. IInv => CancelledAfterPaymentIsRefunded
  BY DEF IInv, SagaInv, WireInv, StateInv, CancelledAfterPaymentIsRefunded
<1> QED
  BY <1>1, Invariance, PTL

\* Stock is taken only for an order whose payment was authorized.
THEOREM StockOnlyForPaidOrdersHolds == Spec => []StockOnlyForPaidOrders
<1>1. IInv => StockOnlyForPaidOrders
  BY DEF IInv, SagaInv, WireInv, StockOnlyForPaidOrders
<1> QED
  BY <1>1, Invariance, PTL

\* The thread of a completed saga is past its last transition.
LEMMA CompletedIsPast ==
    ASSUME IInv, NEW s \in Sagas, completed[s]
    PROVE  pc[s] \in {"update", "done", "dead"}
  BY DEF IInv, TypeOK, Point, Running, SagaInv, StateInv, PcInv, Final, Confirmed

Unchanging(t) ==
    completed[t] => /\ state'[t] = state[t] /\ steps'[t] = steps[t] /\ completed'[t]
                    /\ orderOf'[t] = orderOf[t]

\* A transition of a saga that is not completed leaves the completed ones alone.
LEMMA TransitionSpares ==
    ASSUME TypeOK, NEW s \in Sagas, ~completed[s], NEW path, Transition(s, path),
           \A t \in Sagas \ {s} : completed'[t] = completed[t] /\ orderOf'[t] = orderOf[t],
           NEW t \in Sagas
    PROVE  Unchanging(t)
  BY DEF TypeOK, Transition, Unchanging

\* No step of any actor changes the row or the step log of a completed saga.
LEMMA CompletedStays ==
    ASSUME IInv, [Next]_vars, NEW t \in Sagas
    PROVE  Unchanging(t)
<1>0. TypeOK
  BY DEF IInv
<1>1. ASSUME NEW s \in Sagas, NEW o \in Orders, NEW items \in Carts, StartSaga(s, o, items)
      PROVE  Unchanging(t)
  BY <1>0, <1>1, CompletedIsPast, TransitionSpares DEF StartSaga, TypeOK
<1>2. ASSUME NEW s \in Sagas, PaymentFailed(s) PROVE Unchanging(t)
  BY <1>0, <1>2, CompletedIsPast, TransitionSpares DEF PaymentFailed, TypeOK
<1>3. ASSUME NEW s \in Sagas, PaymentAuthorized(s) PROVE Unchanging(t)
  BY <1>0, <1>3, CompletedIsPast, TransitionSpares DEF PaymentAuthorized, TypeOK
<1>4. ASSUME NEW s \in Sagas, BeginReserve(s) PROVE Unchanging(t)
  BY <1>0, <1>4, CompletedIsPast, TransitionSpares DEF BeginReserve, TypeOK
<1>5. ASSUME NEW s \in Sagas, InventoryFailed(s) PROVE Unchanging(t)
  BY <1>0, <1>5, CompletedIsPast, TransitionSpares DEF InventoryFailed, TypeOK
<1>6. ASSUME NEW s \in Sagas, InventoryReserved(s) PROVE Unchanging(t)
  BY <1>0, <1>6, CompletedIsPast, TransitionSpares DEF InventoryReserved, TypeOK
<1>7. ASSUME NEW s \in Sagas, BeginEta(s) PROVE Unchanging(t)
  BY <1>0, <1>7, CompletedIsPast, TransitionSpares DEF BeginEta, TypeOK
<1>8. ASSUME NEW s \in Sagas, BeginRefund(s) PROVE Unchanging(t)
  BY <1>0, <1>8, CompletedIsPast, TransitionSpares DEF BeginRefund, TypeOK
<1>9. ASSUME NEW s \in Sagas, RefundDone(s) PROVE Unchanging(t)
  BY <1>0, <1>9, CompletedIsPast, TransitionSpares DEF RefundDone, TypeOK
<1>10. ASSUME NEW s \in Sagas, RefundFailed(s) PROVE Unchanging(t)
  BY <1>0, <1>10, CompletedIsPast, TransitionSpares DEF RefundFailed, TypeOK
<1>11. ASSUME NEW s \in Sagas, NEW result \in {"live", "degraded", "fallback"},
              EtaOutcome(s, result)
       PROVE  Unchanging(t)
  BY <1>0, <1>11, CompletedIsPast, TransitionSpares DEF EtaOutcome, TypeOK
<1>12. CASE UNCHANGED sagaDb
  BY <1>12 DEF sagaDb, Unchanging
<1> QED
  BY <1>1, <1>2, <1>3, <1>4, <1>5, <1>6, <1>7, <1>8, <1>9, <1>10, <1>11, <1>12
     DEF Next, SagaStep, ServiceStep, UpdateOrder, ThreadDies, ServeAuthorize,
         ServeReserve, ServeRefund, Unavailable, vars, sagaDb

\* A completed saga row is final, for every value of the constants.
THEOREM CompletedIsFinalHolds == Spec => CompletedIsFinal
<1>1. IInv /\ [Next]_vars => [RowsStay]_vars
  BY CompletedStays DEF RowsStay, Unchanging
<1> QED
  BY <1>1, Invariance, PTL DEF Spec, CompletedIsFinal

\* The order row is written only by the thread of the order's own saga, with
\* the state that the saga row is committed to and keeps.
THEOREM OrderRowNeverAheadHolds == Spec => []OrderRowNeverAhead
<1>1. Init => OrderRowNeverAhead
  BY DEF Init, OrderRowNeverAhead
<1>2. ASSUME IInv, OrderRowNeverAhead, [Next]_vars PROVE OrderRowNeverAhead'
  <2>0. TypeOK
    BY <1>2 DEF IInv
  <2>1. ASSUME NEW o \in Orders, orderStatus[o] # "CREATED", orderStatus'[o] = orderStatus[o]
        PROVE  \E s \in Sagas : /\ orderOf'[s] = o /\ completed'[s]
                                /\ orderStatus'[o] = state'[s]
    <3>1. PICK s \in Sagas : orderOf[s] = o /\ completed[s] /\ orderStatus[o] = state[s]
      BY <1>2, <2>1 DEF OrderRowNeverAhead
    <3>2. Unchanging(s)
      BY <1>2, CompletedStays
    <3> QED
      BY <2>1, <3>1, <3>2 DEF Unchanging
  <2>2. ASSUME NEW t \in Sagas, UpdateOrder(t), NEW o \in Orders,
               orderStatus'[o] # orderStatus[o]
        PROVE  \E s \in Sagas : /\ orderOf'[s] = o /\ completed'[s]
                                /\ orderStatus'[o] = state'[s]
    <3>1. orderOf[t] = o /\ orderStatus'[o] = FinalStatus(t)
      BY <2>0, <2>2 DEF UpdateOrder, TypeOK
    <3>2. state[t] \in Confirmed \cup {"CANCELLED"} /\ completed[t]
      BY <1>2, <2>2 DEF UpdateOrder, IInv, SagaInv, PcInv, StateInv, Final
    <3>3. FinalStatus(t) = state[t]
      BY <3>2 DEF FinalStatus
    <3> QED
      BY <2>2, <3>1, <3>2, <3>3 DEF UpdateOrder, sagaDb
  <2>3. (\E t \in Sagas : UpdateOrder(t)) \/ UNCHANGED orderStatus
    BY <1>2 DEF Next, SagaStep, ServiceStep, StartSaga, PaymentFailed, PaymentAuthorized,
       BeginReserve, InventoryFailed, InventoryReserved, BeginEta, EtaOutcome, BeginRefund,
       RefundDone, RefundFailed, ThreadDies, ServeAuthorize, ServeReserve, ServeRefund,
       Unavailable, ledgers, vars
  <2> QED
    BY <2>1, <2>2, <2>3 DEF OrderRowNeverAhead
<1> QED
  BY <1>1, <1>2, Invariance, PTL DEF Spec

\* The step log of a saga, up to the committed state st.
Audit(log, st, refunded) ==
    /\ log # <<>> /\ log[1] = "PAYMENT_PENDING" /\ log[Len(log)] = st
    /\ \A k \in 1..(Len(log) - 1) : <<log[k], log[k + 1]>> \in DocumentedEdges
    /\ \A k \in 1..Len(log) : log[k] = "REFUNDED" => refunded

SagaAudit(s) ==
    /\ pc[s] = "none" => steps[s] = <<>>
    /\ pc[s] # "none" => Audit(steps[s], state[s], refundRow[s])

AuditInv == \A s \in Sagas : SagaAudit(s)

\* A log row along an edge of the diagram continues an audited log.
LEMMA AuditGrows ==
    ASSUME NEW log \in Seq(SagaState), NEW st \in SagaState, NEW a \in SagaState,
           NEW refunded \in BOOLEAN, Audit(log, st, refunded),
           <<st, a>> \in DocumentedEdges, a = "REFUNDED" => refunded
    PROVE  /\ log \o <<a>> \in Seq(SagaState)
           /\ Audit(log \o <<a>>, a, refunded)
<1> DEFINE longer == log \o <<a>>
<1>1. /\ longer \in Seq(SagaState) /\ Len(longer) = Len(log) + 1
      /\ Len(log) \in Nat /\ Len(log) > 0
  BY DEF Audit
<1>2. longer[Len(log) + 1] = a /\ \A k \in 1..Len(log) : longer[k] = log[k]
  BY DEF Audit
<1>3. longer # <<>> /\ longer[1] = "PAYMENT_PENDING" /\ longer[Len(longer)] = a
  BY <1>1, <1>2 DEF Audit
<1>4. ASSUME NEW k \in 1..(Len(longer) - 1)
      PROVE  <<longer[k], longer[k + 1]>> \in DocumentedEdges
  <2>1. CASE k = Len(log)
    BY <1>1, <1>2, <2>1 DEF Audit
  <2>2. CASE k # Len(log)
    <3>1. k \in 1..(Len(log) - 1) /\ k + 1 \in 1..Len(log)
      BY <1>1, <1>4, <2>2
    <3> QED
      BY <1>2, <3>1 DEF Audit
  <2> QED
    BY <2>1, <2>2
<1>5. ASSUME NEW k \in 1..Len(longer), longer[k] = "REFUNDED" PROVE refunded
  <2>1. k = Len(log) + 1 \/ k \in 1..Len(log)
    BY <1>1, <1>5
  <2> QED
    BY <1>2, <1>5, <2>1 DEF Audit
<1> QED
  BY <1>1, <1>3, <1>4, <1>5 DEF Audit

\* A transition of one saga along an edge of the diagram keeps every audit.
LEMMA AuditStep ==
    ASSUME TypeOK, AuditInv, NEW s \in Sagas, pc[s] # "none", NEW a \in SagaState,
           Transition(s, <<a>>), <<state[s], a>> \in DocumentedEdges, a # "REFUNDED",
           refundRow' = refundRow, NEW point, point # "none", pc' = [pc EXCEPT ![s] = point]
    PROVE  AuditInv'
<1>1. /\ steps'[s] = steps[s] \o <<a>> /\ state'[s] = a
      /\ pc'[s] = point
  BY OneTransition DEF Transition, TypeOK
<1>2. Audit(steps'[s], state'[s], refundRow'[s])
  BY <1>1, AuditGrows DEF AuditInv, SagaAudit, TypeOK
<1>3. ASSUME NEW t \in Sagas, t # s PROVE SagaAudit(t)'
  <2>1. steps'[t] = steps[t] /\ state'[t] = state[t] /\ pc'[t] = pc[t]
    BY <1>3 DEF Transition, TypeOK
  <2> QED
    BY <2>1 DEF AuditInv, SagaAudit
<1> QED
  BY <1>1, <1>2, <1>3 DEF AuditInv, SagaAudit

\* Appending two log rows one after the other appends the pair.
LEMMA TwoAppended ==
    ASSUME NEW S, NEW log \in Seq(S), NEW a \in S, NEW b \in S
    PROVE  (log \o <<a>>) \o <<b>> = log \o <<a, b>>
<1>1. <<a>> \in Seq(S) /\ <<b>> \in Seq(S) /\ <<a, b>> \in Seq(S)
  OBVIOUS
<1>2. ASSUME NEW t \in Seq(S), NEW u \in Seq(S)
      PROVE  (log \o t) \o u = log \o (t \o u)
  BY ConcatAssociative, SMT
<1>3. ASSUME NEW t \in Seq(S), NEW u \in Seq(S), NEW v \in Seq(S),
             t = <<a>>, u = <<b>>, v = <<a, b>>
      PROVE  (log \o t) \o u = log \o v
  <2>1. (log \o t) \o u = log \o (t \o u)
    BY <1>2
  <2>2. /\ t \o u \in Seq(S) /\ Len(t \o u) = 2
        /\ (t \o u)[1] = a /\ (t \o u)[2] = b
    BY <1>3
  <2>3. Len(v) = 2 /\ v[1] = a /\ v[2] = b
    BY <1>3
  <2>4. \A k \in 1..2 : (t \o u)[k] = v[k]
    BY <2>2, <2>3
  <2>5. t \o u = v
    BY <2>2, <2>3, <2>4, SeqEqual
  <2> QED
    BY <2>1, <2>5
<1> QED
  BY <1>1, <1>3

\* The same for the two log rows of a commit that passes through a state.
LEMMA AuditTwoSteps ==
    ASSUME TypeOK, AuditInv, NEW s \in Sagas, pc[s] # "none",
           NEW a \in SagaState, NEW b \in SagaState, Transition(s, <<a, b>>),
           <<state[s], a>> \in DocumentedEdges, <<a, b>> \in DocumentedEdges,
           a = "REFUNDED" => refundRow[s], b # "REFUNDED",
           refundRow' = refundRow, NEW point, point # "none", pc' = [pc EXCEPT ![s] = point]
    PROVE  AuditInv'
<1> DEFINE once == steps[s] \o <<a>>
<1>1. steps'[s] = once \o <<b>> /\ state'[s] = b /\ pc'[s] = point
  <2>1. steps[s] \in Seq(SagaState)
    BY DEF TypeOK
  <2>2. once \o <<b>> = steps[s] \o <<a, b>>
    BY <2>1, TwoAppended
  <2> QED
    BY <2>2, TwoTransitions DEF Transition, TypeOK
<1>2. once \in Seq(SagaState) /\ Audit(once, a, refundRow[s])
  BY AuditGrows DEF AuditInv, SagaAudit, TypeOK
<1>3. Audit(steps'[s], state'[s], refundRow'[s])
  <2> HIDE DEF once
  <2> QED
    BY <1>1, <1>2, AuditGrows DEF TypeOK
<1>4. ASSUME NEW t \in Sagas, t # s PROVE SagaAudit(t)'
  <2>1. steps'[t] = steps[t] /\ state'[t] = state[t] /\ pc'[t] = pc[t]
    BY <1>4 DEF Transition, TypeOK
  <2> QED
    BY <2>1 DEF AuditInv, SagaAudit
<1> QED
  BY <1>1, <1>3, <1>4 DEF AuditInv, SagaAudit

\* Every step keeps the audits: the states at the control points (PcInv) are
\* the sources of the edges that the transitions take.
LEMMA NextAudit ==
    ASSUME IInv, AuditInv, [Next]_vars
    PROVE  AuditInv'
<1>0. TypeOK /\ IInv
  BY DEF IInv
<1>1. ASSUME NEW s \in Sagas, NEW o \in Orders, NEW items \in Carts, StartSaga(s, o, items)
      PROVE  AuditInv'
  <2>1. /\ steps[s] = <<>> /\ steps' = [steps EXCEPT ![s] = steps[s] \o <<"PAYMENT_PENDING">>]
        /\ state' = [state EXCEPT ![s] = "PAYMENT_PENDING"]
        /\ pc' = [pc EXCEPT ![s] = "authorize"] /\ refundRow' = refundRow
    BY <1>0, <1>1, OneTransition
       DEF StartSaga, Transition, Goto, ledgers, AuditInv, SagaAudit, SagaState
  <2>2. steps'[s] = <<"PAYMENT_PENDING">> /\ state'[s] = "PAYMENT_PENDING"
    BY <1>0, <2>1 DEF TypeOK
  <2>3. Audit(<<"PAYMENT_PENDING">>, "PAYMENT_PENDING", refundRow[s])
    BY DEF Audit
  <2>4. ASSUME NEW t \in Sagas, t # s PROVE SagaAudit(t)'
    BY <1>0, <2>1, <2>4 DEF AuditInv, SagaAudit, TypeOK
  <2> QED
    BY <1>0, <2>1, <2>2, <2>3, <2>4 DEF AuditInv, SagaAudit, TypeOK
<1>2. ASSUME NEW s \in Sagas, PaymentFailed(s) PROVE AuditInv'
  <2>1. state[s] = "PAYMENT_PENDING" /\ pc[s] # "none"
    BY <1>0, <1>2 DEF PaymentFailed, IInv, SagaInv, PcInv
  <2>2. Transition(s, <<"PAYMENT_FAILED", "CANCELLED">>) /\ refundRow' = refundRow
    BY <1>2 DEF PaymentFailed, ledgers
  <2> QED
    BY <1>0, <1>2, <2>1, <2>2, AuditTwoSteps DEF PaymentFailed, Goto, SagaState, DocumentedEdges
<1>3. ASSUME NEW s \in Sagas, PaymentAuthorized(s) PROVE AuditInv'
  <2>1. state[s] = "PAYMENT_PENDING" /\ pc[s] # "none"
    BY <1>0, <1>3 DEF PaymentAuthorized, IInv, SagaInv, PcInv
  <2>2. Transition(s, <<"PAYMENT_OK">>) /\ refundRow' = refundRow
    BY <1>3 DEF PaymentAuthorized, ledgers
  <2> QED
    BY <1>0, <1>3, <2>1, <2>2, AuditStep DEF PaymentAuthorized, Goto, SagaState, DocumentedEdges
<1>4. ASSUME NEW s \in Sagas, BeginReserve(s) PROVE AuditInv'
  <2>1. state[s] = "PAYMENT_OK" /\ pc[s] # "none"
    BY <1>0, <1>4 DEF BeginReserve, IInv, SagaInv, PcInv
  <2>2. Transition(s, <<"INVENTORY_PENDING">>) /\ refundRow' = refundRow
    BY <1>4 DEF BeginReserve, ledgers
  <2> QED
    BY <1>0, <1>4, <2>1, <2>2, AuditStep DEF BeginReserve, Goto, SagaState, DocumentedEdges
<1>5. ASSUME NEW s \in Sagas, InventoryFailed(s) PROVE AuditInv'
  <2>1. state[s] = "INVENTORY_PENDING" /\ pc[s] # "none"
    BY <1>0, <1>5 DEF InventoryFailed, IInv, SagaInv, PcInv
  <2>2. Transition(s, <<"INVENTORY_FAILED">>) /\ refundRow' = refundRow
    BY <1>5 DEF InventoryFailed, ledgers
  <2> QED
    BY <1>0, <1>5, <2>1, <2>2, AuditStep DEF InventoryFailed, Goto, SagaState, DocumentedEdges
<1>6. ASSUME NEW s \in Sagas, InventoryReserved(s) PROVE AuditInv'
  <2>1. state[s] = "INVENTORY_PENDING" /\ pc[s] # "none"
    BY <1>0, <1>6 DEF InventoryReserved, IInv, SagaInv, PcInv
  <2>2. Transition(s, <<"INVENTORY_OK">>) /\ refundRow' = refundRow
    BY <1>6 DEF InventoryReserved, ledgers
  <2> QED
    BY <1>0, <1>6, <2>1, <2>2, AuditStep DEF InventoryReserved, Goto, SagaState, DocumentedEdges
<1>7. ASSUME NEW s \in Sagas, BeginEta(s) PROVE AuditInv'
  <2>1. state[s] = "INVENTORY_OK" /\ pc[s] # "none"
    BY <1>0, <1>7 DEF BeginEta, IInv, SagaInv, PcInv
  <2>2. Transition(s, <<"ETA_PENDING">>) /\ refundRow' = refundRow
    BY <1>7 DEF BeginEta, ledgers
  <2> QED
    BY <1>0, <1>7, <2>1, <2>2, AuditStep DEF BeginEta, Goto, SagaState, DocumentedEdges
<1>8. ASSUME NEW s \in Sagas, BeginRefund(s) PROVE AuditInv'
  <2>1. state[s] = "INVENTORY_FAILED" /\ pc[s] # "none"
    BY <1>0, <1>8 DEF BeginRefund, IInv, SagaInv, PcInv
  <2>2. Transition(s, <<"REFUNDING">>) /\ refundRow' = refundRow
    BY <1>8 DEF BeginRefund, ledgers
  <2> QED
    BY <1>0, <1>8, <2>1, <2>2, AuditStep DEF BeginRefund, Goto, SagaState, DocumentedEdges
<1>9. ASSUME NEW s \in Sagas, RefundDone(s) PROVE AuditInv'
  <2>1. state[s] = "REFUNDING" /\ pc[s] # "none" /\ refundRow[s]
    BY <1>0, <1>9 DEF RefundDone, Answered, IInv, SagaInv, PcInv, WireInv
  <2>2. Transition(s, <<"REFUNDED", "CANCELLED">>) /\ refundRow' = refundRow
    BY <1>9 DEF RefundDone, ledgers
  <2> QED
    BY <1>0, <1>9, <2>1, <2>2, AuditTwoSteps DEF RefundDone, Goto, SagaState, DocumentedEdges
<1>10. ASSUME NEW s \in Sagas, RefundFailed(s) PROVE AuditInv'
  <2>1. state[s] = "REFUNDING" /\ pc[s] # "none"
    BY <1>0, <1>10 DEF RefundFailed, IInv, SagaInv, PcInv
  <2>2. Transition(s, <<"MANUAL_REVIEW">>) /\ refundRow' = refundRow
    BY <1>10 DEF RefundFailed, ledgers
  <2> QED
    BY <1>0, <1>10, <2>1, <2>2, AuditStep DEF RefundFailed, Goto, SagaState, DocumentedEdges
<1>11. ASSUME NEW s \in Sagas, NEW result \in {"live", "degraded", "fallback"},
               EtaOutcome(s, result)
       PROVE  AuditInv'
  <2>1. state[s] = "ETA_PENDING" /\ pc[s] # "none"
    BY <1>0, <1>11 DEF EtaOutcome, IInv, SagaInv, PcInv
  <2>2. PICK final \in Confirmed : Transition(s, <<final>>) /\ refundRow' = refundRow
    BY <1>11 DEF EtaOutcome, ledgers, Confirmed
  <2>3. /\ final \in SagaState /\ final # "REFUNDED"
        /\ <<"ETA_PENDING", final>> \in DocumentedEdges
    BY DEF Confirmed, SagaState, DocumentedEdges
  <2> QED
    BY <1>0, <1>11, <2>1, <2>2, <2>3, AuditStep DEF EtaOutcome, Goto
<1>12. ASSUME NEW s \in Sagas, ServeRefund(s) PROVE AuditInv'
  <2>1. UNCHANGED <<state, steps, pc>> /\ refundRow' = [refundRow EXCEPT ![s] = TRUE]
    BY <1>12 DEF ServeRefund, sagaDb
  <2>2. \A t \in Sagas : refundRow[t] => refundRow'[t]
    BY <1>0, <2>1 DEF TypeOK
  <2>3. ASSUME NEW t \in Sagas PROVE SagaAudit(t)'
    BY <2>1, <2>2 DEF AuditInv, SagaAudit, Audit
  <2> QED
    BY <2>3 DEF AuditInv
<1>13. ASSUME NEW s \in Sagas, UpdateOrder(s) \/ ThreadDies(s) PROVE AuditInv'
  <2>1. UNCHANGED <<state, steps, refundRow>>
    BY <1>13 DEF UpdateOrder, ThreadDies, sagaDb, ledgers
  <2>2. \A t \in Sagas : (pc'[t] = "none") <=> (pc[t] = "none")
    BY <1>0, <1>13 DEF UpdateOrder, ThreadDies, Goto, TypeOK, Running
  <2> QED
    BY <2>1, <2>2 DEF AuditInv, SagaAudit
<1>14. CASE UNCHANGED <<state, steps, pc, refundRow>>
  BY <1>14 DEF AuditInv, SagaAudit
<1> QED
  BY <1>1, <1>2, <1>3, <1>4, <1>5, <1>6, <1>7, <1>8, <1>9, <1>10, <1>11, <1>12, <1>13, <1>14
     DEF Next, SagaStep, ServiceStep, ServeAuthorize, ServeReserve, Unavailable, ledgers,
         sagaDb, vars

\* The step log is a complete audit of every saga that started: it follows the
\* documented diagram, ends in the committed state and never logs a refund that
\* the payment ledger does not hold.
THEOREM AuditTrailHolds == Spec => []AuditTrail
<1>1. Init => AuditInv
  BY DEF Init, AuditInv, SagaAudit
<1>2. IInv /\ AuditInv /\ [Next]_vars => AuditInv'
  BY NextAudit
<1>3. AuditInv => AuditTrail
  BY DEF AuditInv, SagaAudit, Audit, AuditTrail
<1> QED
  BY <1>1, <1>2, <1>3, Invariance, PTL DEF Spec

\* The carts that sagas carry come from requests.
CartInv == \A s \in Sagas, i \in Items : cart[s][i] <= 1
StockInv == (\A c \in Carts, i \in Items : c[i] <= 1) => CartInv /\ NoOversell

\* No stock becomes negative when no cart names an item twice: the test under
\* the row lock and the decrement are one step of the inventory.
THEOREM NoOversellHolds == Spec => []NoOversell
<1> DEFINE Single == \A c \in Carts, i \in Items : c[i] <= 1
<1>1. Init => StockInv
  BY CheckoutAssumption DEF Init, StockInv, CartInv, NoOversell
<1>2. ASSUME TypeOK, StockInv, [Next]_vars PROVE StockInv'
  <2> SUFFICES ASSUME Single PROVE CartInv' /\ (\A i \in Items : stock'[i] >= 0)
    BY DEF StockInv, NoOversell
  <2>0. CartInv /\ \A i \in Items : stock[i] >= 0
    BY <1>2 DEF StockInv, NoOversell
  <2>1. ASSUME NEW s \in Sagas, NEW o \in Orders, NEW items \in Carts, StartSaga(s, o, items)
        PROVE  CartInv' /\ \A i \in Items : stock'[i] >= 0
    BY <1>2, <2>0, <2>1 DEF StartSaga, ledgers, CartInv, TypeOK
  <2>2. ASSUME NEW s \in Sagas, ServeReserve(s)
        PROVE  CartInv' /\ \A i \in Items : stock'[i] >= 0
    <3>1. CASE InStock(s)
      <4>1. ASSUME NEW i \in Items PROVE Take(s)[i] >= 0
        <5>1. stock[i] \in Int /\ cart[s][i] \in Nat
          BY <1>2 DEF TypeOK
        <5>2. cart[s][i] = 0 \/ (cart[s][i] = 1 /\ stock[i] > 0)
          BY <2>0, <3>1, <5>1 DEF InStock, CartInv
        <5>3. stock[i] - cart[s][i] >= 0
          BY <2>0, <5>1, <5>2
        <5> QED
          BY <5>3 DEF Take
      <4> QED
        BY <2>0, <2>2, <3>1, <4>1 DEF ServeReserve, CartInv
    <3>2. CASE ~InStock(s)
      BY <2>0, <2>2, <3>2 DEF ServeReserve, CartInv
    <3> QED
      BY <3>1, <3>2
  <2>3. CASE UNCHANGED <<cart, stock>>
    BY <2>0, <2>3 DEF CartInv
  <2> QED
    BY <1>2, <2>1, <2>2, <2>3
       DEF Next, SagaStep, ServiceStep, PaymentFailed, PaymentAuthorized, BeginReserve,
           InventoryFailed, InventoryReserved, BeginEta, EtaOutcome, BeginRefund, RefundDone,
           RefundFailed, UpdateOrder, ThreadDies, ServeAuthorize, ServeRefund, Unavailable,
           ledgers, vars
<1>3. StockInv => NoOversell
  BY DEF StockInv, NoOversell
<1> QED
  BY <1>1, <1>2, <1>3, TypeCorrect, PTL DEF Spec

-----------------------------------------------------------------------------
(* CheckoutSaga implements CheckoutOutcome *)

VerdictMap == [s \in Sagas |-> VerdictOf(state[s])]
ChargeMap == [s \in Sagas |-> ChargeOf(payRow[s])]

\* A transition of one saga changes only that saga's mapped verdict.
LEMMA VerdictStep ==
    ASSUME TypeOK, NEW s \in Sagas, NEW a \in SagaState, state' = [state EXCEPT ![s] = a]
    PROVE  VerdictMap' = [VerdictMap EXCEPT ![s] = VerdictOf(a)]
  BY DEF TypeOK, VerdictMap

\* A write of one saga's payment row changes only that saga's mapped charge.
LEMMA ChargeStep ==
    ASSUME TypeOK, NEW s \in Sagas, NEW r \in PayStatus, payRow' = [payRow EXCEPT ![s] = r]
    PROVE  ChargeMap' = [ChargeMap EXCEPT ![s] = ChargeOf(r)]
  BY DEF TypeOK, ChargeMap

\* A transition between two states in which the checkout is open is not visible.
LEMMA StillOpen ==
    ASSUME TypeOK, NEW s \in Sagas, NEW a \in SagaState, state' = [state EXCEPT ![s] = a],
           VerdictOf(state[s]) = "open", VerdictOf(a) = "open",
           UNCHANGED <<orderOf, payRow, rsvRow>>
    PROVE  UNCHANGED Outcome!outcome
<1>1. VerdictMap' = VerdictMap
  BY VerdictStep DEF VerdictMap
<1>2. ChargeMap' = ChargeMap
  BY DEF ChargeMap
<1> QED
  BY <1>1, <1>2 DEF Outcome!outcome, VerdictMap, ChargeMap

\* A step that leaves what CheckoutOutcome sees alone is a stutter of it.
LEMMA Invisible ==
    ASSUME UNCHANGED <<orderOf, state, payRow, rsvRow>>
    PROVE  UNCHANGED Outcome!outcome
  BY DEF Outcome!outcome

\* Every step of the detailed specification is a step of the outcome or is
\* not visible in it.
LEMMA StepRefines ==
    ASSUME IInv, [Next]_vars
    PROVE  [Outcome!Next]_(Outcome!outcome)
<1>0. TypeOK
  BY DEF IInv
<1>1. ASSUME NEW s \in Sagas, NEW o \in Orders, NEW items \in Carts, StartSaga(s, o, items)
      PROVE  Outcome!Open(s, o)
  <2>1. state' = [state EXCEPT ![s] = "PAYMENT_PENDING"]
    BY <1>0, <1>1, OneTransition DEF StartSaga, SagaState
  <2>2. VerdictMap' = [VerdictMap EXCEPT ![s] = "open"]
    BY <1>0, <2>1, VerdictStep DEF SagaState, VerdictOf, Confirmed
  <2>3. VerdictOf(state[s]) = "unopened"
    BY <1>1 DEF StartSaga, IInv, SagaInv, PcInv, VerdictOf, Confirmed
  <2> QED
    BY <1>1, <2>2, <2>3 DEF StartSaga, OrderIsFree, ledgers, Outcome!Open, VerdictMap
<1>2. ASSUME NEW s \in Sagas, PaymentAuthorized(s) PROVE UNCHANGED Outcome!outcome
  <2>1. state[s] = "PAYMENT_PENDING"
    BY <1>2 DEF PaymentAuthorized, IInv, SagaInv, PcInv
  <2>2. state' = [state EXCEPT ![s] = "PAYMENT_OK"]
    BY <1>0, <1>2, OneTransition DEF PaymentAuthorized, SagaState
  <2>3. UNCHANGED <<orderOf, payRow, rsvRow>>
    BY <1>2 DEF PaymentAuthorized, ledgers
  <2> QED
    BY <1>0, <2>1, <2>2, <2>3, StillOpen DEF VerdictOf, Confirmed, SagaState
<1>3. ASSUME NEW s \in Sagas, BeginReserve(s) PROVE UNCHANGED Outcome!outcome
  <2>1. state[s] = "PAYMENT_OK"
    BY <1>3 DEF BeginReserve, IInv, SagaInv, PcInv
  <2>2. state' = [state EXCEPT ![s] = "INVENTORY_PENDING"]
    BY <1>0, <1>3, OneTransition DEF BeginReserve, SagaState
  <2>3. UNCHANGED <<orderOf, payRow, rsvRow>>
    BY <1>3 DEF BeginReserve, ledgers
  <2> QED
    BY <1>0, <2>1, <2>2, <2>3, StillOpen DEF VerdictOf, Confirmed, SagaState
<1>4. ASSUME NEW s \in Sagas, InventoryFailed(s) PROVE UNCHANGED Outcome!outcome
  <2>1. state[s] = "INVENTORY_PENDING"
    BY <1>4 DEF InventoryFailed, IInv, SagaInv, PcInv
  <2>2. state' = [state EXCEPT ![s] = "INVENTORY_FAILED"]
    BY <1>0, <1>4, OneTransition DEF InventoryFailed, SagaState
  <2>3. UNCHANGED <<orderOf, payRow, rsvRow>>
    BY <1>4 DEF InventoryFailed, ledgers
  <2> QED
    BY <1>0, <2>1, <2>2, <2>3, StillOpen DEF VerdictOf, Confirmed, SagaState
<1>5. ASSUME NEW s \in Sagas, InventoryReserved(s) PROVE UNCHANGED Outcome!outcome
  <2>1. state[s] = "INVENTORY_PENDING"
    BY <1>5 DEF InventoryReserved, IInv, SagaInv, PcInv
  <2>2. state' = [state EXCEPT ![s] = "INVENTORY_OK"]
    BY <1>0, <1>5, OneTransition DEF InventoryReserved, SagaState
  <2>3. UNCHANGED <<orderOf, payRow, rsvRow>>
    BY <1>5 DEF InventoryReserved, ledgers
  <2> QED
    BY <1>0, <2>1, <2>2, <2>3, StillOpen DEF VerdictOf, Confirmed, SagaState
<1>6. ASSUME NEW s \in Sagas, BeginEta(s) PROVE UNCHANGED Outcome!outcome
  <2>1. state[s] = "INVENTORY_OK"
    BY <1>6 DEF BeginEta, IInv, SagaInv, PcInv
  <2>2. state' = [state EXCEPT ![s] = "ETA_PENDING"]
    BY <1>0, <1>6, OneTransition DEF BeginEta, SagaState
  <2>3. UNCHANGED <<orderOf, payRow, rsvRow>>
    BY <1>6 DEF BeginEta, ledgers
  <2> QED
    BY <1>0, <2>1, <2>2, <2>3, StillOpen DEF VerdictOf, Confirmed, SagaState
<1>7. ASSUME NEW s \in Sagas, BeginRefund(s) PROVE UNCHANGED Outcome!outcome
  <2>1. state[s] = "INVENTORY_FAILED"
    BY <1>7 DEF BeginRefund, IInv, SagaInv, PcInv
  <2>2. state' = [state EXCEPT ![s] = "REFUNDING"]
    BY <1>0, <1>7, OneTransition DEF BeginRefund, SagaState
  <2>3. UNCHANGED <<orderOf, payRow, rsvRow>>
    BY <1>7 DEF BeginRefund, ledgers
  <2> QED
    BY <1>0, <2>1, <2>2, <2>3, StillOpen DEF VerdictOf, Confirmed, SagaState
<1>8. ASSUME NEW s \in Sagas, PaymentFailed(s) PROVE Outcome!Cancel(s)
  <2>1. state[s] = "PAYMENT_PENDING" /\ ~rsvRow[s]
    BY <1>8 DEF PaymentFailed, Answered, IInv, SagaInv, PcInv, StateInv, WireInv, ChargeOf
  <2>2. state' = [state EXCEPT ![s] = "CANCELLED"]
    BY <1>0, <1>8, TwoTransitions DEF PaymentFailed, SagaState
  <2>3. VerdictMap' = [VerdictMap EXCEPT ![s] = "cancelled"]
    BY <1>0, <2>2, VerdictStep DEF SagaState, VerdictOf, Confirmed
  <2>4. VerdictOf(state[s]) = "open"
    BY <2>1 DEF VerdictOf, Confirmed
  <2> QED
    BY <1>8, <2>1, <2>3, <2>4 DEF PaymentFailed, ledgers, Outcome!Cancel, VerdictMap
<1>9. ASSUME NEW s \in Sagas, RefundDone(s) PROVE Outcome!Cancel(s)
  <2>1. state[s] = "REFUNDING" /\ ChargeOf(payRow[s]) = "refunded"
    BY <1>9 DEF RefundDone, Answered, IInv, SagaInv, PcInv, StateInv, WireInv, ChargeOf
  <2>2. state' = [state EXCEPT ![s] = "CANCELLED"]
    BY <1>0, <1>9, TwoTransitions DEF RefundDone, SagaState
  <2>3. VerdictMap' = [VerdictMap EXCEPT ![s] = "cancelled"]
    BY <1>0, <2>2, VerdictStep DEF SagaState, VerdictOf, Confirmed
  <2>4. VerdictOf(state[s]) = "open"
    BY <2>1 DEF VerdictOf, Confirmed
  <2> QED
    BY <1>9, <2>1, <2>3, <2>4 DEF RefundDone, ledgers, Outcome!Cancel, VerdictMap
<1>10. ASSUME NEW s \in Sagas, RefundFailed(s) PROVE Outcome!Review(s)
  <2>1. state[s] = "REFUNDING" /\ ChargeOf(payRow[s]) \in {"charged", "refunded"}
    BY <1>10 DEF RefundFailed, Answered, IInv, SagaInv, PcInv, StateInv, WireInv, ChargeOf
  <2>2. state' = [state EXCEPT ![s] = "MANUAL_REVIEW"]
    BY <1>0, <1>10, OneTransition DEF RefundFailed, SagaState
  <2>3. VerdictMap' = [VerdictMap EXCEPT ![s] = "review"]
    BY <1>0, <2>2, VerdictStep DEF SagaState, VerdictOf, Confirmed
  <2>4. VerdictOf(state[s]) = "open"
    BY <2>1 DEF VerdictOf, Confirmed
  <2> QED
    BY <1>10, <2>1, <2>3, <2>4 DEF RefundFailed, ledgers, Outcome!Review, VerdictMap
<1>11. ASSUME NEW s \in Sagas, NEW result \in {"live", "degraded", "fallback"},
               EtaOutcome(s, result)
       PROVE  Outcome!Confirm(s)
  <2>1. state[s] = "ETA_PENDING" /\ ChargeOf(payRow[s]) = "charged" /\ rsvRow[s]
    BY <1>11 DEF EtaOutcome, IInv, SagaInv, PcInv, StateInv, WireInv, ChargeOf
  <2>2. PICK final \in Confirmed : state' = [state EXCEPT ![s] = final]
    BY <1>0, <1>11, OneTransition DEF EtaOutcome, SagaState, Confirmed
  <2>3. VerdictMap' = [VerdictMap EXCEPT ![s] = "confirmed"]
    BY <1>0, <2>2, VerdictStep DEF SagaState, VerdictOf, Confirmed
  <2>4. VerdictOf(state[s]) = "open"
    BY <2>1 DEF VerdictOf, Confirmed
  <2> QED
    BY <1>11, <2>1, <2>3, <2>4 DEF EtaOutcome, ledgers, Outcome!Confirm, VerdictMap
<1>12. ASSUME NEW s \in Sagas, UpdateOrder(s) PROVE UNCHANGED Outcome!outcome
  BY <1>12, Invisible DEF UpdateOrder, sagaDb
<1>13. ASSUME NEW s \in Sagas, ThreadDies(s) PROVE UNCHANGED Outcome!outcome
  BY <1>13, Invisible DEF ThreadDies, sagaDb, ledgers
<1>14. ASSUME NEW s \in Sagas, NEW call \in Calls, Unavailable(s, call)
       PROVE  UNCHANGED Outcome!outcome
  BY <1>14, Invisible DEF Unavailable, sagaDb, ledgers
<1>15. ASSUME NEW s \in Sagas, NEW verdict \in {"AUTHORIZED", "DECLINED"},
               ServeAuthorize(s, verdict)
       PROVE  Outcome!Charge(s)
  <2>1. /\ state[s] \notin {"CREATED", "MANUAL_REVIEW"} \cup Confirmed
        /\ payRow[s] = "none"
    BY <1>15 DEF ServeAuthorize, IInv, SagaInv, PcInv, StateInv, WireInv, Calls
  <2>2. VerdictOf(state[s]) \in {"open", "cancelled"}
    BY <2>1 DEF VerdictOf, Confirmed
  <2>3. payRow' = [payRow EXCEPT ![s] = verdict] /\ verdict \in PayStatus
    BY <1>15 DEF ServeAuthorize, PayStatus
  <2>4. ChargeMap' = [ChargeMap EXCEPT ![s] = ChargeOf(verdict)]
    BY <1>0, <2>3, ChargeStep
  <2>5. ChargeOf(payRow[s]) = "none" /\ ChargeOf(verdict) \in {"charged", "declined"}
    BY <1>15, <2>1 DEF ChargeOf
  <2> QED
    BY <1>15, <2>2, <2>4, <2>5 DEF ServeAuthorize, sagaDb, Outcome!Charge, ChargeMap
<1>16. ASSUME NEW s \in Sagas, ServeReserve(s)
       PROVE  Outcome!Hold(s) \/ UNCHANGED Outcome!outcome
  <2>1. CASE InStock(s)
    <3>1. /\ VerdictOf(state[s]) \in {"open", "cancelled", "review"}
          /\ ChargeOf(payRow[s]) \in {"charged", "refunded"} /\ ~rsvRow[s]
      BY <1>0, <1>16
         DEF ServeReserve, IInv, SagaInv, StateInv, WireInv, VerdictOf, ChargeOf, Confirmed
    <3> QED
      BY <1>16, <2>1, <3>1 DEF ServeReserve, sagaDb, Outcome!Hold
  <2>2. CASE ~InStock(s)
    BY <1>16, <2>2, Invisible DEF ServeReserve, sagaDb
  <2> QED
    BY <2>1, <2>2
<1>17. ASSUME NEW s \in Sagas, ServeRefund(s) PROVE Outcome!Refund(s)
  <2>1. state[s] \in {"REFUNDING", "MANUAL_REVIEW"} /\ payRow[s] = "AUTHORIZED"
    BY <1>0, <1>17 DEF ServeRefund, IInv, SagaInv, StateInv, WireInv
  <2>2. ChargeMap' = [ChargeMap EXCEPT ![s] = "refunded"]
    BY <1>0, <1>17, ChargeStep DEF ServeRefund, PayStatus, ChargeOf
  <2> QED
    BY <1>17, <2>1, <2>2 DEF ServeRefund, sagaDb, Outcome!Refund, ChargeMap, ChargeOf,
       VerdictOf, Confirmed
<1>18. CASE UNCHANGED vars
  BY <1>18, Invisible DEF vars
<1> QED
  BY <1>1, <1>2, <1>3, <1>4, <1>5, <1>6, <1>7, <1>8, <1>9, <1>10, <1>11, <1>12, <1>13, <1>14, <1>15, <1>16, <1>17, <1>18 DEF Next, SagaStep, ServiceStep, Outcome!Next

\* The orchestrator, the services and the wire implement CheckoutOutcome, for
\* every value of the constants.
THEOREM OutcomeImplemented == Spec => ImplementsOutcome
<1>1. Init => Outcome!Init
  <2>1. VerdictOf("CREATED") = "unopened" /\ ChargeOf("none") = "none"
    BY DEF VerdictOf, Confirmed, ChargeOf
  <2> QED
    BY <2>1 DEF Init, Outcome!Init
<1>2. IInv /\ [Next]_vars => [Outcome!Next]_(Outcome!outcome)
  BY StepRefines
<1> QED
  BY <1>1, <1>2, Invariance, PTL DEF Spec, ImplementsOutcome, Outcome!Spec
====
