------------------------ MODULE PaymentServiceProofs ------------------------
(***************************************************************************)
(* Proofs about PaymentService, for any sets of requests and idempotency   *)
(* keys and any number of restarts.                                        *)
(*                                                                         *)
(* The table forgets: a refund overwrites the status of the payment that   *)
(* it gives back, so a row alone does not say what the client was told.    *)
(* IInv therefore ties every answer, given or cached, to the local         *)
(* variable of the handler that stored the row (Backed), and that variable *)
(* to the row (RowInv).  With one row to a key, two answers under one key  *)
(* quote the same variable.                                                *)
(***************************************************************************)
EXTENDS PaymentService, TLAPS

\* The control point of a call, its request and its row.
CallInv(c) ==
    /\ pc[c] = "idle" <=> op[c] = None
    /\ reply[c] # None => pc[c] = "done"
    /\ pc[c] = "decide" => op[c].kind = "authorize"
    /\ pc[c] \in {"lookup", "commit"} => op[c].kind = "refund"
    /\ pc[c] \in {"idle", "cache", "decide", "lookup", "commit"} => rows[c] = None
    /\ pc[c] = "commit" => rows[op[c].payment] # None
    /\ pc[c] = "remember" => rows[c] # None

\* A row, the request that made it and the status that its handler chose.
RowInv(p) ==
    rows[p] # None =>
        /\ op[p] # None /\ rows[p].key = op[p].key
        /\ result[p] \in PaymentStatus
        /\ rows[p].status \in {result[p], "REFUNDED"}
        /\ result[p] = "REFUNDED" <=> rows[p].kind = "refund"
        /\ rows[p].kind = "refund" =>
              /\ rows[p].of \in Calls
              /\ rows[rows[p].of] # None /\ rows[rows[p].of].status = "REFUNDED"

OneRowPerKey ==
    \A p, q \in Calls :
        rows[p] # None /\ rows[q] # None /\ rows[p].key = rows[q].key => p = q

\* An answer under a key quotes the handler that stored the row of that key.
Backed(body, key) ==
    /\ body.id \in Calls
    /\ rows[body.id] # None /\ rows[body.id].key = key
    /\ body.status = result[body.id]

AnswersBacked ==
    /\ \A c \in Calls : reply[c] # None /\ reply[c].code = 200 =>
          Backed(reply[c].body, op[c].key)
    /\ \A k \in Keys : cache[k] # None => Backed(cache[k], k)

IInv ==
    /\ TypeOK
    /\ \A c \in Calls : CallInv(c) /\ RowInv(c)
    /\ OneRowPerKey /\ AnswersBacked

-----------------------------------------------------------------------------
(* What the operators of the model do *)

\* Finish answers one call and moves one thread.
LEMMA FinishEffect ==
    ASSUME TypeOK, NEW c \in Calls, NEW code \in {200, 404, 500}, NEW body,
           [code |-> code, body |-> body] \in Reply, Finish(c, code, body)
    PROVE  /\ reply' \in [Calls -> Reply \cup {None}]
           /\ pc' \in [Calls -> Active \cup {"idle", "done", "dead"}]
           /\ reply'[c] = [code |-> code, body |-> body]
           /\ \A d \in Calls \ {c} : reply'[d] = reply[d] /\ pc'[d] = pc[d]
           /\ pc'[c] = "done"
  BY DEF Finish, Goto, TypeOK

\* The transaction of a refund inserts its row, marks the original and leaves
\* every other row alone.
LEMMA RefundRowsEffect ==
    ASSUME TypeOK, NEW c \in Calls, rows[c] = None,
           op[c] \in [kind : {"refund"}, key : Keys, payment : Calls],
           rows[op[c].payment] # None
    PROVE  /\ RefundRows(c) \in [Calls -> Row \cup {None}]
           /\ op[c].payment # c
           /\ RefundRows(c)[c] = [key |-> op[c].key, kind |-> "refund",
                                  of |-> op[c].payment, status |-> "REFUNDED"]
           /\ RefundRows(c)[op[c].payment]
                = [rows[op[c].payment] EXCEPT !.status = "REFUNDED"]
           /\ \A p \in Calls \ {c, op[c].payment} : RefundRows(c)[p] = rows[p]
<1> DEFINE new == [key |-> op[c].key, kind |-> "refund",
                   of |-> op[c].payment, status |-> "REFUNDED"]
           old == rows[op[c].payment]
           marked == [old EXCEPT !.status = "REFUNDED"]
<1>1. op[c].payment \in Calls /\ op[c].key \in Keys /\ op[c].payment # c
  OBVIOUS
<1>2. new \in Row
  BY <1>1 DEF Row, PaymentStatus
<1>3. old \in Row
  BY <1>1 DEF TypeOK
<1>4. marked \in Row
  BY <1>3 DEF Row, PaymentStatus
<1>5. RefundRows(c) = [[rows EXCEPT ![c] = new] EXCEPT ![op[c].payment] = marked]
  BY <1>1 DEF RefundRows, TypeOK
<1> QED
  BY <1>1, <1>2, <1>4, <1>5 DEF TypeOK

-----------------------------------------------------------------------------
(* Every action preserves IInv *)

\* A request arrives at a thread of its own.
LEMMA ArriveInv ==
    ASSUME IInv, NEW c \in Calls, NEW request \in Ops, Arrive(c, request)
    PROVE  IInv'
<1> USE DEF IInv
<1>1. request # None
  BY NoneAssumption
<1>2. TypeOK'
  BY DEF Arrive, Goto, TypeOK, Active
<1>3. \A d \in Calls : CallInv(d)' /\ RowInv(d)'
  BY <1>1 DEF Arrive, Goto, TypeOK, CallInv, RowInv
<1>4. OneRowPerKey'
  BY DEF Arrive, OneRowPerKey
<1>5. \A d \in Calls : reply[d] # None => op'[d] = op[d]
  BY DEF Arrive, TypeOK, CallInv
<1>6. AnswersBacked'
  BY <1>5 DEF Arrive, AnswersBacked, Backed
<1> QED
  BY <1>2, <1>3, <1>4, <1>6

\* A hit in the cache is answered with what another call stored under the key.
LEMMA CheckCacheInv ==
    ASSUME IInv, NEW c \in Calls, CheckCache(c)
    PROVE  IInv'
<1> USE DEF IInv
<1> DEFINE hit == cache[op[c].key]
<1>1. op[c] \in Ops /\ op[c].key \in Keys
  BY DEF CheckCache, TypeOK, CallInv, Ops
<1>2. hit \in Response \cup {None}
  BY <1>1 DEF TypeOK
<1>3. CASE hit # None
  <2>1. Finish(c, 200, hit) /\ UNCHANGED <<op, result, rows, cache, failRate, restarts>>
    BY <1>3 DEF CheckCache
  <2>2. [code |-> 200, body |-> hit] \in Reply
    BY <1>2, <1>3 DEF Reply
  <2>3. /\ reply' \in [Calls -> Reply \cup {None}]
        /\ pc' \in [Calls -> Active \cup {"idle", "done", "dead"}]
        /\ reply'[c] = [code |-> 200, body |-> hit]
        /\ \A d \in Calls \ {c} : reply'[d] = reply[d] /\ pc'[d] = pc[d]
        /\ pc'[c] = "done"
    BY <2>1, <2>2, FinishEffect
  <2>4. TypeOK'
    BY <2>1, <2>3 DEF TypeOK
  <2>5. \A d \in Calls : CallInv(d)' /\ RowInv(d)'
    BY <1>1, <2>1, <2>3, NoneAssumption DEF CallInv, RowInv
  <2>6. OneRowPerKey'
    BY <2>1 DEF OneRowPerKey
  <2>7. Backed(hit, op[c].key)
    BY <1>1, <1>3 DEF AnswersBacked
  <2>8. AnswersBacked'
    <3>1. ASSUME NEW k \in Keys, cache'[k] # None PROVE Backed(cache[k], k)'
      BY <1>1, <2>1, <3>1 DEF AnswersBacked, Backed
    <3>2. Backed(reply[c].body, op[c].key)'
      BY <2>1, <2>3, <2>7 DEF Backed
    <3>3. ASSUME NEW d \in Calls, d # c, reply'[d] # None, reply'[d].code = 200
          PROVE  Backed(reply[d].body, op[d].key)'
      BY <1>1, <2>1, <2>3, <3>3 DEF AnswersBacked, Backed
    <3> QED
      BY <3>1, <3>2, <3>3 DEF AnswersBacked
  <2> QED
    BY <2>4, <2>5, <2>6, <2>8
<1>4. CASE hit = None
  <2>1. /\ Goto(c, IF op[c].kind = "authorize" THEN "decide" ELSE "lookup")
        /\ UNCHANGED <<op, result, reply, rows, cache, failRate, restarts>>
    BY <1>4 DEF CheckCache
  <2>2. TypeOK'
    BY <2>1 DEF TypeOK, Goto, Active
  <2>3. op[c].kind \in {"authorize", "refund"}
    BY <1>1 DEF Ops
  <2>4. \A d \in Calls : CallInv(d)' /\ RowInv(d)'
    BY <2>1, <2>3 DEF CheckCache, CallInv, RowInv, Goto, TypeOK
  <2>5. OneRowPerKey' /\ AnswersBacked'
    BY <2>1 DEF OneRowPerKey, AnswersBacked, Backed
  <2> QED
    BY <2>2, <2>4, <2>5
<1> QED
  BY <1>3, <1>4

\* A commit that the unique index rejects, or a refund of an unknown payment,
\* answers with an error and stores nothing.
LEMMA ErrorInv ==
    ASSUME IInv, NEW c \in Calls, NEW code \in {404, 500}, pc[c] # "idle",
           Finish(c, code, None), UNCHANGED <<op, result, rows, cache, failRate, restarts>>
    PROVE  IInv'
<1> USE DEF IInv
<1>1. [code |-> code, body |-> None] \in Reply
  BY DEF Reply
<1>2. /\ reply' \in [Calls -> Reply \cup {None}]
      /\ pc' \in [Calls -> Active \cup {"idle", "done", "dead"}]
      /\ reply'[c] = [code |-> code, body |-> None]
      /\ \A d \in Calls \ {c} : reply'[d] = reply[d] /\ pc'[d] = pc[d]
      /\ pc'[c] = "done"
  BY <1>1, FinishEffect
<1>3. TypeOK'
  BY <1>2 DEF TypeOK
<1>4. \A d \in Calls : CallInv(d)' /\ RowInv(d)'
  BY <1>2 DEF CallInv, RowInv
<1>5. OneRowPerKey'
  BY DEF OneRowPerKey
<1>6. AnswersBacked'
  BY <1>2 DEF AnswersBacked, Backed
<1> QED
  BY <1>3, <1>4, <1>5, <1>6

\* A new row whose key is fresh: what was answered before is untouched.
LEMMA NewRowInv ==
    ASSUME IInv, NEW c \in Calls, NEW v \in PaymentStatus,
           pc[c] \in {"decide", "commit"}, ~KeyIsStored(op[c].key),
           rows' \in [Calls -> Row \cup {None}],
           rows'[c] # None, rows'[c].key = op[c].key, rows'[c].status = v,
           v = "REFUNDED" <=> rows'[c].kind = "refund",
           rows'[c].kind = "refund" =>
              /\ rows'[c].of \in Calls
              /\ rows'[rows'[c].of] # None /\ rows'[rows'[c].of].status = "REFUNDED",
           \A p \in Calls \ {c} :
              \/ rows'[p] = rows[p]
              \/ rows[p] # None /\ rows'[p] = [rows[p] EXCEPT !.status = "REFUNDED"],
           result' = [result EXCEPT ![c] = v], Goto(c, "remember"),
           UNCHANGED <<op, reply, cache, failRate, restarts>>
    PROVE  IInv'
<1> USE DEF IInv
<1>1. rows[c] = None
  BY DEF CallInv
<1>2. TypeOK'
  BY DEF TypeOK, Goto, Active
<1>3. \A p \in Calls \ {c} : /\ rows[p] = None <=> rows'[p] = None
                             /\ rows[p] # None => /\ rows'[p].key = rows[p].key
                                                  /\ rows'[p].kind = rows[p].kind
                                                  /\ rows'[p].of = rows[p].of
                                                  /\ rows'[p].status \in {rows[p].status, "REFUNDED"}
  <2> SUFFICES ASSUME NEW p \in Calls \ {c}, rows'[p] # rows[p]
               PROVE  /\ rows[p] # None /\ rows'[p] # None
                      /\ rows'[p].key = rows[p].key
                      /\ rows'[p].kind = rows[p].kind
                      /\ rows'[p].of = rows[p].of
                      /\ rows'[p].status = "REFUNDED"
    OBVIOUS
  <2>1. rows[p] # None /\ rows'[p] = [rows[p] EXCEPT !.status = "REFUNDED"]
    OBVIOUS
  <2>2. rows[p] \in Row
    BY <2>1 DEF TypeOK
  <2>3. rows'[p] \in Row
    BY <2>1, <2>2 DEF Row, PaymentStatus
  <2> QED
    BY <2>1, <2>2, <2>3, NoneAssumption DEF Row
<1>4. \A d \in Calls : CallInv(d)'
  <2> SUFFICES ASSUME NEW d \in Calls PROVE CallInv(d)'
    OBVIOUS
  <2>1. pc'[d] = "commit" => op[d].payment \in Calls /\ rows[op[d].payment] # None
    BY DEF CallInv, Goto, TypeOK, Ops
  <2>2. CASE d = c
    BY <2>2 DEF CallInv, Goto, TypeOK
  <2>3. CASE d # c
    BY <1>1, <1>3, <2>1, <2>3 DEF CallInv, Goto, TypeOK
  <2> QED
    BY <2>2, <2>3
<1>5. \A p \in Calls : RowInv(p)'
  <2> SUFFICES ASSUME NEW p \in Calls, rows'[p] # None PROVE RowInv(p)'
    BY DEF RowInv
  <2>1. CASE p = c
    <3>1. op[c] # None
      BY DEF CallInv
    <3> QED
      BY <2>1, <3>1 DEF RowInv, TypeOK
  <2>2. CASE p # c
    <3>1. rows[p] # None /\ result'[p] = result[p]
      BY <1>3, <2>2 DEF TypeOK
    <3>2. RowInv(p)
      OBVIOUS
    <3>3. rows[p].kind = "refund" => rows[p].of # c
      BY <1>1, <3>1, <3>2 DEF RowInv
    <3> QED
      BY <1>3, <2>2, <3>1, <3>2, <3>3 DEF RowInv
  <2> QED
    BY <2>1, <2>2
<1>6. OneRowPerKey'
  <2>1. \A p \in Calls : rows[p] # None => rows[p].key # op[c].key
    BY DEF KeyIsStored
  <2> QED
    BY <1>3, <2>1 DEF OneRowPerKey
<1>7. \A body, key : Backed(body, key) => Backed(body, key)'
  BY <1>1, <1>3 DEF Backed, TypeOK
<1>8. AnswersBacked'
  BY <1>7 DEF AnswersBacked
<1> QED
  BY <1>2, <1>4, <1>5, <1>6, <1>8

\* The verdict on a payment is stored with the key of the request.
LEMMA CommitAuthorizeInv ==
    ASSUME IInv, NEW c \in Calls, CommitAuthorize(c)
    PROVE  IInv'
<1>1. /\ TypeOK /\ op[c] # None /\ rows[c] = None
      /\ op[c] \in [kind : {"authorize"}, key : Keys, over : BOOLEAN]
  BY DEF CommitAuthorize, IInv, CallInv, TypeOK, Ops
<1>2. CASE KeyIsStored(op[c].key)
  BY <1>2, ErrorInv DEF CommitAuthorize
<1>3. CASE ~KeyIsStored(op[c].key)
  <2>1. PICK v \in Verdicts(c) :
          /\ rows' = [rows EXCEPT ![c] = [key |-> op[c].key, kind |-> "authorize",
                                          of |-> None, status |-> v]]
          /\ result' = [result EXCEPT ![c] = v]
          /\ Goto(c, "remember")
          /\ UNCHANGED <<op, reply, cache, failRate, restarts>>
    BY <1>3 DEF CommitAuthorize
  <2> DEFINE new == [key |-> op[c].key, kind |-> "authorize", of |-> None, status |-> v]
  <2>2. v \in PaymentStatus /\ v # "REFUNDED"
    BY DEF Verdicts, PaymentStatus
  <2>3. new \in Row /\ new # None
    BY <1>1, <2>2, NoneAssumption DEF Row
  <2>4. rows' \in [Calls -> Row \cup {None}] /\ rows'[c] = new
        /\ \A p \in Calls \ {c} : rows'[p] = rows[p]
    BY <1>1, <2>1, <2>3 DEF TypeOK
  <2>5. pc[c] \in {"decide", "commit"}
    BY DEF CommitAuthorize
  <2> QED
    BY <1>3, <2>1, <2>2, <2>3, <2>4, <2>5, NewRowInv
<1> QED
  BY <1>2, <1>3

\* A refund finds its original.
LEMMA LookupInv ==
    ASSUME IInv, NEW c \in Calls, Lookup(c)
    PROVE  IInv'
<1> USE DEF IInv
<1>1. CASE rows[op[c].payment] = None
  BY <1>1, ErrorInv DEF Lookup
<1>2. CASE rows[op[c].payment] # None
  <2>1. TypeOK'
    BY <1>2 DEF Lookup, Goto, TypeOK, Active
  <2>2. \A d \in Calls : CallInv(d)' /\ RowInv(d)'
    BY <1>2 DEF Lookup, Goto, TypeOK, CallInv, RowInv
  <2>3. OneRowPerKey' /\ AnswersBacked'
    BY <1>2 DEF Lookup, OneRowPerKey, AnswersBacked, Backed
  <2> QED
    BY <2>1, <2>2, <2>3
<1> QED
  BY <1>1, <1>2

\* The refund row and the mark on the original.
LEMMA CommitRefundInv ==
    ASSUME IInv, NEW c \in Calls, CommitRefund(c)
    PROVE  IInv'
<1>1. /\ TypeOK /\ rows[c] = None /\ rows[op[c].payment] # None
      /\ op[c] \in [kind : {"refund"}, key : Keys, payment : Calls]
  BY DEF CommitRefund, IInv, CallInv, TypeOK, Ops
<1>2. CASE KeyIsStored(op[c].key)
  BY <1>2, ErrorInv DEF CommitRefund
<1>3. CASE ~KeyIsStored(op[c].key)
  <2>1. /\ rows' = RefundRows(c)
        /\ result' = [result EXCEPT ![c] = "REFUNDED"]
        /\ Goto(c, "remember")
        /\ UNCHANGED <<op, reply, cache, failRate, restarts>>
    BY <1>3 DEF CommitRefund
  <2> DEFINE new == [key |-> op[c].key, kind |-> "refund",
                     of |-> op[c].payment, status |-> "REFUNDED"]
             orig == op[c].payment
  <2>2. /\ rows' \in [Calls -> Row \cup {None}] /\ orig # c /\ orig \in Calls
        /\ rows'[c] = new
        /\ rows'[orig] = [rows[orig] EXCEPT !.status = "REFUNDED"]
        /\ \A p \in Calls \ {c, orig} : rows'[p] = rows[p]
    BY <1>1, <2>1, RefundRowsEffect
  <2>3. "REFUNDED" \in PaymentStatus /\ new \in Row /\ new # None
    BY <1>1, NoneAssumption DEF PaymentStatus, Row
  <2>4. rows[orig] \in Row
    BY <1>1 DEF TypeOK
  <2>5. rows'[orig] \in Row /\ rows'[orig].status = "REFUNDED"
    BY <2>2, <2>3, <2>4 DEF Row
  <2>6. rows'[orig] # None
    BY <2>5, NoneAssumption
  <2>7. pc[c] \in {"decide", "commit"}
    BY DEF CommitRefund
  <2>8. \A p \in Calls \ {c} :
              \/ rows'[p] = rows[p]
              \/ rows[p] # None /\ rows'[p] = [rows[p] EXCEPT !.status = "REFUNDED"]
    BY <1>1, <2>2
  <2>9. /\ rows'[c] # None /\ rows'[c].key = op[c].key /\ rows'[c].status = "REFUNDED"
        /\ rows'[c].kind = "refund" /\ rows'[c].of = orig
    BY <2>2, <2>3
  <2> QED
    BY <1>3, <2>1, <2>2, <2>3, <2>5, <2>6, <2>7, <2>8, <2>9, NewRowInv
<1> QED
  BY <1>2, <1>3

\* After the commit the response is cached and answered.
LEMMA RememberInv ==
    ASSUME IInv, NEW c \in Calls, Remember(c)
    PROVE  IInv'
<1> USE DEF IInv
<1>1. /\ rows[c] # None /\ op[c] \in Ops /\ op[c].key \in Keys /\ rows[c].key = op[c].key
      /\ result[c] \in PaymentStatus
  BY DEF Remember, CallInv, RowInv, TypeOK, Ops
<1>2. ResponseOf(c) \in Response /\ ResponseOf(c).id = c /\ ResponseOf(c).status = result[c]
  BY <1>1 DEF ResponseOf, Response
<1>3. [code |-> 200, body |-> ResponseOf(c)] \in Reply
  BY <1>2 DEF Reply
<1>4. /\ reply' \in [Calls -> Reply \cup {None}]
      /\ pc' \in [Calls -> Active \cup {"idle", "done", "dead"}]
      /\ reply'[c] = [code |-> 200, body |-> ResponseOf(c)]
      /\ \A d \in Calls \ {c} : reply'[d] = reply[d] /\ pc'[d] = pc[d]
      /\ pc'[c] = "done"
  BY <1>3, FinishEffect DEF Remember
<1>5. /\ cache' \in [Keys -> Response \cup {None}]
      /\ cache'[op[c].key] = ResponseOf(c)
      /\ \A k \in Keys \ {op[c].key} : cache'[k] = cache[k]
  BY <1>1, <1>2 DEF Remember, TypeOK
<1>6. UNCHANGED <<op, result, rows, failRate, restarts>>
  BY DEF Remember
<1>7. TypeOK'
  BY <1>4, <1>5, <1>6 DEF TypeOK
<1>8. \A d \in Calls : CallInv(d)' /\ RowInv(d)'
  BY <1>1, <1>4, <1>6, NoneAssumption DEF CallInv, RowInv
<1>9. OneRowPerKey'
  BY <1>6 DEF OneRowPerKey
<1>10. Backed(ResponseOf(c), op[c].key)
  BY <1>1, <1>2 DEF Backed
<1>11. \A body, key : Backed(body, key) => Backed(body, key)'
  BY <1>6 DEF Backed
<1>12. AnswersBacked'
  BY <1>4, <1>5, <1>6, <1>10, <1>11 DEF AnswersBacked
<1> QED
  BY <1>7, <1>8, <1>9, <1>12

\* A restart empties the cache and ends the threads; the table, and what clients
\* were told, stay.
LEMMA RestartInv ==
    ASSUME IInv, Restart
    PROVE  IInv'
<1> USE DEF IInv
<1>1. TypeOK'
  BY PaymentAssumption DEF Restart, TypeOK, Active
<1>2. \A d \in Calls : CallInv(d)' /\ RowInv(d)'
  BY DEF Restart, TypeOK, CallInv, RowInv, Active
<1>3. OneRowPerKey' /\ AnswersBacked'
  BY DEF Restart, OneRowPerKey, AnswersBacked, Backed
<1> QED
  BY <1>1, <1>2, <1>3

-----------------------------------------------------------------------------
(* The theorems *)

\* IInv holds initially and is preserved by every step.
THEOREM Invariance == Spec => []IInv
<1>1. Init => IInv
  <2> SUFFICES ASSUME Init PROVE IInv
    OBVIOUS
  <2>1. TypeOK
    BY PaymentAssumption DEF Init, TypeOK
  <2>2. (\A c \in Calls : CallInv(c) /\ RowInv(c)) /\ OneRowPerKey /\ AnswersBacked
    BY DEF Init, CallInv, RowInv, OneRowPerKey, AnswersBacked
  <2> QED
    BY <2>1, <2>2 DEF IInv
<1>2. IInv /\ [Next]_vars => IInv'
  <2> SUFFICES ASSUME IInv, [Next]_vars PROVE IInv'
    OBVIOUS
  <2>1. ASSUME NEW r \in {"zero", "some", "one"}, SetFailRate(r) PROVE IInv'
    BY <2>1 DEF SetFailRate, IInv, TypeOK, CallInv, RowInv, OneRowPerKey, AnswersBacked, Backed
  <2>2. CASE UNCHANGED vars
    BY <2>2 DEF vars, IInv, TypeOK, CallInv, RowInv, OneRowPerKey, AnswersBacked, Backed
  <2> QED
    BY <2>1, <2>2, ArriveInv, CheckCacheInv, CommitAuthorizeInv, LookupInv, CommitRefundInv,
       RememberInv, RestartInv DEF Next, CallStep
<1> QED
  BY <1>1, <1>2, PTL DEF Spec

\* The handlers' state, the table and the cache are always well typed.
THEOREM TypeCorrect == Spec => []TypeOK
  BY Invariance, PTL DEF IInv

\* Any two requests with one key that are answered 200 get the same answer,
\* through retries, races, refunds, chaos settings and restarts.
THEOREM ReplaysAlwaysAgree == Spec => []ReplaysAgree
<1>1. IInv => ReplaysAgree
  <2> SUFFICES ASSUME IInv, NEW c \in Calls, NEW d \in Calls,
                      reply[c] # None, reply[d] # None, op[c].key = op[d].key,
                      reply[c].code = 200, reply[d].code = 200
               PROVE  reply[c].body = reply[d].body
    BY DEF ReplaysAgree
  <2>1. Backed(reply[c].body, op[c].key) /\ Backed(reply[d].body, op[c].key)
    BY DEF IInv, AnswersBacked
  <2>2. reply[c].body.id = reply[d].body.id /\ reply[c].body.status = reply[d].body.status
    BY <2>1 DEF Backed, IInv, OneRowPerKey
  <2>3. reply[c].body \in Response /\ reply[d].body \in Response
    BY DEF IInv, TypeOK, Reply
  <2> QED
    BY <2>2, <2>3 DEF Response
<1> QED
  BY <1>1, Invariance, PTL

\* Every 200, and every entry of the cache, is backed by a committed row.
THEOREM AcknowledgedStaysStored == Spec => []AcknowledgedIsStored
<1>1. IInv => AcknowledgedIsStored
  <2> SUFFICES ASSUME IInv PROVE AcknowledgedIsStored
    OBVIOUS
  <2>1. \A body, key : Backed(body, key) => Explains(body.id, key, body.status)
    BY DEF IInv, Backed, Explains, RowInv
  <2> QED
    BY <2>1 DEF IInv, AnswersBacked, AcknowledgedIsStored
<1> QED
  BY <1>1, Invariance, PTL

\* No refund is half done: the refunded payment is marked for ever.
THEOREM RefundsAreWhole == Spec => []RefundMarksOriginal
<1>1. IInv => RefundMarksOriginal
  BY DEF IInv, RowInv, RefundMarksOriginal
<1> QED
  BY <1>1, Invariance, PTL
=============================================================================
