-------------------------- MODULE CheckoutOutcome ---------------------------
(***************************************************************************)
(* What a checkout promises, seen from the outside: the verdict a client   *)
(* reads from GET /saga/{order_id}, the money on the payment ledger and    *)
(* the goods on hold.  Threads, requests, answers and the order in which   *)
(* rows are written are not visible here.                                  *)
(*                                                                         *)
(* The promises: an order is opened once; goods are put on hold only for   *)
(* money that was taken; a confirmed checkout has both and keeps both;     *)
(* money goes back only while the checkout is being undone.  What is NOT   *)
(* promised is visible too: a cancelled checkout may still be charged late *)
(* (Charge) and may keep or even later take goods (Hold).                  *)
(***************************************************************************)
CONSTANTS Orders, Sagas, NoOrder

VARIABLES
    orderOf,  \* order of each checkout
    verdict,  \* what the saga row says
    charge,   \* what the payment ledger says
    hold      \* goods are reserved

outcome == <<orderOf, verdict, charge, hold>>

Init ==
    /\ orderOf = [s \in Sagas |-> NoOrder]
    /\ verdict = [s \in Sagas |-> "unopened"]
    /\ charge = [s \in Sagas |-> "none"]
    /\ hold = [s \in Sagas |-> FALSE]

Open(s, o) ==
    /\ verdict[s] = "unopened"
    /\ \A t \in Sagas : orderOf[t] # o
    /\ orderOf' = [orderOf EXCEPT ![s] = o]
    /\ verdict' = [verdict EXCEPT ![s] = "open"]
    /\ UNCHANGED <<charge, hold>>

\* The bank decides once, possibly after the checkout was given up.
Charge(s) ==
    /\ verdict[s] \in {"open", "cancelled"}
    /\ charge[s] = "none"
    /\ \E c \in {"charged", "declined"} : charge' = [charge EXCEPT ![s] = c]
    /\ UNCHANGED <<orderOf, verdict, hold>>

Hold(s) ==
    /\ verdict[s] \in {"open", "cancelled", "review"}
    /\ charge[s] \in {"charged", "refunded"}
    /\ ~hold[s]
    /\ hold' = [hold EXCEPT ![s] = TRUE]
    /\ UNCHANGED <<orderOf, verdict, charge>>

Refund(s) ==
    /\ verdict[s] \in {"open", "review"}
    /\ charge[s] = "charged"
    /\ charge' = [charge EXCEPT ![s] = "refunded"]
    /\ UNCHANGED <<orderOf, verdict, hold>>

Confirm(s) ==
    /\ verdict[s] = "open"
    /\ charge[s] = "charged" /\ hold[s]
    /\ verdict' = [verdict EXCEPT ![s] = "confirmed"]
    /\ UNCHANGED <<orderOf, charge, hold>>

\* Either the payment step was given up, and nothing was put on hold, or the
\* money was given back.
Cancel(s) ==
    /\ verdict[s] = "open"
    /\ ~hold[s] \/ charge[s] = "refunded"
    /\ verdict' = [verdict EXCEPT ![s] = "cancelled"]
    /\ UNCHANGED <<orderOf, charge, hold>>

Review(s) ==
    /\ verdict[s] = "open"
    /\ charge[s] \in {"charged", "refunded"}
    /\ verdict' = [verdict EXCEPT ![s] = "review"]
    /\ UNCHANGED <<orderOf, charge, hold>>

Next ==
    \E s \in Sagas :
        \/ \E o \in Orders : Open(s, o)
        \/ Charge(s)
        \/ Hold(s)
        \/ Refund(s)
        \/ Confirm(s)
        \/ Cancel(s)
        \/ Review(s)

Spec == Init /\ [][Next]_outcome
=============================================================================
