----------------------------- MODULE OrderEvents ----------------------------
(***************************************************************************)
(* From an order to a handled event: the order service with its outbox and *)
(* relays (OrderOutbox) and a consumer group of the stream they publish to *)
(* (EventConsumer).  The two share the Redis stream; the event ids on it   *)
(* are those of the outbox rows, so a row that is published twice gives    *)
(* two messages with one event id.                                         *)
(***************************************************************************)
EXTENDS OrderOutbox, EventConsumer

CONSTANT MaxFailures    \* bound on crashes and faults together

\* order.created is no type that the notifier knows.
ASSUME EventsAssumption == Calls \subseteq Events \ Notifiable

consumerVars == <<first, read, pending, taken, stage, handled, dlq, dlqFirst, seen,
                  notified, restarts, skipped, faults>>
allVars == <<outboxVars, consumerVars>>

EventsInit == OutboxInit /\ GroupInit

\* A step of the order service or a relay; what it publishes reaches the group's
\* stream, trimmed like any other XADD.
Upstream(step) ==
    /\ step
    /\ IF stream' = stream THEN UNCHANGED consumerVars
       ELSE \E e \in Calls : Produce(e)

\* A step of the consumer group.
Downstream(step) == step /\ UNCHANGED outboxVars

EventsNext ==
    /\ \/ Upstream(OutboxNext)
       \/ Downstream(\E c \in Consumers : ConsumerStep(c) \/ Fault(c))
    /\ crashes' + faults' <= MaxFailures

EventsSpec ==
    /\ EventsInit /\ [][EventsNext]_allVars
    /\ \A r \in Relays : WF_allVars(Upstream(RelayStep(r)))
    /\ \A c \in Consumers : WF_allVars(Downstream(ConsumerStep(c)))

-----------------------------------------------------------------------------
Copies(c) == {m \in DOMAIN stream : stream[m] = c}

\* Across both components: an order whose event no consumer has read yet gets it
\* handled or dead-lettered, or marked FAILED in the outbox, however relays fail,
\* publish a row twice and commit over each other, and whatever order's event is
\* ahead of it; only a fault of a consumer or trimming an unread copy prevents it.
OrdersReachAHandler ==
    \A c \in Calls, f \in 0..MaxFaults :
        (orders[c] # None /\ faults = f /\ \A m \in Copies(c) : read < m) ~>
            \/ "FAILED" \in Status(c)
            \/ \E m \in Copies(c) : Settled(m) \/ m \in skipped
            \/ faults > f

\* "at-least-once delivery guarantees": an order that was committed gets its event
\* to a handler or to the dead-letter stream, or marked FAILED for inspection.
AtLeastOnce ==
    \A c \in Calls : orders[c] # None ~>
        "FAILED" \in Status(c) \/ \E m \in Copies(c) : Settled(m)
=============================================================================
