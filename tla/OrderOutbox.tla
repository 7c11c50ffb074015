----------------------------- MODULE OrderOutbox ----------------------------
(***************************************************************************)
(* services/order creating orders, the transactional outbox of             *)
(* core/outbox.py in the order database, and relay workers that publish    *)
(* outbox rows to a Redis stream.                                          *)
(*                                                                         *)
(* Calls are POST requests; the order id and the event id minted by call c *)
(* are both written c.  A relay reads a batch, publishes entry by entry,   *)
(* and writes all its row changes in one commit at the end; SQLAlchemy     *)
(* updates only the columns that the relay changed.                        *)
(***************************************************************************)
EXTENDS EventStream, FiniteSets, Functions

CONSTANTS
    Calls,       \* create requests, and the orders and events they mint
    Keys,        \* Idempotency-Key header values
    None,        \* no key, no reply, no cache entry
    Relays,      \* processes or threads that call relay_batch periodically
    BatchSize,   \* OutboxRelay.batch_size
    MaxRetries,  \* OutboxRelay.MAX_RETRIES
    MaxCrashes   \* bound on restarts and on crashes, failed commits and failed
                 \* publishes of relays

ASSUME OutboxAssumption ==
    /\ None \notin Calls \cup Keys
    /\ BatchSize \in Nat \ {0} /\ MaxRetries \in Nat \ {0} /\ MaxCrashes \in Nat

VARIABLES
    key,      \* Idempotency-Key of call c
    pc,       \* where its thread stands
    reply,    \* the answer of call c: an order id, "error" or None
    cache,    \* idem_store of the order service
    orders,   \* ids in the orders table, with their keys
    outbox,   \* outbox_events in id order
    batch,    \* entries the relay has yet to publish
    changed,  \* uncommitted column changes of the relay's session
    crashes

orderVars == <<key, pc, reply, cache, orders>>
relayVars == <<batch, changed>>
outboxVars == <<key, pc, reply, cache, orders, outbox, batch, changed, stream, crashes>>

OutboxStatus == {"PENDING", "PUBLISHED", "FAILED"}
Entry == [event : Calls, status : OutboxStatus, retries : 0..MaxRetries]
\* An entry as the relay's session read it, and what the relay did with it.
Read == [pos : Nat, retries : 0..MaxRetries]
Change == [pos : Nat, ok : BOOLEAN, retries : 0..MaxRetries]

OutboxTypeOK ==
    /\ key \in [Calls -> Keys \cup {None}]
    /\ pc \in [Calls -> {"idle", "cache", "commit", "remember", "done", "dead"}]
    /\ reply \in [Calls -> Calls \cup {None, "error"}]
    /\ cache \in [Keys -> Calls \cup {None}]
    /\ orders \in [Calls -> Keys \cup {None}]
    /\ outbox \in Seq(Entry)
    /\ batch \in [Relays -> SUBSET Read]
    /\ changed \in [Relays -> SUBSET Change]
    /\ stream \in Seq(Calls)
    /\ crashes \in 0..MaxCrashes

OutboxInit ==
    /\ key = [c \in Calls |-> None]
    /\ pc = [c \in Calls |-> "idle"]
    /\ reply = [c \in Calls |-> None]
    /\ cache = [k \in Keys |-> None]
    /\ orders = [c \in Calls |-> None]
    /\ outbox = <<>>
    /\ batch = [r \in Relays |-> {}]
    /\ changed = [r \in Relays |-> {}]
    /\ stream = <<>>
    /\ crashes = 0

-----------------------------------------------------------------------------
(* create_order and create_order_legacy *)

Goto(c, point) == pc' = [pc EXCEPT ![c] = point]

Arrive(c, k) ==
    /\ pc[c] = "idle"
    /\ key' = [key EXCEPT ![c] = k]
    /\ Goto(c, "cache")
    /\ UNCHANGED <<reply, cache, orders, outbox, batch, changed, stream, crashes>>

CheckCache(c) ==
    /\ pc[c] = "cache"
    /\ IF cache[key[c]] # None
         THEN reply' = [reply EXCEPT ![c] = cache[key[c]]] /\ Goto(c, "done")
         ELSE Goto(c, "commit") /\ UNCHANGED reply
    /\ UNCHANGED <<key, cache, orders, outbox, batch, changed, stream, crashes>>

\* The unique index on orders.idempotency_key.
KeyIsStored(k) == \E c \in Calls : orders[c] = k

\* Mutant: the event row is inserted even when the order row is rejected.
OutboxRowAlways(c, accepted) ==
    outbox' = Append(outbox, [event |-> c, status |-> "PENDING", retries |-> 0])
\* write_outbox_event in the transaction of the order row.
OutboxRow(c, accepted) ==
    outbox' = IF accepted
                THEN Append(outbox, [event |-> c, status |-> "PENDING", retries |-> 0])
                ELSE outbox

\* Order row and outbox row commit together, or the key raises.
CommitOrder(c) ==
    /\ pc[c] = "commit"
    /\ IF KeyIsStored(key[c])
         THEN /\ reply' = [reply EXCEPT ![c] = "error"]
              /\ Goto(c, "done")
              /\ UNCHANGED orders
         ELSE /\ orders' = [orders EXCEPT ![c] = key[c]]
              /\ Goto(c, "remember")
              /\ UNCHANGED reply
    /\ OutboxRow(c, ~KeyIsStored(key[c]))
    /\ UNCHANGED <<key, cache, batch, changed, stream, crashes>>

Remember(c) ==
    /\ pc[c] = "remember"
    /\ cache' = [cache EXCEPT ![key[c]] = c]
    /\ reply' = [reply EXCEPT ![c] = c]
    /\ Goto(c, "done")
    /\ UNCHANGED <<key, orders, outbox, batch, changed, stream, crashes>>

Restart ==
    /\ crashes < MaxCrashes
    /\ crashes' = crashes + 1
    /\ pc' = [c \in Calls |->
                IF pc[c] \in {"cache", "commit", "remember"} THEN "dead" ELSE pc[c]]
    /\ cache' = [k \in Keys |-> None]
    /\ UNCHANGED <<key, reply, orders, outbox, batch, changed, stream>>

-----------------------------------------------------------------------------
(* relay_batch *)

\* Mutant: only entries that were never tried are selected.
IsPendingOnce(e) == e.status = "PENDING" /\ e.retries = 0
IsPending(e) == e.status = "PENDING"

Waiting == {n \in DOMAIN outbox : IsPending(outbox[n])}
\* The first BatchSize pending entries in id order.
Pending ==
    {[pos |-> n, retries |-> outbox[n].retries] :
        n \in {n \in Waiting : Cardinality({m \in Waiting : m < n}) < BatchSize}}

\* A plain SELECT: rows that another relay is publishing are read as well.
Poll(r) ==
    /\ batch[r] = {} /\ changed[r] = {}
    /\ Pending # {}
    /\ batch' = [batch EXCEPT ![r] = Pending]
    /\ UNCHANGED <<orderVars, outbox, changed, stream, crashes>>

\* The loop takes the entries in the order of the query.
CurrentEntry(r) == CHOOSE e \in batch[r] : \A f \in batch[r] : e.pos <= f.pos
\* The change to the current entry stays in the session until the commit.
Record(r, ok, retries) ==
    /\ changed' = [changed EXCEPT ![r] =
                     @ \cup {[pos |-> CurrentEntry(r).pos, ok |-> ok, retries |-> retries]}]
    /\ batch' = [batch EXCEPT ![r] = @ \ {CurrentEntry(r)}]

\* Mutant: the entry is marked before it is published, and not published.
XaddLost(r) == stream
\* publish_sync appends the entry's event.
Xadd(r) == Append(stream, outbox[CurrentEntry(r).pos].event)

Publish(r) ==
    /\ batch[r] # {}
    /\ stream' = Xadd(r)
    /\ Record(r, TRUE, CurrentEntry(r).retries)
    /\ UNCHANGED <<orderVars, outbox, crashes>>

\* publish_sync raises: Redis is down, or it appended the event and the answer
\* was lost.
PublishRaises(r) ==
    /\ crashes < MaxCrashes /\ crashes' = crashes + 1
    /\ batch[r] # {}
    /\ stream' \in {stream, Xadd(r)}
    /\ Record(r, FALSE, CurrentEntry(r).retries + 1)
    /\ UNCHANGED <<orderVars, outbox>>

Exhausted(retries) == retries >= MaxRetries

\* The columns that an UPDATE of the relay writes.
Written(entry, change) ==
    IF change.ok THEN [entry EXCEPT !.status = "PUBLISHED"]
    ELSE [entry EXCEPT !.retries = change.retries,
                       !.status = IF Exhausted(change.retries) THEN "FAILED" ELSE @]

CommitBatch(r) ==
    /\ batch[r] = {} /\ changed[r] # {}
    /\ outbox' = [n \in DOMAIN outbox |->
                    IF \E ch \in changed[r] : ch.pos = n
                      THEN Written(outbox[n], CHOOSE ch \in changed[r] : ch.pos = n)
                      ELSE outbox[n]]
    /\ changed' = [changed EXCEPT ![r] = {}]
    /\ UNCHANGED <<orderVars, batch, stream, crashes>>

\* The relay is killed within a batch, or its commit fails: the changes are
\* rolled back, what was published stays published.
RelayFails(r) ==
    /\ crashes < MaxCrashes
    /\ batch[r] # {} \/ changed[r] # {}
    /\ crashes' = crashes + 1
    /\ batch' = [batch EXCEPT ![r] = {}]
    /\ changed' = [changed EXCEPT ![r] = {}]
    /\ UNCHANGED <<orderVars, outbox, stream>>

-----------------------------------------------------------------------------
CallStep(c) == CheckCache(c) \/ CommitOrder(c) \/ Remember(c)
RelayStep(r) == Poll(r) \/ Publish(r) \/ CommitBatch(r)
RelayFault(r) == PublishRaises(r) \/ RelayFails(r)

OutboxNext ==
    \/ \E c \in Calls : (\E k \in Keys : Arrive(c, k)) \/ CallStep(c)
    \/ \E r \in Relays : RelayStep(r) \/ RelayFault(r)
    \/ Restart

OutboxSpec == OutboxInit /\ [][OutboxNext]_outboxVars

-----------------------------------------------------------------------------
Status(c) == {outbox[n].status : n \in {m \in DOMAIN outbox : outbox[m].event = c}}

\* No dual write: an event exists, in the outbox or on the stream, exactly for
\* the orders that exist, through rejected retries and restarts.
EventIffOrder ==
    /\ \A c \in Calls : orders[c] # None <=> \E n \in DOMAIN outbox : outbox[n].event = c
    /\ \A n \in DOMAIN stream : orders[stream[n]] # None

\* "On successful publish, marks the entry PUBLISHED": the mark is never ahead
\* of the stream, whatever is rolled back.
PublishedIsOnStream ==
    \A n \in DOMAIN outbox :
        outbox[n].status = "PUBLISHED" => outbox[n].event \in Range(stream)
=============================================================================
