-------------------------- MODULE OrderEventsProofs --------------------------
(***************************************************************************)
(* Proofs about OrderOutbox, EventConsumer and their composition           *)
(* OrderEvents, for any sets of requests, keys, relays, consumers and      *)
(* events, any batch sizes and stream length, and any number of retries,   *)
(* messages, crashes and faults.                                           *)
(*                                                                         *)
(* Between a relay's read and its commit the outbox is described twice: by *)
(* the rows, and by what the relays hold of them.  OutboxIInv bounds the   *)
(* second by the first: what a relay holds names a row that exists         *)
(* (BatchInv), and what it is about to mark as published is on the stream  *)
(* (ChangeInv).                                                            *)
(*                                                                         *)
(* On the other side of the stream a message is in one of four places: not *)
(* yet read, in the hands of one consumer, orphaned in the pending list,   *)
(* or acknowledged.  TakenInv says that hands do not overlap and how far   *)
(* the message in hand has got, MessageInv what is known of the others.    *)
(***************************************************************************)
EXTENDS OrderEvents, FiniteSetTheorems, WellFoundedInduction, TLAPS

\* A request that is being served has a key.
CallInv(c) == pc[c] \in {"cache", "commit", "remember"} => key[c] \in Keys

\* An entry that can still be read has retries left.
RowInv(n) == outbox[n].status = "PENDING" => outbox[n].retries < MaxRetries

BatchInv(r) == \A e \in batch[r] : e.pos \in DOMAIN outbox /\ e.retries < MaxRetries

ChangeInv(r) ==
    \A ch \in changed[r] :
        /\ ch.pos \in DOMAIN outbox
        /\ ch.ok => outbox[ch.pos].event \in Range(stream)

OutboxInv ==
    /\ \A c \in Calls : CallInv(c)
    /\ \A n \in DOMAIN outbox : RowInv(n)
    /\ \A r \in Relays : BatchInv(r) /\ ChangeInv(r)

OutboxIInv == OutboxTypeOK /\ OutboxInv /\ EventIffOrder /\ PublishedIsOnStream

-----------------------------------------------------------------------------
(* What the operators of OrderOutbox do *)

\* < on the natural numbers, as a set of pairs.
NatLess == {p \in Nat \X Nat : p[1] < p[2]}

\* < is well founded on the natural numbers.
LEMMA NatLessWellFounded == IsWellFoundedOn(NatLess, Nat)
  BY NatLessThanWellFounded, Zenon DEF OpToRel, NatLess

\* A non-empty set of natural numbers has a least element.
LEMMA NatMinimum ==
    ASSUME NEW T, T \subseteq Nat, T # {}
    PROVE  \E m \in T : \A n \in T : m <= n
<1>1. PICK m \in T : \A n \in T : <<n, m>> \notin NatLess
  BY NatLessWellFounded, WFMin, Zenon
<1>2. ASSUME NEW n \in T, n < m PROVE FALSE
  <2>1. <<n, m>> \in Nat \X Nat /\ <<n, m>>[1] = n /\ <<n, m>>[2] = m
    OBVIOUS
  <2> QED
    BY <1>1, <1>2, <2>1 DEF NatLess
<1> QED
  BY <1>2

\* The entry that a relay turns to is one of its batch.
LEMMA CurrentIsInBatch ==
    ASSUME OutboxTypeOK, NEW r \in Relays, batch[r] # {}
    PROVE  CurrentEntry(r) \in batch[r]
<1>1. batch[r] \subseteq Read
  BY DEF OutboxTypeOK
<1>2. {e.pos : e \in batch[r]} \subseteq Nat /\ {e.pos : e \in batch[r]} # {}
  BY <1>1 DEF Read
<1>3. PICK m \in {e.pos : e \in batch[r]} : \A n \in {e.pos : e \in batch[r]} : m <= n
  BY <1>2, NatMinimum
<1>4. PICK e \in batch[r] : e.pos = m
  BY <1>3
<1>5. \A f \in batch[r] : e.pos <= f.pos
  BY <1>3, <1>4
<1> QED
  BY <1>4, <1>5 DEF CurrentEntry

\* What the relay's query returns are entries that wait to be published.
LEMMA PendingAreRows ==
    ASSUME OutboxTypeOK, \A n \in DOMAIN outbox : RowInv(n)
    PROVE  /\ Pending \subseteq Read
           /\ \A e \in Pending : e.pos \in DOMAIN outbox /\ e.retries < MaxRetries
<1>1. \A n \in DOMAIN outbox : n \in Nat /\ outbox[n] \in Entry
  BY DEF OutboxTypeOK
<1>2. \A n \in Waiting : /\ n \in DOMAIN outbox /\ outbox[n].retries \in 0..MaxRetries
                         /\ outbox[n].retries < MaxRetries
  BY <1>1 DEF Waiting, IsPending, RowInv, Entry
<1>3. ASSUME NEW e \in Pending
      PROVE  e \in Read /\ e.pos \in DOMAIN outbox /\ e.retries < MaxRetries
  <2>1. PICK n \in Waiting : e = [pos |-> n, retries |-> outbox[n].retries]
    BY DEF Pending
  <2> QED
    BY <1>1, <1>2, <2>1 DEF Read
<1> QED
  BY <1>3

\* What an append to the outbox or to the stream does.
LEMMA AppendElements ==
    ASSUME NEW S, NEW s \in Seq(S), NEW e \in S
    PROVE  /\ Append(s, e) \in Seq(S)
           /\ \A n \in DOMAIN s : n \in DOMAIN Append(s, e) /\ Append(s, e)[n] = s[n]
           /\ \A n \in DOMAIN Append(s, e) : n \in DOMAIN s \/ Append(s, e)[n] = e
           /\ \E n \in DOMAIN Append(s, e) : Append(s, e)[n] = e
<1>1. /\ Append(s, e) \in Seq(S) /\ Len(Append(s, e)) = Len(s) + 1
      /\ \A n \in 1..Len(s) : Append(s, e)[n] = s[n]
      /\ Append(s, e)[Len(s) + 1] = e
  OBVIOUS
<1>2. DOMAIN s = 1..Len(s) /\ DOMAIN Append(s, e) = 1..(Len(s) + 1) /\ Len(s) \in Nat
  BY <1>1
<1>3. Len(s) + 1 \in DOMAIN Append(s, e)
  BY <1>2
<1> QED
  BY <1>1, <1>2, <1>3

\* Appending to the stream loses nothing of it.
LEMMA AppendRange ==
    ASSUME NEW S, NEW s \in Seq(S), NEW e \in S
    PROVE  Range(Append(s, e)) = Range(s) \cup {e}
<1>1. /\ \A n \in DOMAIN s : n \in DOMAIN Append(s, e) /\ Append(s, e)[n] = s[n]
      /\ \A n \in DOMAIN Append(s, e) : n \in DOMAIN s \/ Append(s, e)[n] = e
      /\ \E n \in DOMAIN Append(s, e) : Append(s, e)[n] = e
  BY AppendElements
<1> QED
  BY <1>1 DEF Range

\* An UPDATE of a relay keeps the event of its row, marks it published only for a
\* change that was published, and leaves a pending row some retries.
LEMMA WrittenEffect ==
    ASSUME NEW entry \in Entry, NEW change \in Change,
           entry.status = "PENDING" => entry.retries < MaxRetries
    PROVE  /\ Written(entry, change) \in Entry
           /\ Written(entry, change).event = entry.event
           /\ Written(entry, change).status = "PUBLISHED" =>
                 change.ok \/ entry.status = "PUBLISHED"
           /\ Written(entry, change).status = "PENDING" =>
                 Written(entry, change).retries < MaxRetries
<1>1. CASE change.ok
  <2>1. Written(entry, change) = [entry EXCEPT !.status = "PUBLISHED"]
    BY <1>1 DEF Written
  <2> QED
    BY <1>1, <2>1 DEF Entry, OutboxStatus
<1>2. CASE ~change.ok
  <2> DEFINE status == IF Exhausted(change.retries) THEN "FAILED" ELSE entry.status
  <2>1. Written(entry, change) = [entry EXCEPT !.retries = change.retries, !.status = status]
    BY <1>2 DEF Written, Entry
  <2>2. change.retries \in 0..MaxRetries /\ status \in OutboxStatus
    BY DEF Change, Entry, OutboxStatus
  <2>3. /\ status = "PUBLISHED" => entry.status = "PUBLISHED"
        /\ status = "PENDING" => change.retries < MaxRetries
    BY <2>2, OutboxAssumption DEF Exhausted
  <2> HIDE DEF status
  <2> QED
    BY <2>1, <2>2, <2>3 DEF Entry
<1> QED
  BY <1>1, <1>2

-----------------------------------------------------------------------------
(* Every action of the order service preserves OutboxIInv *)

\* A step of a request before or after its transaction.
LEMMA CallStepInv ==
    ASSUME OutboxIInv, OutboxTypeOK', \A c \in Calls : CallInv(c)',
           UNCHANGED <<orders, outbox, batch, changed, stream>>
    PROVE  OutboxIInv'
  BY DEF OutboxIInv, OutboxInv, RowInv, BatchInv, ChangeInv, EventIffOrder, PublishedIsOnStream

\* The order row and the outbox row are inserted together or not at all.
LEMMA CommitOrderInv ==
    ASSUME OutboxIInv, NEW c \in Calls, CommitOrder(c)
    PROVE  OutboxIInv'
<1> USE DEF OutboxIInv, OutboxInv
<1>1. key[c] \in Keys
  BY DEF CommitOrder, CallInv
<1>2. CASE KeyIsStored(key[c])
  <2>1. UNCHANGED <<orders, outbox, batch, changed, stream>>
    BY <1>2 DEF CommitOrder, OutboxRow
  <2>2. OutboxTypeOK'
    BY <1>2, <2>1 DEF CommitOrder, OutboxTypeOK, Goto
  <2>3. \A d \in Calls : CallInv(d)'
    BY <1>2 DEF CommitOrder, OutboxTypeOK, Goto, CallInv
  <2> QED
    BY <2>1, <2>2, <2>3, CallStepInv
<1>3. CASE ~KeyIsStored(key[c])
  <2> DEFINE row == [event |-> c, status |-> "PENDING", retries |-> 0]
  <2>1. /\ orders' = [orders EXCEPT ![c] = key[c]] /\ Goto(c, "remember")
        /\ outbox' = Append(outbox, row)
        /\ UNCHANGED <<key, reply, cache, batch, changed, stream, crashes>>
    BY <1>3 DEF CommitOrder, OutboxRow
  <2>2. row \in Entry
    BY OutboxAssumption DEF Entry, OutboxStatus
  <2>3. /\ outbox' \in Seq(Entry)
        /\ \A n \in DOMAIN outbox : n \in DOMAIN outbox' /\ outbox'[n] = outbox[n]
        /\ \A n \in DOMAIN outbox' : n \in DOMAIN outbox \/ outbox'[n] = row
        /\ \E n \in DOMAIN outbox' : outbox'[n] = row
    <3>1. outbox \in Seq(Entry)
      BY DEF OutboxTypeOK
    <3> HIDE DEF row
    <3> QED
      BY <2>1, <2>2, <3>1, AppendElements
  <2>4. OutboxTypeOK'
    BY <1>1, <2>1, <2>3 DEF OutboxTypeOK, Goto
  <2>5. \A d \in Calls : CallInv(d)'
    BY <1>1, <2>1 DEF CallInv, Goto, OutboxTypeOK
  <2>6. \A n \in DOMAIN outbox' : RowInv(n)'
    BY <2>3, OutboxAssumption DEF RowInv
  <2>7. \A r \in Relays : BatchInv(r)' /\ ChangeInv(r)'
    BY <2>1, <2>3 DEF BatchInv, ChangeInv
  <2>8. \A d \in Calls : orders'[d] # None <=> d = c \/ orders[d] # None
    BY <1>1, <2>1, OutboxAssumption DEF OutboxTypeOK
  <2>9. EventIffOrder'
    <3>1. \A d \in Calls : orders'[d] # None <=> \E n \in DOMAIN outbox' : outbox'[n].event = d
      BY <2>3, <2>8 DEF EventIffOrder
    <3>2. \A n \in DOMAIN stream : stream[n] \in Calls
      BY DEF OutboxTypeOK
    <3> QED
      BY <2>1, <2>8, <3>1, <3>2 DEF EventIffOrder
  <2>10. PublishedIsOnStream'
    BY <2>1, <2>3 DEF PublishedIsOnStream
  <2> QED
    BY <2>4, <2>5, <2>6, <2>7, <2>9, <2>10
<1> QED
  BY <1>2, <1>3

\* Every step of a request, and a restart of the order service.
LEMMA OrderServiceInv ==
    ASSUME OutboxIInv, \/ \E c \in Calls : (\E k \in Keys : Arrive(c, k)) \/ CallStep(c)
                 \/ Restart
    PROVE  OutboxIInv'
<1>1. ASSUME NEW c \in Calls, NEW k \in Keys, Arrive(c, k) PROVE OutboxIInv'
  <2>1. OutboxTypeOK' /\ (\A d \in Calls : CallInv(d)')
    BY <1>1 DEF Arrive, OutboxIInv, OutboxInv, OutboxTypeOK, Goto, CallInv
  <2> QED
    BY <1>1, <2>1, CallStepInv DEF Arrive
<1>2. ASSUME NEW c \in Calls, CheckCache(c) PROVE OutboxIInv'
  <2>1. key[c] \in Keys
    BY <1>2 DEF CheckCache, OutboxIInv, OutboxInv, CallInv
  <2>2. OutboxTypeOK' /\ (\A d \in Calls : CallInv(d)')
    BY <1>2, <2>1 DEF CheckCache, OutboxIInv, OutboxInv, OutboxTypeOK, Goto, CallInv
  <2> QED
    BY <1>2, <2>2, CallStepInv DEF CheckCache
<1>3. ASSUME NEW c \in Calls, Remember(c) PROVE OutboxIInv'
  <2>1. key[c] \in Keys
    BY <1>3 DEF Remember, OutboxIInv, OutboxInv, CallInv
  <2>2. OutboxTypeOK' /\ (\A d \in Calls : CallInv(d)')
    BY <1>3, <2>1 DEF Remember, OutboxIInv, OutboxInv, OutboxTypeOK, Goto, CallInv
  <2> QED
    BY <1>3, <2>2, CallStepInv DEF Remember
<1>4. ASSUME Restart PROVE OutboxIInv'
  <2>1. OutboxTypeOK' /\ (\A d \in Calls : CallInv(d)')
    BY <1>4, OutboxAssumption DEF Restart, OutboxIInv, OutboxInv, OutboxTypeOK, CallInv
  <2> QED
    BY <1>4, <2>1, CallStepInv DEF Restart
<1> QED
  BY <1>1, <1>2, <1>3, <1>4, CommitOrderInv DEF CallStep

-----------------------------------------------------------------------------
(* Every action of a relay preserves OutboxIInv *)

\* A SELECT of a batch.
LEMMA PollInv ==
    ASSUME OutboxIInv, NEW r \in Relays, Poll(r)
    PROVE  OutboxIInv'
<1> USE DEF OutboxIInv, OutboxInv
<1>1. /\ Pending \subseteq Read
      /\ \A e \in Pending : e.pos \in DOMAIN outbox /\ e.retries < MaxRetries
  BY PendingAreRows
<1>2. OutboxTypeOK'
  BY <1>1 DEF Poll, OutboxTypeOK, orderVars
<1>3. \A q \in Relays : BatchInv(q)' /\ ChangeInv(q)'
  BY <1>1 DEF Poll, OutboxTypeOK, BatchInv, ChangeInv
<1>4. UNCHANGED <<orderVars, outbox, stream>>
  BY DEF Poll
<1> QED
  BY <1>2, <1>3, <1>4 DEF CallInv, RowInv, EventIffOrder, PublishedIsOnStream, orderVars

\* An XADD, whatever the relay learns of it, of a row of the outbox.
LEMMA StreamGrows ==
    ASSUME OutboxIInv, NEW n \in DOMAIN outbox, UNCHANGED <<orderVars, outbox>>,
           stream' \in {stream, Append(stream, outbox[n].event)}
    PROVE  /\ stream' \in Seq(Calls) /\ Range(stream) \subseteq Range(stream')
           /\ stream' = Append(stream, outbox[n].event) => outbox[n].event \in Range(stream')
           /\ EventIffOrder' /\ PublishedIsOnStream'
<1> USE DEF OutboxIInv, OutboxInv
<1>1. outbox[n].event \in Calls /\ stream \in Seq(Calls)
  <2>1. outbox[n] \in Entry /\ stream \in Seq(Calls)
    BY DEF OutboxTypeOK
  <2> QED
    BY <2>1 DEF Entry
<1>2. /\ stream' \in Seq(Calls) /\ Range(stream) \subseteq Range(stream')
      /\ stream' = Append(stream, outbox[n].event) => outbox[n].event \in Range(stream')
      /\ Range(stream') \subseteq Range(stream) \cup {outbox[n].event}
  <2>1. /\ Append(stream, outbox[n].event) \in Seq(Calls)
        /\ Range(Append(stream, outbox[n].event)) = Range(stream) \cup {outbox[n].event}
    BY <1>1, AppendElements, AppendRange
  <2>2. CASE stream' = stream
    BY <1>1, <2>1, <2>2
  <2>3. CASE stream' = Append(stream, outbox[n].event)
    BY <2>1, <2>3
  <2> QED
    BY <2>2, <2>3
<1>3. orders[outbox[n].event] # None
  BY <1>1 DEF EventIffOrder
<1>4. \A e \in Range(stream) : orders[e] # None
  BY DEF EventIffOrder, Range
<1>5. \A m \in DOMAIN stream' : stream'[m] \in Range(stream')
  BY DEF Range
<1>6. EventIffOrder'
  BY <1>2, <1>3, <1>4, <1>5 DEF EventIffOrder, orderVars
<1>7. PublishedIsOnStream'
  BY <1>2 DEF PublishedIsOnStream
<1> QED
  BY <1>2, <1>6, <1>7

\* One turn of the relay's loop: the change is recorded after the XADD.
LEMMA TurnInv ==
    ASSUME OutboxIInv, NEW r \in Relays, batch[r] # {}, NEW ok \in BOOLEAN,
           NEW retries \in 0..MaxRetries, Record(r, ok, retries),
           stream' \in {stream, Xadd(r)}, ok => stream' = Xadd(r),
           crashes' \in 0..MaxCrashes, UNCHANGED <<orderVars, outbox>>
    PROVE  OutboxIInv'
<1> USE DEF OutboxIInv, OutboxInv
<1>1. PICK cur \in batch[r] : cur = CurrentEntry(r)
  BY CurrentIsInBatch
<1>2. cur \in Read /\ cur.pos \in DOMAIN outbox /\ cur.pos \in Nat
  BY DEF OutboxTypeOK, BatchInv, Read
<1>3. Xadd(r) = Append(stream, outbox[cur.pos].event)
  BY <1>1 DEF Xadd
<1>4. /\ stream' \in Seq(Calls) /\ Range(stream) \subseteq Range(stream')
      /\ stream' = Xadd(r) => outbox[cur.pos].event \in Range(stream')
      /\ EventIffOrder' /\ PublishedIsOnStream'
  BY <1>2, <1>3, StreamGrows
<1> DEFINE new == [pos |-> cur.pos, ok |-> ok, retries |-> retries]
<1>5. new \in Change
  BY <1>2 DEF Change
<1>6. /\ changed' = [changed EXCEPT ![r] = @ \cup {new}]
      /\ batch' = [batch EXCEPT ![r] = @ \ {cur}]
  BY <1>1 DEF Record
<1>7. OutboxTypeOK'
  BY <1>4, <1>5, <1>6 DEF OutboxTypeOK, orderVars
<1>8. \A q \in Relays : BatchInv(q)'
  BY <1>6 DEF OutboxTypeOK, BatchInv
<1>9. \A q \in Relays : ChangeInv(q)'
  <2> SUFFICES ASSUME NEW q \in Relays, NEW ch \in changed'[q]
               PROVE  /\ ch.pos \in DOMAIN outbox
                      /\ ch.ok => outbox[ch.pos].event \in Range(stream')
    BY DEF ChangeInv
  <2>1. CASE ch \in changed[q]
    BY <1>4, <2>1 DEF ChangeInv
  <2>2. CASE ch = new
    BY <1>2, <1>4, <2>2
  <2> QED
    BY <1>6, <2>1, <2>2 DEF OutboxTypeOK
<1>10. (\A c \in Calls : CallInv(c)') /\ (\A n \in DOMAIN outbox' : RowInv(n)')
  BY DEF CallInv, RowInv, orderVars
<1> QED
  BY <1>4, <1>7, <1>8, <1>9, <1>10

\* publish_sync returns or raises.
LEMMA PublishInv ==
    ASSUME OutboxIInv, NEW r \in Relays, Publish(r) \/ PublishRaises(r)
    PROVE  OutboxIInv'
<1>1. CurrentEntry(r) \in batch[r]
  BY CurrentIsInBatch DEF OutboxIInv, Publish, PublishRaises
<1>2. CurrentEntry(r) \in Read /\ CurrentEntry(r).retries < MaxRetries
  BY <1>1 DEF OutboxIInv, OutboxInv, OutboxTypeOK, BatchInv
<1>3. CurrentEntry(r).retries \in 0..MaxRetries /\ CurrentEntry(r).retries + 1 \in 0..MaxRetries
  BY <1>2, OutboxAssumption DEF Read
<1>4. CASE Publish(r)
  <2>1. crashes' \in 0..MaxCrashes
    BY <1>4 DEF Publish, OutboxIInv, OutboxTypeOK
  <2> QED
    BY <1>3, <1>4, <2>1, TurnInv DEF Publish
<1>5. CASE PublishRaises(r)
  <2>1. crashes' \in 0..MaxCrashes
    BY <1>5, OutboxAssumption DEF PublishRaises, OutboxIInv, OutboxTypeOK
  <2> QED
    BY <1>3, <1>5, <2>1, TurnInv DEF PublishRaises
<1> QED
  BY <1>4, <1>5

\* The commit of a batch writes what the relay recorded over rows that another
\* relay may have written meanwhile.
LEMMA CommitBatchInv ==
    ASSUME OutboxIInv, NEW r \in Relays, CommitBatch(r)
    PROVE  OutboxIInv'
<1> USE DEF OutboxIInv, OutboxInv
<1>1. /\ DOMAIN outbox' = DOMAIN outbox /\ UNCHANGED <<orderVars, batch, stream, crashes>>
      /\ changed' = [changed EXCEPT ![r] = {}]
      /\ outbox \in Seq(Entry)
  BY DEF CommitBatch, OutboxTypeOK
<1>2. ASSUME NEW n \in DOMAIN outbox
      PROVE  /\ outbox'[n] \in Entry
             /\ outbox'[n].event = outbox[n].event
             /\ RowInv(n)'
             /\ outbox'[n].status = "PUBLISHED" => outbox[n].event \in Range(stream)
  <2>1. outbox[n] \in Entry /\ RowInv(n)
        /\ (outbox[n].status = "PUBLISHED" => outbox[n].event \in Range(stream))
    BY DEF OutboxTypeOK, PublishedIsOnStream
  <2>2. CASE \E ch \in changed[r] : ch.pos = n
    <3>1. PICK ch \in changed[r] : ch.pos = n /\ outbox'[n] = Written(outbox[n], ch)
      BY <2>2 DEF CommitBatch
    <3>2. ch \in Change /\ (ch.ok => outbox[n].event \in Range(stream))
      BY <3>1 DEF OutboxTypeOK, ChangeInv
    <3> QED
      BY <2>1, <3>1, <3>2, WrittenEffect DEF RowInv
  <2>3. CASE ~\E ch \in changed[r] : ch.pos = n
    <3>1. outbox'[n] = outbox[n]
      BY <2>3 DEF CommitBatch
    <3> QED
      BY <2>1, <3>1 DEF RowInv
  <2> QED
    BY <2>2, <2>3
<1>3. outbox' \in Seq(Entry)
  <2>1. DOMAIN outbox = 1..Len(outbox) /\ Len(outbox) \in Nat
    BY <1>1
  <2>2. outbox' = [n \in 1..Len(outbox) |-> outbox'[n]]
    BY <2>1 DEF CommitBatch
  <2> QED
    BY <1>2, <2>1, <2>2
<1>4. OutboxTypeOK'
  BY <1>1, <1>3 DEF OutboxTypeOK, orderVars
<1>5. \A q \in Relays : BatchInv(q)' /\ ChangeInv(q)'
  BY <1>1, <1>2 DEF BatchInv, ChangeInv, OutboxTypeOK
<1>6. EventIffOrder' /\ PublishedIsOnStream'
  BY <1>1, <1>2 DEF EventIffOrder, PublishedIsOnStream, orderVars
<1>7. (\A c \in Calls : CallInv(c)') /\ (\A n \in DOMAIN outbox' : RowInv(n)')
  BY <1>1, <1>2 DEF CallInv, orderVars
<1> QED
  BY <1>4, <1>5, <1>6, <1>7

\* A relay that dies forgets its batch and its changes.
LEMMA RelayFailsInv ==
    ASSUME OutboxIInv, NEW r \in Relays, RelayFails(r)
    PROVE  OutboxIInv'
<1>1. OutboxTypeOK'
  BY OutboxAssumption DEF OutboxIInv, RelayFails, OutboxTypeOK, orderVars
<1>2. \A q \in Relays : BatchInv(q)' /\ ChangeInv(q)'
  BY DEF OutboxIInv, OutboxInv, RelayFails, OutboxTypeOK, BatchInv, ChangeInv
<1>3. UNCHANGED <<orderVars, outbox, stream>>
  BY DEF RelayFails
<1> QED
  BY <1>1, <1>2, <1>3 DEF OutboxIInv, OutboxInv, CallInv, RowInv, EventIffOrder,
     PublishedIsOnStream, orderVars

-----------------------------------------------------------------------------
(* The theorems about the outbox *)

\* OutboxIInv holds initially and is preserved by every step.
THEOREM OutboxInvariance == OutboxSpec => []OutboxIInv
<1>1. OutboxInit => OutboxIInv
  <2> SUFFICES ASSUME OutboxInit PROVE OutboxIInv
    OBVIOUS
  <2>1. OutboxTypeOK
    BY OutboxAssumption DEF OutboxInit, OutboxTypeOK
  <2>2. OutboxInv
    BY DEF OutboxInit, OutboxInv, CallInv, RowInv, BatchInv, ChangeInv
  <2>3. EventIffOrder /\ PublishedIsOnStream
    BY DEF OutboxInit, EventIffOrder, PublishedIsOnStream
  <2> QED
    BY <2>1, <2>2, <2>3 DEF OutboxIInv
<1>2. OutboxIInv /\ [OutboxNext]_outboxVars => OutboxIInv'
  <2> SUFFICES ASSUME OutboxIInv, [OutboxNext]_outboxVars PROVE OutboxIInv'
    OBVIOUS
  <2>1. CASE UNCHANGED outboxVars
    BY <2>1 DEF outboxVars, OutboxIInv, OutboxTypeOK, OutboxInv, CallInv, RowInv, BatchInv,
       ChangeInv, EventIffOrder, PublishedIsOnStream
  <2> QED
    BY <2>1, OrderServiceInv, PollInv, PublishInv, CommitBatchInv, RelayFailsInv
       DEF OutboxNext, RelayStep, RelayFault
<1> QED
  BY <1>1, <1>2, PTL DEF OutboxSpec

\* The tables, the stream and the relays' sessions are always well typed.
THEOREM OutboxTypeCorrect == OutboxSpec => []OutboxTypeOK
  BY OutboxInvariance, PTL DEF OutboxIInv

\* An event exists, in the outbox or on the stream, exactly for the orders that
\* exist.
THEOREM NoDualWrite == OutboxSpec => []EventIffOrder
  BY OutboxInvariance, PTL DEF OutboxIInv

\* What the outbox calls published is on the stream, with any number of relays
\* that publish the same rows, fail, and commit over each other.
THEOREM PublishedMeansPublished == OutboxSpec => []PublishedIsOnStream
  BY OutboxInvariance, PTL DEF OutboxIInv

-----------------------------------------------------------------------------
(* The consumer group: what is in the hands of consumers and what is not *)

\* The messages in the hands of a consumer: read, not handled yet unless the
\* consumer is past the handler with the first of them, and nobody else's.
TakenRead ==
    \A c \in Consumers : \A j \in DOMAIN taken[c] :
        /\ taken[c][j] \in 1..read
        /\ handled[taken[c][j]] = 0 \/ (j = 1 /\ stage[c] # "handle")

HandsDisjoint ==
    \A c, d \in Consumers : \A j \in DOMAIN taken[c], k \in DOMAIN taken[d] :
        taken[c][j] = taken[d][k] => c = d /\ j = k

StageInv ==
    \A c \in Consumers :
        /\ At(c, "ack") => handled[Current(c)] > 0
        /\ At(c, "deadack") => Current(c) \in Range(dlq)

TakenInv ==
    /\ \A c \in Consumers : Len(taken[c]) <= ConsumerBatch
    /\ TakenRead /\ HandsDisjoint /\ StageInv

\* No message is handled before it is read, nor twice; both streams are trimmed to
\* max_stream_len and not below.
MessageInv ==
    /\ \A m \in Messages : handled[m] <= 1 /\ (handled[m] > 0 => m <= read)
    /\ first = 1 \/ first + MaxLen <= len + 1
    /\ dlqFirst = 1 \/ dlqFirst + MaxLen <= Len(dlq) + 1

\* A message is acknowledged after it was handled or dead-lettered, and is skipped
\* only by a group that is far behind.
AckInv ==
    /\ \A m \in 1..read : m \notin pending => Settled(m) \/ m \in skipped
    /\ \A m \in skipped : m + MaxLen <= len

NotifierInv ==
    \A e \in Events :
        /\ IsFiniteSet({c \in Consumers : e \in seen[c]})
        /\ notified[e] <= Cardinality({c \in Consumers : e \in seen[c]}) + restarts

Lost == {m \in 1..read : Orphaned(m) /\ ~Settled(m)}

GroupIInv ==
    /\ GroupTypeOK /\ TakenInv /\ MessageInv
    /\ AckInv /\ LossIsBounded /\ NotifierInv

-----------------------------------------------------------------------------
(* What the operators of EventConsumer do *)

\* The messages of a batch before and after its first one is done with.
LEMMA TailElements ==
    ASSUME NEW S, NEW s \in Seq(S), s # <<>>
    PROVE  /\ Tail(s) \in Seq(S) /\ Len(Tail(s)) = Len(s) - 1
           /\ 1 \in DOMAIN s /\ Head(s) = s[1] /\ Head(s) \in S
           /\ \A j \in DOMAIN Tail(s) : j + 1 \in DOMAIN s /\ Tail(s)[j] = s[j + 1] /\ j \in Nat \ {0}
           /\ \A j \in DOMAIN s : j # 1 => j - 1 \in DOMAIN Tail(s) /\ Tail(s)[j - 1] = s[j]
<1>1. /\ Len(s) \in Nat \ {0} /\ DOMAIN s = 1..Len(s)
      /\ Tail(s) \in Seq(S) /\ Len(Tail(s)) = Len(s) - 1
  OBVIOUS
<1>2. \A j \in 1..(Len(s) - 1) : Tail(s)[j] = s[j + 1]
  BY <1>1
<1>3. DOMAIN Tail(s) = 1..(Len(s) - 1)
  BY <1>1
<1>4. Head(s) = s[1] /\ s[1] \in S
  BY <1>1
<1> QED
  BY <1>1, <1>2, <1>3, <1>4

\* A consumer that has a batch works on a message that was read.
LEMMA CurrentMessage ==
    ASSUME GroupTypeOK, TakenInv, NEW c \in Consumers, taken[c] # <<>>
    PROVE  /\ 1 \in DOMAIN taken[c] /\ Current(c) = taken[c][1]
           /\ Current(c) \in 1..read /\ Current(c) \in Messages
           /\ Event(c) \in Events
<1>1. taken[c] \in Seq(Messages)
  BY DEF GroupTypeOK
<1>2. 1 \in DOMAIN taken[c] /\ Current(c) = taken[c][1]
  BY <1>1, TailElements DEF Current
<1>3. Current(c) \in 1..read
  BY <1>2 DEF TakenInv, TakenRead
<1>4. Current(c) \in 1..read /\ read \in 0..len /\ len <= MaxMessages /\ len \in Nat
  <2>1. read \in 0..len /\ len <= MaxMessages
    BY DEF GroupTypeOK
  <2>2. len \in Nat
    BY DEF GroupTypeOK, len
  <2> QED
    BY <1>3, <2>1, <2>2
<1>5. Current(c) \in Messages /\ Current(c) \in 1..len
  BY <1>4, ConsumerAssumption DEF Messages
<1>6. stream[Current(c)] \in Events
  <2>1. stream \in Seq(Events) /\ Current(c) \in 1..Len(stream)
    BY <1>5 DEF GroupTypeOK, len
  <2> QED
    BY <2>1
<1> QED
  BY <1>2, <1>3, <1>4, <1>5, <1>6 DEF Event

\* handle_event notifies an event that its process does not remember and
\* remembers it; anything else changes nothing.
LEMMA HandleEventEffect ==
    ASSUME GroupTypeOK, NEW c \in Consumers, NEW e \in Events, HandleEvent(c, e)
    PROVE  /\ seen' \in [Consumers -> SUBSET Events] /\ notified' \in [Events -> Nat]
           /\ restarts' = restarts
           /\ \/ UNCHANGED <<seen, notified>>
              \/ /\ e \notin seen[c] /\ seen' = [seen EXCEPT ![c] = @ \cup {e}]
                 /\ notified' = [notified EXCEPT ![e] = @ + 1]
<1>0. restarts' = restarts
  BY DEF HandleEvent, notifier
<1>1. CASE e \in Notifiable \ seen[c]
  <2>1. /\ seen' = [seen EXCEPT ![c] = seen[c] \cup {e}]
        /\ notified' = [notified EXCEPT ![e] = notified[e] + 1]
    BY <1>1 DEF HandleEvent
  <2>2. seen \in [Consumers -> SUBSET Events] /\ notified \in [Events -> Nat]
    BY DEF GroupTypeOK
  <2>3. seen[c] \cup {e} \in SUBSET Events /\ notified[e] + 1 \in Nat
    BY <2>2
  <2>4. seen' \in [Consumers -> SUBSET Events]
    BY <2>1, <2>2, <2>3, Zenon
  <2>5. notified' \in [Events -> Nat]
    BY <2>1, <2>2, <2>3
  <2> QED
    BY <1>0, <1>1, <2>1, <2>4, <2>5
<1>2. CASE e \notin Notifiable \ seen[c]
  BY <1>0, <1>2 DEF HandleEvent, GroupTypeOK, notifier
<1> QED
  BY <1>1, <1>2

\* XREADGROUP takes the next messages from u to l, all beyond those read before,
\* and puts them in the hands of the consumer.
LEMMA ReadNewEffect ==
    ASSUME GroupTypeOK, NEW c \in Consumers, ReadNew(c)
    PROVE  \E u, l \in Nat :
              /\ u = FirstUnread /\ read < u /\ u <= l /\ l <= len /\ read' = l
              /\ taken' \in [Consumers -> Seq(Messages)]
              /\ \A d \in Consumers \ {c} : taken'[d] = taken[d] /\ stage'[d] = stage[d]
              /\ Len(taken'[c]) <= ConsumerBatch /\ stage'[c] = "handle"
              /\ \A j \in DOMAIN taken'[c] : j \in Nat /\ taken'[c][j] = u + j - 1 /\ taken'[c][j] \in u..l
              /\ \A m \in u..l : \E j \in DOMAIN taken'[c] : taken'[c][j] = m
              /\ pending' = pending \cup (u..l)
              /\ skipped' = skipped \cup ((read + 1)..(u - 1))
              /\ stage' = [stage EXCEPT ![c] = "handle"]
              /\ UNCHANGED <<stream, first, handled, dlq, dlqFirst, seen, notified, restarts,
                             faults>>
<1> DEFINE last == IF len < FirstUnread + ConsumerBatch - 1 THEN len
                   ELSE FirstUnread + ConsumerBatch - 1
           size == last - FirstUnread + 1
           new == [n \in 1..size |-> FirstUnread + n - 1]
<1>1. /\ taken' = [taken EXCEPT ![c] = new]
      /\ pending' = pending \cup (FirstUnread..last)
      /\ skipped' = skipped \cup ((read + 1)..(FirstUnread - 1))
      /\ read' = last
      /\ stage' = [stage EXCEPT ![c] = "handle"]
      /\ UNCHANGED <<stream, first, handled, dlq, dlqFirst, seen, notified, restarts, faults>>
      /\ FirstUnread <= len
  BY DEF ReadNew, notifier, deadLetters
<1>2. len \in Nat /\ read \in 0..len /\ first \in 1..(len + 1)
  BY DEF GroupTypeOK, len
<1>3. FirstUnread \in Nat /\ FirstUnread >= read + 1
  BY <1>2 DEF FirstUnread
<1>4. last \in Nat /\ FirstUnread <= last /\ last <= len /\ size \in Nat /\ size <= ConsumerBatch
  BY <1>1, <1>2, <1>3, ConsumerAssumption
<1>5. PICK u \in Nat : u = FirstUnread
  BY <1>3
<1>6. PICK l \in Nat : l = last
  BY <1>4
<1> HIDE DEF last
<1>7. len <= MaxMessages
  BY DEF GroupTypeOK
<1>8. new \in Seq(Messages) /\ Len(new) = size /\ DOMAIN new = 1..size
  <2>1. \A n \in 1..size : FirstUnread + n - 1 \in Messages
    BY <1>2, <1>3, <1>4, <1>7, ConsumerAssumption DEF Messages
  <2> QED
    BY <1>4, <2>1
<1>9. \A j \in DOMAIN new : j \in Nat /\ new[j] = u + j - 1 /\ new[j] \in u..l
  BY <1>4, <1>5, <1>6, <1>8
<1>10. \A m \in u..l : m - u + 1 \in DOMAIN new /\ new[m - u + 1] = m
  BY <1>4, <1>5, <1>6, <1>8
<1> HIDE DEF new, size
<1>11. taken' \in [Consumers -> Seq(Messages)] /\ taken'[c] = new
       /\ \A d \in Consumers \ {c} : taken'[d] = taken[d]
  BY <1>1, <1>8 DEF GroupTypeOK
<1>12. stage'[c] = "handle" /\ \A d \in Consumers \ {c} : stage'[d] = stage[d]
  BY <1>1 DEF GroupTypeOK
<1>13. read < u /\ u <= l /\ l <= len
  BY <1>2, <1>3, <1>4, <1>5, <1>6
<1> QED
  BY <1>1, <1>4, <1>5, <1>6, <1>8, <1>9, <1>10, <1>11, <1>12, <1>13

\* Trimming a stream at its n-th entry moves its oldest entry forward and leaves
\* MaxLen entries, unless nothing was ever removed.
LEMMA TrimmedEffect ==
    ASSUME NEW n \in Nat, NEW oldest \in 1..n, NEW x \in Trimmed(oldest, n),
           oldest = 1 \/ oldest + MaxLen <= n
    PROVE  x \in oldest..n /\ (x = 1 \/ x + MaxLen <= n + 1)
<1>1. PICK l \in Nat : l = MaxLen /\ l > 0
  BY ConsumerAssumption
<1>2. x \in oldest..(IF n + 1 - l > oldest THEN n + 1 - l ELSE oldest)
  BY <1>1 DEF Trimmed
<1>3. x \in Nat /\ oldest <= x /\ (x = oldest \/ x <= n + 1 - l)
  BY <1>2
<1>4. x <= n
  BY <1>1, <1>3
<1>5. x = 1 \/ x + l <= n + 1
  <2>1. CASE x = oldest
    BY <1>1, <2>1
  <2>2. CASE x <= n + 1 - l
    BY <1>1, <1>3, <2>2
  <2> QED
    BY <1>3, <2>1, <2>2
<1> QED
  BY <1>1, <1>3, <1>4, <1>5

\* send_to_dlq adds one message and trims no more than max_stream_len allows.
LEMMA DeadLetterEffect ==
    ASSUME GroupTypeOK, NEW c \in Consumers, Current(c) \in Messages, DeadLetter(c),
           dlqFirst = 1 \/ dlqFirst + MaxLen <= Len(dlq) + 1
    PROVE  /\ dlq' \in Seq(Messages) /\ dlqFirst' \in 1..(Len(dlq') + 1)
           /\ Range(dlq') = Range(dlq) \cup {Current(c)}
           /\ dlqFirst' = 1 \/ dlqFirst' + MaxLen <= Len(dlq') + 1
<1>1. dlq \in Seq(Messages) /\ dlq' = Append(dlq, Current(c)) /\ Len(dlq) \in Nat
  BY DEF GroupTypeOK, DeadLetter
<1>2. dlq' \in Seq(Messages) /\ Len(dlq') = Len(dlq) + 1
  BY <1>1
<1>3. Range(dlq') = Range(dlq) \cup {Current(c)}
  BY <1>1, AppendRange
<1>4. PICK n \in Nat : n = Len(dlq) + 1
  BY <1>1
<1>5. dlqFirst \in 1..n /\ dlqFirst' \in Trimmed(dlqFirst, n)
  BY <1>4 DEF GroupTypeOK, DeadLetter
<1>6. dlqFirst' \in dlqFirst..n /\ (dlqFirst' = 1 \/ dlqFirst' + MaxLen <= n + 1)
  BY <1>4, <1>5, TrimmedEffect
<1> QED
  BY <1>2, <1>3, <1>4, <1>5, <1>6

-----------------------------------------------------------------------------
(* Type correctness *)

\* The initial state is well typed.
LEMMA InitType == GroupInit => GroupTypeOK
  BY ConsumerAssumption DEF GroupInit, GroupTypeOK, len, Messages

\* Every step keeps the variables well typed.
LEMMA NextType ==
    ASSUME GroupTypeOK, TakenInv, MessageInv, [GroupNext]_groupVars
    PROVE  GroupTypeOK'
<1>1. ASSUME NEW e \in Events, Produce(e) PROVE GroupTypeOK'
  <2>1. /\ stream' \in Seq(Events) /\ len' = len + 1 /\ len \in Nat
        /\ len' <= MaxMessages
    BY <1>1, ConsumerAssumption DEF Produce, GroupTypeOK, len
  <2>2. first' \in 1..(len' + 1)
    <3>1. PICK n \in Nat : n = len + 1
      BY <2>1
    <3>2. first \in 1..n /\ first' \in Trimmed(first, n) /\ (first = 1 \/ first + MaxLen <= n)
      BY <1>1, <3>1 DEF Produce, GroupTypeOK, MessageInv
    <3>3. first' \in first..n
      BY <3>2, TrimmedEffect
    <3> QED
      BY <2>1, <3>1, <3>2, <3>3
  <2>3. read' \in 0..len'
    BY <1>1, <2>1 DEF Produce, GroupTypeOK
  <2> QED
    BY <1>1, <2>1, <2>2, <2>3 DEF Produce, GroupTypeOK, notifier, deadLetters
<1>2. ASSUME NEW c \in Consumers, ReadNew(c) PROVE GroupTypeOK'
  <2>1. PICK u, l \in Nat :
           /\ read < u /\ u <= l /\ l <= len /\ read' = l
           /\ taken' \in [Consumers -> Seq(Messages)]
           /\ pending' = pending \cup (u..l)
           /\ skipped' = skipped \cup ((read + 1)..(u - 1))
           /\ stage' = [stage EXCEPT ![c] = "handle"]
           /\ UNCHANGED <<stream, first, handled, dlq, dlqFirst, seen, notified, restarts, faults>>
    BY <1>2, ReadNewEffect
  <2>2. len \in Nat /\ read \in 0..len /\ len' = len
    BY <2>1 DEF GroupTypeOK, len
  <2>3. pending' \subseteq 1..read' /\ skipped' \subseteq 1..read'
    BY <2>1, <2>2 DEF GroupTypeOK
  <2> QED
    BY <2>1, <2>2, <2>3 DEF GroupTypeOK
<1>3. ASSUME NEW c \in Consumers, HandlerReturns(c) PROVE GroupTypeOK'
  <2>1. Event(c) \in Events /\ Current(c) \in Messages
    BY <1>3, CurrentMessage DEF HandlerReturns, At
  <2>2. handled' \in [Messages -> Nat]
    BY <1>3, <2>1 DEF HandlerReturns, GroupTypeOK
  <2>3. /\ seen' \in [Consumers -> SUBSET Events] /\ notified' \in [Events -> Nat]
        /\ restarts' = restarts
    BY <1>3, <2>1, HandleEventEffect DEF HandlerReturns
  <2> QED
    BY <1>3, <2>2, <2>3 DEF HandlerReturns, ToStage, GroupTypeOK, len, deadLetters
<1>4. ASSUME NEW c \in Consumers, HandlerRaises(c) \/ AckRaises(c) PROVE GroupTypeOK'
  <2>1. /\ stage' = [stage EXCEPT ![c] = "dead"] /\ pending' \subseteq pending
        /\ UNCHANGED <<stream, first, read, taken, handled, dlq, dlqFirst, seen, notified,
                       restarts, skipped>>
    BY <1>4 DEF HandlerRaises, AckRaises, AckUnsure, AfterError, ToStage, notifier, deadLetters
  <2>2. faults' \in 0..MaxFaults
    BY <1>4, ConsumerAssumption DEF HandlerRaises, AckRaises, GroupTypeOK
  <2> QED
    BY <2>1, <2>2 DEF GroupTypeOK, len
<1>5. ASSUME NEW c \in Consumers, Ack(c) PROVE GroupTypeOK'
  <2>1. Tail(taken[c]) \in Seq(Messages)
    BY <1>5, TailElements DEF Ack, At, GroupTypeOK
  <2> QED
    BY <1>5, <2>1 DEF Ack, Acknowledge, ToStage, GroupTypeOK, len, notifier, deadLetters
<1>6. ASSUME NEW c \in Consumers, DeadLetter(c), taken[c] # <<>>
      PROVE  dlq' \in Seq(Messages) /\ dlqFirst' \in 1..(Len(dlq') + 1)
  <2>1. Current(c) \in Messages
    BY <1>6, CurrentMessage
  <2> QED
    BY <1>6, <2>1, DeadLetterEffect DEF MessageInv
<1>7. ASSUME NEW c \in Consumers, SendToDlq(c) PROVE GroupTypeOK'
  <2>1. dlq' \in Seq(Messages) /\ dlqFirst' \in 1..(Len(dlq') + 1)
    BY <1>6, <1>7 DEF SendToDlq, At
  <2>2. stage' \in [Consumers -> {"handle", "ack", "dead", "deadack"}]
    BY <1>7 DEF SendToDlq, ToStage, GroupTypeOK
  <2>3. UNCHANGED <<stream, first, read, pending, taken, handled, seen, notified, restarts, skipped,
                    faults>>
    BY <1>7 DEF SendToDlq, notifier
  <2> QED
    BY <2>1, <2>2, <2>3 DEF GroupTypeOK, len
<1>8. ASSUME NEW c \in Consumers, ErrorPathRaises(c) \/ CrashConsumer(c) PROVE GroupTypeOK'
  <2>1. /\ taken' = [taken EXCEPT ![c] = <<>>] /\ stage' = [stage EXCEPT ![c] = "handle"]
        /\ seen' = seen \/ seen' = [seen EXCEPT ![c] = {}]
        /\ restarts' = restarts \/ restarts' = restarts + 1
        /\ pending' \subseteq pending
        /\ UNCHANGED <<stream, first, read, handled, notified, skipped>>
    BY <1>8 DEF ErrorPathRaises, CrashConsumer, AckUnsure, ToStage, notifier
  <2>2. faults' \in 0..MaxFaults
    BY <1>8, ConsumerAssumption DEF ErrorPathRaises, CrashConsumer, GroupTypeOK
  <2>3. taken' \in [Consumers -> Seq(Messages)] /\ seen' \in [Consumers -> SUBSET Events]
    <3>1. taken' \in [Consumers -> Seq(Messages)]
      <4>1. taken \in [Consumers -> Seq(Messages)] /\ <<>> \in Seq(Messages)
        BY DEF GroupTypeOK
      <4> QED
        BY <2>1, <4>1
    <3>2. seen' \in [Consumers -> SUBSET Events]
      <4>1. seen \in [Consumers -> SUBSET Events] /\ {} \in SUBSET Events
        BY DEF GroupTypeOK
      <4> QED
        BY <2>1, <4>1
    <3> QED
      BY <3>1, <3>2
  <2>4. dlq' \in Seq(Messages) /\ dlqFirst' \in 1..(Len(dlq') + 1)
    <3>1. CASE UNCHANGED deadLetters
      BY <3>1 DEF deadLetters, GroupTypeOK
    <3>2. CASE DeadLetter(c) /\ taken[c] # <<>>
      BY <1>6, <3>2
    <3> QED
      BY <1>8, <3>1, <3>2 DEF ErrorPathRaises, CrashConsumer, At
  <2>5. stage' \in [Consumers -> {"handle", "ack", "dead", "deadack"}] /\ restarts' \in Nat
    BY <2>1 DEF GroupTypeOK
  <2> QED
    BY <2>1, <2>2, <2>3, <2>4, <2>5 DEF GroupTypeOK, len
<1>9. CASE UNCHANGED groupVars
  BY <1>9 DEF groupVars, GroupTypeOK, len
<1> QED
  BY <1>1, <1>2, <1>3, <1>4, <1>5, <1>7, <1>8, <1>9 DEF GroupNext, ConsumerStep, Fault

-----------------------------------------------------------------------------
(* The messages: in hand, orphaned or acknowledged *)

Core == GroupTypeOK /\ TakenInv /\ MessageInv /\ AckInv

\* Before the first message nothing is in hand and nothing forgotten.
LEMMA InitCore == GroupInit => Core
<1> SUFFICES ASSUME GroupInit PROVE Core
  OBVIOUS
<1>1. TakenInv
  BY ConsumerAssumption DEF GroupInit, TakenInv, TakenRead, HandsDisjoint, StageInv, At
<1>2. MessageInv
  BY ConsumerAssumption DEF GroupInit, MessageInv, Messages
<1>3. AckInv
  BY DEF GroupInit, AckInv
<1> QED
  BY <1>1, <1>2, <1>3, InitType DEF Core

\* A step that leaves the batches, the handler's work and the dead-letter stream
\* alone, acknowledges at most what is settled, and moves the consumer c to the
\* error path.
LEMMA CoreQuiet ==
    ASSUME Core, GroupTypeOK', NEW c \in Consumers,
           UNCHANGED <<stream, first, read, taken, handled, dlq, dlqFirst, skipped>>,
           \A m \in pending : m \in pending' \/ Settled(m),
           stage' = [stage EXCEPT ![c] = "dead"]
    PROVE  Core'
<1> USE DEF Core
<1>1. \A d \in Consumers : stage'[d] = stage[d] \/ (d = c /\ stage'[d] = "dead")
  BY DEF GroupTypeOK
<1>2. TakenRead'
  BY <1>1 DEF TakenInv, TakenRead
<1>3. HandsDisjoint'
  BY DEF TakenInv, HandsDisjoint
<1>4. StageInv'
  BY <1>1 DEF TakenInv, StageInv, At, Current
<1>5. MessageInv' /\ AckInv'
  BY DEF MessageInv, AckInv, Settled, len
<1> QED
  BY <1>2, <1>3, <1>4, <1>5 DEF TakenInv

\* Publishing adds a message and trims no more than max_stream_len allows.
LEMMA CoreProduce ==
    ASSUME Core, GroupTypeOK', NEW e \in Events, Produce(e)
    PROVE  Core'
<1> USE DEF Core
<1>1. UNCHANGED <<read, pending, taken, stage, handled, dlq, dlqFirst, skipped>>
  BY DEF Produce, deadLetters
<1>2. /\ len \in Nat /\ len' = len + 1 /\ first \in 1..(len + 1)
      /\ first' \in Trimmed(first, len + 1)
  BY DEF Produce, GroupTypeOK, len
<1>3. TakenInv'
  BY <1>1 DEF TakenInv, TakenRead, HandsDisjoint, StageInv, At, Current
<1>4. first' = 1 \/ first' + MaxLen <= len' + 1
  <2>1. PICK n \in Nat : n = len + 1
    BY <1>2
  <2>2. first \in 1..n /\ first' \in Trimmed(first, n) /\ (first = 1 \/ first + MaxLen <= n)
    BY <1>2, <2>1 DEF MessageInv
  <2>3. first' = 1 \/ first' + MaxLen <= n + 1
    BY <2>2, TrimmedEffect
  <2> QED
    BY <1>2, <2>1, <2>3
<1>5. MessageInv'
  BY <1>1, <1>4 DEF MessageInv
<1>6. \A m \in skipped : m \in Nat /\ m + MaxLen <= len
  BY DEF AckInv, GroupTypeOK
<1>7. \A m \in skipped' : m + MaxLen <= len'
  BY <1>1, <1>2, <1>6, ConsumerAssumption
<1>8. AckInv'
  BY <1>1, <1>7 DEF AckInv, Settled
<1> QED
  BY <1>3, <1>5, <1>8

\* A read puts fresh messages in one pair of hands, and skips only messages that
\* were trimmed.
LEMMA CoreRead ==
    ASSUME Core, GroupTypeOK', NEW c \in Consumers, ReadNew(c)
    PROVE  Core'
<1> USE DEF Core
<1>1. PICK u, l \in Nat :
          /\ u = FirstUnread /\ read < u /\ u <= l /\ l <= len /\ read' = l
          /\ \A d \in Consumers \ {c} : taken'[d] = taken[d] /\ stage'[d] = stage[d]
          /\ Len(taken'[c]) <= ConsumerBatch /\ stage'[c] = "handle"
          /\ \A j \in DOMAIN taken'[c] : j \in Nat /\ taken'[c][j] = u + j - 1 /\ taken'[c][j] \in u..l
          /\ pending' = pending \cup (u..l)
          /\ skipped' = skipped \cup ((read + 1)..(u - 1))
          /\ UNCHANGED <<stream, first, handled, dlq, dlqFirst>>
  BY ReadNewEffect
<1>2. len \in Nat /\ read \in 0..len /\ len' = len /\ first \in 1..(len + 1) /\ len <= MaxMessages
  BY <1>1 DEF GroupTypeOK, len
<1>3. \A m \in u..l : m \in Messages /\ m > read /\ handled[m] = 0
  <2>1. \A m \in u..l : m \in Messages /\ m > read
    BY <1>1, <1>2, ConsumerAssumption DEF Messages
  <2>2. \A m \in Messages : handled[m] \in Nat /\ (handled[m] > 0 => m <= read)
    BY DEF MessageInv, GroupTypeOK
  <2> QED
    BY <2>1, <2>2, <1>2
<1>4. \A d \in Consumers : \A j \in DOMAIN taken[d] : taken[d][j] \in 1..read
  BY DEF TakenInv, TakenRead
<1>5. \A d \in Consumers : Len(taken'[d]) <= ConsumerBatch
  BY <1>1 DEF TakenInv
<1>6. TakenRead'
  <2>1. ASSUME NEW d \in Consumers, NEW j \in DOMAIN taken'[d]
        PROVE  /\ taken'[d][j] \in 1..read'
               /\ handled'[taken'[d][j]] = 0 \/ (j = 1 /\ stage'[d] # "handle")
    <3>1. CASE d = c
      <4>1. taken'[d][j] \in u..l
        BY <1>1, <2>1, <3>1
      <4> QED
        BY <1>1, <1>2, <1>3, <4>1
    <3>2. CASE d # c
      <4>1. /\ j \in DOMAIN taken[d] /\ taken'[d][j] = taken[d][j] /\ taken[d][j] \in 1..read
            /\ handled[taken[d][j]] = 0 \/ (j = 1 /\ stage'[d] # "handle")
        BY <1>1, <2>1, <3>2 DEF TakenInv, TakenRead
      <4> QED
        BY <1>1, <1>2, <4>1
    <3> QED
      BY <3>1, <3>2
  <2> QED
    BY <2>1 DEF TakenRead
<1>7. HandsDisjoint'
  <2> SUFFICES ASSUME NEW a \in Consumers, NEW d \in Consumers,
                      NEW j \in DOMAIN taken'[a], NEW k \in DOMAIN taken'[d],
                      taken'[a][j] = taken'[d][k]
               PROVE  a = d /\ j = k
    BY DEF HandsDisjoint
  <2>1. CASE a = c /\ d = c
    <3>1. j \in Nat /\ k \in Nat /\ u + j - 1 = u + k - 1
      BY <1>1, <2>1
    <3> QED
      BY <2>1, <3>1
  <2>2. CASE a = c /\ d # c
    <3>1. taken'[a][j] \in u..l /\ taken'[d][k] \in 1..read
      BY <1>1, <1>4, <2>2
    <3> QED
      BY <1>2, <1>3, <3>1
  <2>3. CASE a # c /\ d = c
    <3>1. taken'[d][k] \in u..l /\ taken'[a][j] \in 1..read
      BY <1>1, <1>4, <2>3
    <3> QED
      BY <1>2, <1>3, <3>1
  <2>4. CASE a # c /\ d # c
    BY <1>1, <2>4 DEF TakenInv, HandsDisjoint
  <2> QED
    BY <2>1, <2>2, <2>3, <2>4
<1>8. StageInv'
  BY <1>1 DEF TakenInv, StageInv, At, Current
<1>9. MessageInv'
  <2>1. \A m \in Messages : m \in Nat /\ handled[m] <= 1 /\ (handled[m] > 0 => m <= read)
    BY ConsumerAssumption DEF MessageInv, Messages
  <2>2. \A m \in Messages : handled[m] <= 1 /\ (handled[m] > 0 => m <= l)
    BY <1>1, <1>2, <2>1
  <2> QED
    BY <1>1, <1>2, <2>2 DEF MessageInv
<1>10. \A m \in 1..read' : m \notin pending' => Settled(m)' \/ m \in skipped'
  <2> SUFFICES ASSUME NEW m \in 1..l, m \notin pending'
               PROVE  Settled(m)' \/ m \in skipped'
    BY <1>1
  <2>1. CASE m <= read
    <3>1. Settled(m) \/ m \in skipped
      BY <1>1, <1>2, <2>1 DEF AckInv
    <3> QED
      BY <1>1, <3>1 DEF Settled
  <2>2. CASE m > read
    BY <1>1, <1>2, <2>2
  <2> QED
    BY <1>2, <2>1, <2>2
<1>11. \A m \in skipped' : m + MaxLen <= len'
  <2>1. \A m \in (read + 1)..(u - 1) : m + MaxLen <= len
    <3> SUFFICES ASSUME NEW m \in (read + 1)..(u - 1) PROVE m + MaxLen <= len
      OBVIOUS
    <3>1. u = first /\ first > 1
      BY <1>1, <1>2 DEF FirstUnread
    <3>2. first + MaxLen <= len + 1
      BY <3>1 DEF MessageInv
    <3> QED
      BY <1>2, <3>1, <3>2, ConsumerAssumption
  <2> QED
    BY <1>1, <1>2, <2>1 DEF AckInv
<1> QED
  BY <1>5, <1>6, <1>7, <1>8, <1>9, <1>10, <1>11 DEF TakenInv, AckInv

\* The handler runs on a message that it never ran on.
LEMMA CoreHandler ==
    ASSUME Core, GroupTypeOK', NEW c \in Consumers, HandlerReturns(c)
    PROVE  Core'
<1> USE DEF Core
<1>1. /\ 1 \in DOMAIN taken[c] /\ Current(c) = taken[c][1] /\ Current(c) \in 1..read
      /\ Current(c) \in Messages
  BY CurrentMessage DEF HandlerReturns, At
<1>2. PICK m0 \in Messages : m0 = Current(c)
  BY <1>1
<1>3. /\ handled' = [handled EXCEPT ![m0] = handled[m0] + 1]
      /\ stage' = [stage EXCEPT ![c] = "ack"] /\ stage[c] = "handle"
      /\ UNCHANGED <<stream, first, read, pending, taken, dlq, dlqFirst, skipped>>
  BY <1>2 DEF HandlerReturns, At, ToStage, deadLetters
<1>4. handled[m0] = 0
  BY <1>1, <1>2, <1>3 DEF TakenInv, TakenRead
<1>5. handled'[m0] = 1 /\ \A m \in Messages \ {m0} : handled'[m] = handled[m]
  BY <1>3, <1>4 DEF GroupTypeOK
<1>6. stage'[c] = "ack" /\ \A d \in Consumers \ {c} : stage'[d] = stage[d]
  BY <1>3 DEF GroupTypeOK
<1>7. \A d \in Consumers : \A j \in DOMAIN taken[d] :
          taken[d][j] \in Messages /\ (taken[d][j] = m0 => d = c /\ j = 1)
  <2>1. ASSUME NEW d \in Consumers, NEW j \in DOMAIN taken[d] PROVE taken[d][j] \in Messages
    <3>1. taken[d] \in Seq(Messages)
      BY DEF GroupTypeOK
    <3> QED
      BY <3>1
  <2>2. ASSUME NEW d \in Consumers, NEW j \in DOMAIN taken[d], taken[d][j] = m0
        PROVE  d = c /\ j = 1
    BY <1>1, <1>2, <2>2 DEF TakenInv, HandsDisjoint
  <2> QED
    BY <2>1, <2>2
<1>8. TakenRead'
  <2>1. ASSUME NEW d \in Consumers, NEW j \in DOMAIN taken[d]
        PROVE  /\ taken[d][j] \in 1..read
               /\ handled'[taken[d][j]] = 0 \/ (j = 1 /\ stage'[d] # "handle")
    BY <1>3, <1>5, <1>6, <1>7, <2>1 DEF TakenInv, TakenRead
  <2> QED
    BY <1>3, <2>1 DEF TakenRead
<1>9. HandsDisjoint'
  BY <1>3 DEF TakenInv, HandsDisjoint
<1>10. StageInv'
  <2>1. ASSUME NEW d \in Consumers, At(d, "ack")' PROVE handled'[Current(d)'] > 0
    <3>1. CASE d = c
      BY <1>2, <1>3, <1>5, <3>1 DEF Current
    <3>2. CASE d # c
      <4>1. At(d, "ack") /\ Current(d)' = Current(d)
        BY <1>3, <1>6, <2>1, <3>2 DEF At, Current
      <4>2. handled[Current(d)] > 0 /\ Current(d) = taken[d][1] /\ 1 \in DOMAIN taken[d]
        BY <4>1, CurrentMessage DEF TakenInv, StageInv, At
      <4>3. Current(d) \in Messages /\ Current(d) # m0
        BY <1>7, <3>2, <4>2
      <4> QED
        BY <1>5, <4>1, <4>2, <4>3
    <3> QED
      BY <3>1, <3>2
  <2>2. ASSUME NEW d \in Consumers, At(d, "deadack")' PROVE Current(d)' \in Range(dlq')
    BY <1>3, <1>6, <2>2 DEF At, Current, TakenInv, StageInv
  <2> QED
    BY <2>1, <2>2 DEF StageInv
<1>11. MessageInv'
  <2>1. \A m \in Messages : handled'[m] <= 1 /\ (handled'[m] > 0 => m <= read)
    BY <1>1, <1>2, <1>5 DEF MessageInv
  <2> QED
    BY <1>3, <2>1 DEF MessageInv, len
<1>12. \A m \in 1..read : Settled(m) => Settled(m)'
  <2>1. read \in 0..len /\ len \in Nat /\ len <= MaxMessages
    BY DEF GroupTypeOK, len
  <2>2. \A m \in 1..read : m \in Messages
    BY <2>1, ConsumerAssumption DEF Messages
  <2> QED
    BY <1>3, <1>5, <2>2 DEF Settled
<1>13. AckInv'
  BY <1>3, <1>12 DEF AckInv, len
<1> QED
  BY <1>3, <1>8, <1>9, <1>10, <1>11, <1>13 DEF TakenInv

\* A message is acknowledged after it was handled or dead-lettered.
LEMMA CoreAck ==
    ASSUME Core, GroupTypeOK', NEW c \in Consumers, Ack(c)
    PROVE  Core'
<1> USE DEF Core
<1>1. /\ taken[c] # <<>> /\ taken[c] \in Seq(Messages)
      /\ At(c, "ack") \/ At(c, "deadack")
  BY DEF Ack, At, GroupTypeOK
<1>2. PICK m0 \in Messages : m0 = Current(c)
  BY <1>1, CurrentMessage
<1>3. /\ pending' = pending \ {m0}
      /\ taken' = [taken EXCEPT ![c] = Tail(taken[c])]
      /\ stage' = [stage EXCEPT ![c] = "handle"]
      /\ UNCHANGED <<stream, first, read, handled, dlq, dlqFirst, skipped>>
  BY <1>2 DEF Ack, Acknowledge, ToStage, deadLetters
<1>4. PICK t \in Seq(Messages) :
          /\ t = Tail(taken[c]) /\ Len(t) = Len(taken[c]) - 1
          /\ \A j \in DOMAIN t : j + 1 \in DOMAIN taken[c] /\ t[j] = taken[c][j + 1] /\ j \in Nat \ {0}
  BY <1>1, TailElements
<1>5. taken'[c] = t /\ \A d \in Consumers \ {c} : taken'[d] = taken[d]
  BY <1>3, <1>4 DEF GroupTypeOK
<1>6. stage'[c] = "handle" /\ \A d \in Consumers \ {c} : stage'[d] = stage[d]
  BY <1>3 DEF GroupTypeOK
<1>7. m0 = taken[c][1] /\ 1 \in DOMAIN taken[c] /\ Settled(m0)
  BY <1>1, <1>2, CurrentMessage DEF TakenInv, StageInv, Settled
<1>8. \A d \in Consumers : \A j \in DOMAIN taken[d] : taken[d][j] = m0 => d = c /\ j = 1
  BY <1>7 DEF TakenInv, HandsDisjoint
<1>9. \A d \in Consumers : Len(taken'[d]) <= ConsumerBatch
  <2>1. Len(t) <= ConsumerBatch
    <3>1. Len(taken[c]) \in Nat /\ Len(taken[c]) <= ConsumerBatch
      BY <1>1 DEF TakenInv
    <3> QED
      BY <1>4, <3>1, ConsumerAssumption
  <2> QED
    BY <1>5, <2>1 DEF TakenInv
<1>10. TakenRead'
  <2>1. ASSUME NEW d \in Consumers, NEW j \in DOMAIN taken'[d]
        PROVE  /\ taken'[d][j] \in 1..read'
               /\ handled'[taken'[d][j]] = 0 \/ (j = 1 /\ stage'[d] # "handle")
    <3>1. CASE d = c
      <4>0. j \in DOMAIN t
        BY <1>5, <2>1, <3>1
      <4>1. j + 1 \in DOMAIN taken[c] /\ t[j] = taken[c][j + 1] /\ j + 1 # 1
        BY <1>4, <4>0
      <4>2. t[j] \in 1..read /\ handled[t[j]] = 0
        BY <4>1 DEF TakenInv, TakenRead
      <4> QED
        BY <1>3, <1>5, <3>1, <4>2
    <3>2. CASE d # c
      BY <1>3, <1>5, <1>6, <2>1, <3>2 DEF TakenInv, TakenRead
    <3> QED
      BY <3>1, <3>2
  <2> QED
    BY <2>1 DEF TakenRead
<1>11. HandsDisjoint'
  <2> SUFFICES ASSUME NEW a \in Consumers, NEW d \in Consumers,
                      NEW j \in DOMAIN taken'[a], NEW k \in DOMAIN taken'[d],
                      taken'[a][j] = taken'[d][k]
               PROVE  a = d /\ j = k
    BY DEF HandsDisjoint
  <2>1. CASE a = c /\ d = c
    <3>1. j + 1 \in DOMAIN taken[c] /\ k + 1 \in DOMAIN taken[c] /\ j \in Nat /\ k \in Nat
          /\ taken[c][j + 1] = taken[c][k + 1]
      BY <1>4, <1>5, <2>1
    <3>2. j + 1 = k + 1
      BY <3>1 DEF TakenInv, HandsDisjoint
    <3> QED
      BY <2>1, <3>1, <3>2
  <2>2. CASE a = c /\ d # c
    <3>1. j + 1 \in DOMAIN taken[c] /\ taken[c][j + 1] = taken[d][k] /\ k \in DOMAIN taken[d]
      BY <1>4, <1>5, <2>2
    <3> QED
      BY <2>2, <3>1 DEF TakenInv, HandsDisjoint
  <2>3. CASE a # c /\ d = c
    <3>1. k + 1 \in DOMAIN taken[c] /\ taken[c][k + 1] = taken[a][j] /\ j \in DOMAIN taken[a]
      BY <1>4, <1>5, <2>3
    <3> QED
      BY <2>3, <3>1 DEF TakenInv, HandsDisjoint
  <2>4. CASE a # c /\ d # c
    BY <1>5, <2>4 DEF TakenInv, HandsDisjoint
  <2> QED
    BY <2>1, <2>2, <2>3, <2>4
<1>12. StageInv'
  BY <1>3, <1>5, <1>6 DEF TakenInv, StageInv, At, Current
<1>13. MessageInv'
  BY <1>3 DEF MessageInv, len
<1>14. AckInv'
  BY <1>3, <1>7 DEF AckInv, Settled, len
<1> QED
  BY <1>9, <1>10, <1>11, <1>12, <1>13, <1>14 DEF TakenInv

\* The message stays pending while it is written to the dead-letter stream.
LEMMA CoreDlq ==
    ASSUME Core, GroupTypeOK', NEW c \in Consumers, SendToDlq(c)
    PROVE  Core'
<1> USE DEF Core
<1>0. /\ Range(dlq') = Range(dlq) \cup {Current(c)}
      /\ dlqFirst' = 1 \/ dlqFirst' + MaxLen <= Len(dlq') + 1
  <2>1. Current(c) \in Messages
    BY CurrentMessage DEF SendToDlq, At
  <2> QED
    BY <2>1, DeadLetterEffect DEF SendToDlq, MessageInv
<1>1. /\ stage' = [stage EXCEPT ![c] = "deadack"] /\ stage[c] = "dead"
      /\ UNCHANGED <<stream, first, read, pending, taken, handled, skipped>>
  BY DEF SendToDlq, ToStage, At
<1>2. stage'[c] = "deadack" /\ \A d \in Consumers \ {c} : stage'[d] = stage[d]
  BY <1>1 DEF GroupTypeOK
<1>3. TakenRead'
  BY <1>1, <1>2 DEF TakenInv, TakenRead
<1>4. HandsDisjoint'
  BY <1>1 DEF TakenInv, HandsDisjoint
<1>5. StageInv'
  BY <1>0, <1>1, <1>2 DEF TakenInv, StageInv, At, Current
<1>6. MessageInv' /\ AckInv'
  BY <1>0, <1>1 DEF MessageInv, AckInv, Settled, len
<1> QED
  BY <1>1, <1>3, <1>4, <1>5, <1>6 DEF TakenInv

\* What a consumer does to Redis when it drops its batch: it has acknowledged at
\* most a settled message and put at most one on the dead-letter stream.
LEMMA DropEffect ==
    ASSUME Core, NEW c \in Consumers, ErrorPathRaises(c) \/ CrashConsumer(c)
    PROVE  /\ pending' \subseteq pending /\ \A m \in pending : m \in pending' \/ Settled(m)
           /\ Range(dlq) \subseteq Range(dlq')
           /\ dlqFirst' = 1 \/ dlqFirst' + MaxLen <= Len(dlq') + 1
<1> USE DEF Core
<1>1. CASE UNCHANGED <<pending, dlq, dlqFirst>>
  BY <1>1 DEF MessageInv
<1>2. CASE At(c, "dead") /\ DeadLetter(c) /\ UNCHANGED pending
  <2>1. Current(c) \in Messages
    BY <1>2, CurrentMessage DEF At
  <2> QED
    BY <1>2, <2>1, DeadLetterEffect DEF MessageInv
<1>3. CASE At(c, "deadack") /\ AckUnsure(c) /\ UNCHANGED <<dlq, dlqFirst>>
  BY <1>3 DEF AckUnsure, TakenInv, StageInv, Settled, MessageInv
<1> QED
  BY <1>1, <1>2, <1>3 DEF ErrorPathRaises, CrashConsumer, deadLetters

\* A consumer that drops its batch leaves the messages pending.
LEMMA CoreDrop ==
    ASSUME Core, GroupTypeOK', NEW c \in Consumers, ErrorPathRaises(c) \/ CrashConsumer(c)
    PROVE  Core'
<1> USE DEF Core
<1>1. /\ taken' = [taken EXCEPT ![c] = <<>>] /\ stage' = [stage EXCEPT ![c] = "handle"]
      /\ UNCHANGED <<stream, first, read, handled, skipped>>
  BY DEF ErrorPathRaises, CrashConsumer, ToStage
<1>2. /\ taken'[c] = <<>> /\ \A d \in Consumers \ {c} : taken'[d] = taken[d]
      /\ stage'[c] = "handle" /\ \A d \in Consumers \ {c} : stage'[d] = stage[d]
  BY <1>1 DEF GroupTypeOK
<1>3. DOMAIN taken'[c] = {} /\ Len(taken'[c]) = 0
  BY <1>2
<1>4. TakenRead'
  BY <1>1, <1>2, <1>3 DEF TakenInv, TakenRead
<1>5. HandsDisjoint'
  BY <1>2, <1>3 DEF TakenInv, HandsDisjoint
<1>6. StageInv'
  BY <1>1, <1>2, DropEffect DEF TakenInv, StageInv, At, Current
<1>7. MessageInv' /\ AckInv'
  BY <1>1, DropEffect DEF MessageInv, AckInv, Settled, len
<1>8. \A d \in Consumers : Len(taken'[d]) <= ConsumerBatch
  BY <1>2, <1>3, ConsumerAssumption DEF TakenInv
<1> QED
  BY <1>4, <1>5, <1>6, <1>7, <1>8 DEF TakenInv

\* Every step keeps the messages accounted for.
LEMMA NextCore ==
    ASSUME Core, [GroupNext]_groupVars
    PROVE  Core'
<1>1. GroupTypeOK'
  BY NextType DEF Core
<1>2. ASSUME NEW c \in Consumers, HandlerRaises(c) \/ AckRaises(c) PROVE Core'
  <2>1. /\ stage' = [stage EXCEPT ![c] = "dead"]
        /\ UNCHANGED <<stream, first, read, taken, handled, dlq, dlqFirst, skipped>>
    BY <1>2 DEF HandlerRaises, AckRaises, AfterError, ToStage, deadLetters
  <2>2. \A m \in pending : m \in pending' \/ Settled(m)
    BY <1>2 DEF HandlerRaises, AckRaises, AckUnsure, Core, TakenInv, StageInv, Settled
  <2> QED
    BY <1>1, <2>1, <2>2, CoreQuiet
<1>3. CASE UNCHANGED groupVars
  <2>1. UNCHANGED <<stream, first, read, pending, taken, stage, handled, dlq, dlqFirst, skipped>>
    BY <1>3 DEF groupVars
  <2> QED
    BY <1>1, <2>1 DEF Core, TakenInv, TakenRead, HandsDisjoint, StageInv, At, Current,
                      MessageInv, AckInv, Settled, len
<1> QED
  BY <1>1, <1>2, <1>3, CoreProduce, CoreRead, CoreHandler, CoreAck, CoreDlq, CoreDrop
     DEF GroupNext, ConsumerStep, Fault

-----------------------------------------------------------------------------
(* What a fault costs *)

\* The messages of a sequence are no more than its length.
LEMMA ElementsBound ==
    ASSUME NEW S, NEW s \in Seq(S)
    PROVE  /\ IsFiniteSet({s[j] : j \in DOMAIN s})
           /\ Cardinality({s[j] : j \in DOMAIN s}) <= Len(s)
<1> DEFINE E == {s[j] : j \in DOMAIN s}
<1>1. Len(s) \in Nat /\ DOMAIN s = 1..Len(s)
  OBVIOUS
<1>2. IsFiniteSet(1..Len(s)) /\ Cardinality(1..Len(s)) = Len(s)
  <2>1. PICK n \in Nat : n = Len(s)
    BY <1>1
  <2>2. IsFiniteSet(1..n) /\ Cardinality(1..n) = IF 1 > n THEN 0 ELSE n - 1 + 1
    BY FS_Interval
  <2>3. Cardinality(1..n) = n
    BY <2>2
  <2> QED
    BY <2>1, <2>2, <2>3
<1>3. s \in Surjection(1..Len(s), E)
  <2>1. s \in [1..Len(s) -> E]
    BY <1>1
  <2>2. \A t \in E : \E j \in 1..Len(s) : s[j] = t
    BY <1>1
  <2> QED
    BY <2>1, <2>2, Zenon DEF Surjection
<1> HIDE DEF E
<1>4. IsFiniteSet(E) /\ Cardinality(E) <= Cardinality(1..Len(s))
  BY <1>2, <1>3, FS_Surjection
<1> QED
  BY <1>2, <1>4 DEF E

\* The lost messages are finitely many.
LEMMA LostFinite ==
    ASSUME GroupTypeOK
    PROVE  IsFiniteSet(Lost) /\ Cardinality(Lost) \in Nat
<1>1. read \in Int
  BY DEF GroupTypeOK, len
<1>2. IsFiniteSet(1..read)
  BY <1>1, FS_Interval
<1>3. Lost \in SUBSET (1..read)
  BY DEF Lost
<1>4. IsFiniteSet(Lost)
  BY <1>2, <1>3, FS_Subset
<1> QED
  BY <1>4, FS_CardinalityType

\* A step that loses nothing and does not undo a fault keeps the bound.
LEMMA LostShrinks ==
    ASSUME GroupTypeOK, LossIsBounded, Lost' \subseteq Lost,
           faults' = faults \/ faults' = faults + 1
    PROVE  LossIsBounded'
<1>1. PICK k, B, f \in Nat : k = Cardinality(Lost) /\ B = ConsumerBatch /\ f = faults
  BY LostFinite, ConsumerAssumption DEF GroupTypeOK
<1>2. k <= f * B
  BY <1>1 DEF LossIsBounded, Lost
<1>3. PICK k2 \in Nat : k2 = Cardinality(Lost') /\ k2 <= k
  <2>1. IsFiniteSet(Lost') /\ Cardinality(Lost') <= Cardinality(Lost)
    BY LostFinite, FS_Subset
  <2>2. Cardinality(Lost') \in Nat
    BY <2>1, FS_CardinalityType
  <2> QED
    BY <1>1, <2>1, <2>2
<1>4. f * B \in Nat /\ f * B <= (f + 1) * B
  <2>1. f * B \in Nat
    OBVIOUS
  <2>2. (f + 1) * B = f * B + B
    OBVIOUS
  <2> QED
    BY <2>1, <2>2
<1>5. k2 <= f * B /\ k2 <= (f + 1) * B
  BY <1>2, <1>3, <1>4
<1>6. Cardinality(Lost)' <= faults' * ConsumerBatch
  BY <1>1, <1>3, <1>5
<1> QED
  BY <1>6 DEF LossIsBounded, Lost

\* A step that changes no batch, adds nothing to the pending list and settles at
\* most more messages loses nothing.
LEMMA LostQuiet ==
    ASSUME UNCHANGED <<read, taken>>, pending' \subseteq pending, \A m \in 1..read : Settled(m) => Settled(m)'
    PROVE  Lost' \subseteq Lost
  BY DEF Lost, Orphaned

\* A read message is in the hands of its reader.
LEMMA LostRead ==
    ASSUME Core, NEW c \in Consumers, ReadNew(c)
    PROVE  Lost' \subseteq Lost
<1>1. PICK u, l \in Nat :
          /\ u = FirstUnread /\ read < u /\ u <= l /\ l <= len /\ read' = l
          /\ \A d \in Consumers \ {c} : taken'[d] = taken[d]
          /\ \A m \in u..l : \E j \in DOMAIN taken'[c] : taken'[c][j] = m
          /\ pending' = pending \cup (u..l)
          /\ UNCHANGED <<handled, dlq>>
  BY ReadNewEffect DEF Core
<1>2. taken[c] = <<>>
  BY DEF ReadNew
<1> SUFFICES ASSUME NEW m \in Lost' PROVE m \in Lost
  OBVIOUS
<1>3. /\ m \in pending' /\ ~Settled(m)'
      /\ \A d \in Consumers : \A j \in DOMAIN taken'[d] : taken'[d][j] # m
  BY DEF Lost, Orphaned
<1>4. m \in pending
  BY <1>1, <1>3
<1>5. m \in 1..read
  BY <1>4 DEF Core, GroupTypeOK
<1>6. \A d \in Consumers : \A j \in DOMAIN taken[d] : taken[d][j] # m
  BY <1>1, <1>2, <1>3
<1>7. ~Settled(m)
  BY <1>1, <1>3 DEF Settled
<1> QED
  BY <1>4, <1>5, <1>6, <1>7 DEF Lost, Orphaned

\* An acknowledged message is not lost, and the rest of the batch stays in hand.
LEMMA LostAck ==
    ASSUME Core, NEW c \in Consumers, Ack(c)
    PROVE  Lost' \subseteq Lost
<1>1. /\ taken[c] # <<>> /\ taken[c] \in Seq(Messages)
      /\ pending' = pending \ {Current(c)}
      /\ taken' = [taken EXCEPT ![c] = Tail(taken[c])]
      /\ UNCHANGED <<read, handled, dlq>>
  BY DEF Ack, At, Core, GroupTypeOK, Acknowledge, deadLetters
<1>2. PICK t \in Seq(Messages) :
          /\ t = Tail(taken[c])
          /\ \A j \in DOMAIN taken[c] : j # 1 => j - 1 \in DOMAIN t /\ t[j - 1] = taken[c][j]
  <2>1. PICK s \in Seq(Messages) : s = taken[c] /\ s # <<>>
    BY <1>1, Zenon
  <2>2. /\ Tail(s) \in Seq(Messages)
        /\ \A j \in DOMAIN s : j # 1 => j - 1 \in DOMAIN Tail(s) /\ Tail(s)[j - 1] = s[j]
    BY <2>1, TailElements
  <2> QED
    BY <2>1, <2>2, Zenon
<1>3. taken'[c] = t /\ \A d \in Consumers \ {c} : taken'[d] = taken[d]
  BY <1>1, <1>2 DEF Core, GroupTypeOK
<1>4. Current(c) = taken[c][1]
  BY <1>1, CurrentMessage DEF Core
<1> SUFFICES ASSUME NEW m \in Lost' PROVE m \in Lost
  OBVIOUS
<1>5. /\ m \in 1..read /\ m \in pending /\ m # taken[c][1] /\ ~Settled(m)
      /\ \A d \in Consumers : \A j \in DOMAIN taken'[d] : taken'[d][j] # m
  BY <1>1, <1>4 DEF Lost, Orphaned, Settled
<1>6. ASSUME NEW j \in DOMAIN taken[c] PROVE taken[c][j] # m
  <2>1. CASE j = 1
    BY <1>5, <2>1
  <2>2. CASE j # 1
    <3>1. PICK i : i = j - 1
      OBVIOUS
    <3>2. i \in DOMAIN taken'[c] /\ taken'[c][i] = taken[c][j]
      BY <1>2, <1>3, <1>6, <2>2, <3>1
    <3> QED
      BY <1>5, <3>2
  <2> QED
    BY <2>1, <2>2
<1>7. \A d \in Consumers : \A j \in DOMAIN taken[d] : taken[d][j] # m
  BY <1>3, <1>5, <1>6
<1> QED
  BY <1>5, <1>7 DEF Lost, Orphaned

\* A consumer that drops its batch loses no more than the batch.
LEMMA LostDrop ==
    ASSUME Core, LossIsBounded, NEW c \in Consumers,
           ErrorPathRaises(c) \/ CrashConsumer(c)
    PROVE  LossIsBounded'
<1>1. /\ taken' = [taken EXCEPT ![c] = <<>>] /\ faults' = faults + 1
      /\ UNCHANGED <<read, handled>>
      /\ pending' \subseteq pending /\ Range(dlq) \subseteq Range(dlq')
  BY DropEffect DEF ErrorPathRaises, CrashConsumer
<1>2. \A d \in Consumers \ {c} : taken'[d] = taken[d]
  BY <1>1 DEF Core, GroupTypeOK
<1>3. PICK E : E = {taken[c][j] : j \in DOMAIN taken[c]}
  OBVIOUS
<1>4. IsFiniteSet(E) /\ Cardinality(E) <= ConsumerBatch
  <2>1. taken[c] \in Seq(Messages) /\ Len(taken[c]) <= ConsumerBatch
    BY DEF Core, GroupTypeOK, TakenInv
  <2>2. IsFiniteSet(E) /\ Cardinality(E) <= Len(taken[c])
    BY <1>3, <2>1, ElementsBound
  <2>3. Cardinality(E) \in Nat /\ Len(taken[c]) \in Nat
    BY <2>1, <2>2, FS_CardinalityType
  <2> QED
    BY <2>1, <2>2, <2>3, ConsumerAssumption
<1>5. PICK L : L = Lost
  OBVIOUS
<1>6. Lost' \subseteq L \cup E
  BY <1>1, <1>2, <1>3, <1>5 DEF Lost, Orphaned, Settled
<1>7. IsFiniteSet(L) /\ Cardinality(L) \in Nat
  BY <1>5, LostFinite DEF Core
<1>8. /\ IsFiniteSet(L \cup E)
      /\ Cardinality(L \cup E) = Cardinality(L) + Cardinality(E) - Cardinality(L \cap E)
  BY <1>4, <1>7, FS_Union
<1>9. IsFiniteSet(L \cap E)
  <2>1. L \cap E \in SUBSET E
    OBVIOUS
  <2> QED
    BY <1>4, <2>1, FS_Subset
<1>10. IsFiniteSet(Lost') /\ Cardinality(Lost') <= Cardinality(L \cup E)
  BY <1>6, <1>8, FS_Subset
<1>11. /\ Cardinality(E) \in Nat /\ Cardinality(L \cap E) \in Nat
       /\ Cardinality(L \cup E) \in Nat /\ Cardinality(Lost') \in Nat
  BY <1>4, <1>8, <1>9, <1>10, FS_CardinalityType
<1>12. PICK k, B, f \in Nat : k = Cardinality(L) /\ B = ConsumerBatch /\ f = faults
  BY <1>7, ConsumerAssumption DEF Core, GroupTypeOK
<1>13. k <= f * B
  BY <1>5, <1>12 DEF LossIsBounded, Lost
<1>14. Cardinality(Lost') <= k + B
  BY <1>4, <1>8, <1>10, <1>11, <1>12
<1>15. f * B \in Nat /\ (f + 1) * B = f * B + B
  OBVIOUS
<1>16. Cardinality(Lost') <= (f + 1) * B
  BY <1>11, <1>13, <1>14, <1>15
<1>17. Cardinality(Lost)' <= faults' * ConsumerBatch
  BY <1>1, <1>12, <1>16
<1> QED
  BY <1>17 DEF LossIsBounded, Lost

\* Every step keeps the losses within a batch for each fault.
LEMMA NextLoss ==
    ASSUME Core, LossIsBounded, [GroupNext]_groupVars
    PROVE  LossIsBounded'
<1>0. GroupTypeOK
  BY DEF Core
<1>1. ASSUME NEW e \in Events, Produce(e) PROVE LossIsBounded'
  <2>1. UNCHANGED <<read, taken, pending, handled, dlq, faults>>
    BY <1>1 DEF Produce, deadLetters
  <2>2. Lost' \subseteq Lost
    BY <2>1, LostQuiet DEF Settled
  <2> QED
    BY <1>0, <2>1, <2>2, LostShrinks
<1>2. ASSUME NEW c \in Consumers, ReadNew(c) PROVE LossIsBounded'
  <2>1. faults' = faults
    BY <1>2 DEF ReadNew
  <2> QED
    BY <1>0, <1>2, <2>1, LostRead, LostShrinks
<1>3. ASSUME NEW c \in Consumers, HandlerReturns(c) PROVE LossIsBounded'
  <2>1. PICK m0 \in Messages : m0 = Current(c)
    BY <1>3, CurrentMessage DEF HandlerReturns, At, Core
  <2>2. /\ handled' = [handled EXCEPT ![m0] = handled[m0] + 1]
        /\ UNCHANGED <<read, taken, pending, dlq, faults>>
    BY <1>3, <2>1 DEF HandlerReturns, deadLetters
  <2>3. \A m \in 1..read : m \in Messages
    BY ConsumerAssumption DEF Core, GroupTypeOK, len, Messages
  <2>4. \A m \in Messages : handled[m] \in Nat /\ (handled[m] > 0 => handled'[m] > 0)
    BY <2>2 DEF Core, GroupTypeOK
  <2>5. \A m \in 1..read : Settled(m) => Settled(m)'
    BY <2>2, <2>3, <2>4 DEF Settled
  <2>6. Lost' \subseteq Lost
    BY <2>2, <2>5, LostQuiet
  <2> QED
    BY <1>0, <2>2, <2>6, LostShrinks
<1>4. ASSUME NEW c \in Consumers, HandlerRaises(c) \/ AckRaises(c) \/ SendToDlq(c)
      PROVE  LossIsBounded'
  <2>1. /\ UNCHANGED <<read, taken, handled>> /\ pending' \subseteq pending
        /\ faults' = faults \/ faults' = faults + 1
    BY <1>4 DEF HandlerRaises, AckRaises, AckUnsure, SendToDlq
  <2>3. Range(dlq) \subseteq Range(dlq')
    <3>1. CASE UNCHANGED dlq
      BY <3>1
    <3>2. CASE SendToDlq(c)
      <4>1. Current(c) \in Messages
        BY <3>2, CurrentMessage DEF SendToDlq, At, Core
      <4> QED
        BY <1>0, <3>2, <4>1, DeadLetterEffect DEF SendToDlq, Core, MessageInv
    <3> QED
      BY <1>4, <3>1, <3>2 DEF HandlerRaises, AckRaises, deadLetters
  <2>2. Lost' \subseteq Lost
    BY <2>1, <2>3, LostQuiet DEF Settled
  <2> QED
    BY <1>0, <2>1, <2>2, LostShrinks
<1>5. ASSUME NEW c \in Consumers, Ack(c) PROVE LossIsBounded'
  <2>1. faults' = faults
    BY <1>5 DEF Ack
  <2> QED
    BY <1>0, <1>5, <2>1, LostAck, LostShrinks
<1>6. CASE UNCHANGED groupVars
  <2>1. UNCHANGED <<read, taken, pending, handled, dlq, faults>>
    BY <1>6 DEF groupVars
  <2>2. Lost' \subseteq Lost
    BY <2>1, LostQuiet DEF Settled
  <2> QED
    BY <1>0, <2>1, <2>2, LostShrinks
<1> QED
  BY <1>1, <1>2, <1>3, <1>4, <1>5, <1>6, LostDrop DEF GroupNext, ConsumerStep, Fault

-----------------------------------------------------------------------------
(* The notifier's memory *)

\* A step that leaves the notifier alone.
LEMMA NotifierQuiet ==
    ASSUME GroupTypeOK, NotifierInv, UNCHANGED <<seen, notified>>,
           restarts' = restarts
    PROVE  NotifierInv'
<1> SUFFICES ASSUME NEW e \in Events
             PROVE  /\ IsFiniteSet({c \in Consumers : e \in seen'[c]})
                    /\ notified'[e] <= Cardinality({c \in Consumers : e \in seen'[c]}) + restarts'
  BY DEF NotifierInv
<1>1. PICK K : K = {c \in Consumers : e \in seen[c]}
  OBVIOUS
<1>2. IsFiniteSet(K) /\ notified[e] <= Cardinality(K) + restarts
  BY <1>1 DEF NotifierInv
<1>3. Cardinality(K) \in Nat /\ notified[e] \in Nat /\ restarts \in Nat
  BY <1>2, FS_CardinalityType DEF GroupTypeOK
<1>4. notified[e] <= Cardinality(K) + restarts'
  BY <1>2, <1>3
<1> QED
  BY <1>1, <1>2, <1>4

\* A notification is remembered by the process that sent it.
LEMMA NotifierHandles ==
    ASSUME GroupTypeOK, NotifierInv, restarts' = restarts, NEW c \in Consumers, NEW e \in Events,
           e \notin seen[c], seen' = [seen EXCEPT ![c] = @ \cup {e}],
           notified' = [notified EXCEPT ![e] = @ + 1]
    PROVE  NotifierInv'
<1>1. seen \in [Consumers -> SUBSET Events] /\ notified \in [Events -> Nat]
  BY DEF GroupTypeOK
<1>2. seen'[c] = seen[c] \cup {e} /\ \A d \in Consumers \ {c} : seen'[d] = seen[d]
  BY <1>1
<1>3. notified'[e] = notified[e] + 1 /\ \A x \in Events \ {e} : notified'[x] = notified[x]
  BY <1>1
<1> SUFFICES ASSUME NEW x \in Events
             PROVE  /\ IsFiniteSet({d \in Consumers : x \in seen'[d]})
                    /\ notified'[x] <= Cardinality({d \in Consumers : x \in seen'[d]}) + restarts'
  BY DEF NotifierInv
<1>4. PICK K : K = {d \in Consumers : x \in seen[d]}
  OBVIOUS
<1>5. IsFiniteSet(K) /\ notified[x] <= Cardinality(K) + restarts
  BY <1>4 DEF NotifierInv
<1>6. Cardinality(K) \in Nat /\ notified[x] \in Nat /\ restarts \in Nat
  BY <1>1, <1>5, FS_CardinalityType DEF GroupTypeOK
<1>7. CASE x = e
  <2>1. {d \in Consumers : x \in seen'[d]} = K \cup {c} /\ c \notin K
    BY <1>2, <1>4, <1>7
  <2>2. IsFiniteSet(K \cup {c}) /\ Cardinality(K \cup {c}) = Cardinality(K) + 1
    BY <1>5, <2>1, FS_AddElement
  <2>3. notified'[x] <= Cardinality(K \cup {c}) + restarts'
    BY <1>3, <1>5, <1>6, <1>7, <2>2
  <2> QED
    BY <2>1, <2>2, <2>3
<1>8. CASE x # e
  <2>1. {d \in Consumers : x \in seen'[d]} = K
    BY <1>2, <1>4, <1>8
  <2> QED
    BY <1>3, <1>5, <1>8, <2>1
<1> QED
  BY <1>7, <1>8

\* A restart forgets one process's memory, and is counted.
LEMMA NotifierCrash ==
    ASSUME GroupTypeOK, NotifierInv, NEW c \in Consumers, CrashConsumer(c)
    PROVE  NotifierInv'
<1>1. seen' = [seen EXCEPT ![c] = {}] /\ notified' = notified /\ restarts' = restarts + 1
  BY DEF CrashConsumer
<1>2. seen'[c] = {} /\ \A d \in Consumers \ {c} : seen'[d] = seen[d]
  BY <1>1 DEF GroupTypeOK
<1> SUFFICES ASSUME NEW x \in Events
             PROVE  /\ IsFiniteSet({d \in Consumers : x \in seen'[d]})
                    /\ notified'[x] <= Cardinality({d \in Consumers : x \in seen'[d]}) + restarts'
  BY DEF NotifierInv
<1>3. PICK K : K = {d \in Consumers : x \in seen[d]}
  OBVIOUS
<1>4. IsFiniteSet(K) /\ notified[x] <= Cardinality(K) + restarts
  BY <1>3 DEF NotifierInv
<1>5. Cardinality(K) \in Nat /\ notified[x] \in Nat /\ restarts \in Nat
  BY <1>4, FS_CardinalityType DEF GroupTypeOK
<1>6. {d \in Consumers : x \in seen'[d]} = K \ {c}
  BY <1>2, <1>3
<1>7. /\ IsFiniteSet(K \ {c})
      /\ Cardinality(K \ {c}) = Cardinality(K) \/ Cardinality(K \ {c}) = Cardinality(K) - 1
  BY <1>4, FS_RemoveElement
<1>8. notified'[x] <= Cardinality(K \ {c}) + restarts'
  BY <1>1, <1>4, <1>5, <1>7
<1> QED
  BY <1>6, <1>7, <1>8

\* Every step keeps the notifications accounted for.
LEMMA NextNotifier ==
    ASSUME Core, NotifierInv, [GroupNext]_groupVars
    PROVE  NotifierInv'
<1>0. GroupTypeOK
  BY DEF Core
<1>1. ASSUME NEW c \in Consumers, HandlerReturns(c) PROVE NotifierInv'
  <2>1. PICK e \in Events : e = Event(c)
    BY <1>1, CurrentMessage DEF HandlerReturns, At, Core
  <2>2. HandleEvent(c, e) /\ restarts' = restarts
    BY <1>0, <1>1, <2>1, HandleEventEffect DEF HandlerReturns
  <2>3. CASE UNCHANGED <<seen, notified>>
    BY <1>0, <2>2, <2>3, NotifierQuiet
  <2>4. CASE /\ e \notin seen[c] /\ seen' = [seen EXCEPT ![c] = @ \cup {e}]
             /\ notified' = [notified EXCEPT ![e] = @ + 1]
    BY <1>0, <2>2, <2>4, NotifierHandles
  <2> QED
    BY <1>0, <2>2, <2>3, <2>4, HandleEventEffect
<1>2. ASSUME NEW c \in Consumers, CrashConsumer(c) PROVE NotifierInv'
  BY <1>0, <1>2, NotifierCrash
<1>3. ASSUME UNCHANGED <<seen, notified, restarts>> PROVE NotifierInv'
  BY <1>0, <1>3, NotifierQuiet
<1>4. ASSUME NEW e \in Events, Produce(e) PROVE NotifierInv'
  BY <1>3, <1>4 DEF Produce, notifier
<1>5. ASSUME NEW c \in Consumers, ReadNew(c) \/ HandlerRaises(c) \/ Ack(c) \/ SendToDlq(c)
      PROVE  NotifierInv'
  BY <1>3, <1>5 DEF ReadNew, HandlerRaises, Ack, SendToDlq, notifier
<1>6. ASSUME NEW c \in Consumers, AckRaises(c) \/ ErrorPathRaises(c) PROVE NotifierInv'
  BY <1>3, <1>6 DEF AckRaises, ErrorPathRaises, notifier
<1>7. CASE UNCHANGED groupVars
  BY <1>3, <1>7 DEF groupVars
<1> QED
  BY <1>1, <1>2, <1>4, <1>5, <1>6, <1>7 DEF GroupNext, ConsumerStep, Fault

-----------------------------------------------------------------------------
(* The theorems about the consumer group *)

\* The inductive invariant holds in every reachable state.
THEOREM GroupInvariance == GroupSpec => []GroupIInv
<1>1. GroupInit => GroupIInv
  <2> SUFFICES ASSUME GroupInit PROVE GroupIInv
    OBVIOUS
  <2>1. Core
    BY InitCore
  <2>2. LossIsBounded
    <3>1. Lost = {}
      BY DEF GroupInit, Lost
    <3>2. Cardinality(Lost) = 0 /\ faults * ConsumerBatch = 0
      BY <3>1, FS_EmptySet, ConsumerAssumption DEF GroupInit
    <3> QED
      BY <3>2 DEF LossIsBounded, Lost
  <2>3. NotifierInv
    <3>1. \A e \in Events : {c \in Consumers : e \in seen[c]} = {} /\ notified[e] = 0
      BY DEF GroupInit
    <3>2. restarts = 0 /\ IsFiniteSet({}) /\ 0 <= Cardinality({}) + 0
      BY FS_EmptySet DEF GroupInit
    <3> QED
      BY <3>1, <3>2, Zenon DEF NotifierInv
  <2> QED
    BY <2>1, <2>2, <2>3 DEF GroupIInv, Core
<1>2. GroupIInv /\ [GroupNext]_groupVars => GroupIInv'
  <2> SUFFICES ASSUME GroupIInv, [GroupNext]_groupVars PROVE GroupIInv'
    OBVIOUS
  <2>1. Core /\ LossIsBounded /\ NotifierInv
    BY DEF GroupIInv, Core
  <2>2. Core' /\ LossIsBounded' /\ NotifierInv'
    BY <2>1, NextCore, NextLoss, NextNotifier
  <2> QED
    BY <2>2 DEF GroupIInv, Core
<1> QED
  BY <1>1, <1>2, PTL DEF GroupSpec

\* Every variable keeps its type.
THEOREM GroupTypeCorrect == GroupSpec => []GroupTypeOK
<1>1. GroupIInv => GroupTypeOK
  BY DEF GroupIInv
<1> QED
  BY <1>1, GroupInvariance, PTL

\* consume_loop acknowledges a message only after the handler returned or the
\* message was put on the dead-letter stream; only trimming to max_stream_len, of
\* the stream or of the dead-letter stream, makes Redis forget a message that was
\* not handled.
THEOREM NothingIsForgotten == GroupSpec => []NothingForgotten
<1>1. GroupIInv => NothingForgotten
  <2> SUFFICES ASSUME GroupTypeOK, MessageInv, AckInv,
                      NEW m \in 1..read, m \notin pending, handled[m] = 0,
                      ~(m \in skipped /\ m + MaxLen <= len), ~OnDlq(m)
               PROVE  \E n \in DOMAIN dlq : dlq[n] = m /\ n + MaxLen <= Len(dlq)
    BY DEF GroupIInv, NothingForgotten
  <2>1. m \in Range(dlq)
    BY DEF AckInv, Settled
  <2>2. PICK n \in DOMAIN dlq : dlq[n] = m
    BY <2>1 DEF Range
  <2>3. PICK l \in Nat : l = Len(dlq) /\ DOMAIN dlq = 1..l
    BY DEF GroupTypeOK
  <2>4. dlqFirst \in 1..(l + 1) /\ (dlqFirst = 1 \/ dlqFirst + MaxLen <= l + 1)
    BY <2>3 DEF GroupTypeOK, MessageInv
  <2>5. n \in 1..l /\ n \notin dlqFirst..l
    BY <2>2, <2>3 DEF OnDlq
  <2>6. n + MaxLen <= l
    BY <2>4, <2>5, ConsumerAssumption
  <2> QED
    BY <2>2, <2>3, <2>6
<1> QED
  BY <1>1, GroupInvariance, PTL

\* The consumers of a group never hold the same message, and the handler runs at
\* most once for each.
THEOREM MessagesAreHandledOnce == GroupSpec => []HandledOnce
<1>1. GroupIInv => HandledOnce
  BY DEF GroupIInv, TakenInv, HandsDisjoint, MessageInv, HandledOnce
<1> QED
  BY <1>1, GroupInvariance, PTL

\* A fault costs at most the batch in hand.
THEOREM LossesAreBounded == GroupSpec => []LossIsBounded
<1>1. GroupIInv => LossIsBounded
  BY DEF GroupIInv
<1> QED
  BY <1>1, GroupInvariance, PTL

\* A process of the notifier sends an event once until it is restarted, whatever
\* Redis commands fail.
THEOREM NotificationsAreBounded == GroupSpec => []NotifiedOncePerProcess
<1>1. GroupIInv => NotifiedOncePerProcess
  BY DEF GroupIInv, NotifierInv, NotifiedOncePerProcess
<1> QED
  BY <1>1, GroupInvariance, PTL
-----------------------------------------------------------------------------
(* The composition *)

\* OrderEvents restricts neither component beyond its own specification: it
\* implements the outbox, whose stream it shares with the consumers.
THEOREM ImplementsOutbox == EventsSpec => OutboxSpec
<1>1. EventsInit => OutboxInit
  BY DEF EventsInit
<1>2. [EventsNext]_allVars => [OutboxNext]_outboxVars
  BY DEF EventsNext, Upstream, Downstream, allVars
<1> QED
  BY <1>1, <1>2, PTL DEF EventsSpec, OutboxSpec

\* It implements the consumer group as well: what the relays publish are the
\* group's messages, and consumers never touch the tables.
THEOREM ImplementsGroup == EventsSpec => GroupSpec
<1>1. EventsInit => GroupInit
  BY DEF EventsInit
<1>2. [EventsNext]_allVars => [GroupNext]_groupVars
  <2> SUFFICES ASSUME [EventsNext]_allVars PROVE [GroupNext]_groupVars
    OBVIOUS
  <2>1. CASE Upstream(OutboxNext)
    BY <2>1, EventsAssumption DEF Upstream, GroupNext, groupVars, consumerVars
  <2>2. CASE Downstream(\E c \in Consumers : ConsumerStep(c) \/ Fault(c))
    BY <2>2 DEF Downstream, GroupNext
  <2>3. CASE UNCHANGED allVars
    BY <2>3 DEF allVars, outboxVars, consumerVars, groupVars
  <2> QED
    BY <2>1, <2>2, <2>3 DEF EventsNext
<1> QED
  BY <1>1, <1>2, PTL DEF EventsSpec, GroupSpec

\* The outbox's two properties hold of the composed system, which is the one that
\* the run checks.
THEOREM EventsAreConsistent == EventsSpec => [](EventIffOrder /\ PublishedIsOnStream)
  BY ImplementsOutbox, NoDualWrite, PublishedMeansPublished, PTL

\* A message about an order is handled at most once and never leaves the pending
\* list unsettled, and a fault of a consumer costs at most its batch, also where
\* the stream is fed by relays that publish a row several times (as messages of
\* their own).
THEOREM EventsAreHandled ==
    EventsSpec => [](NothingForgotten /\ HandledOnce /\ LossIsBounded)
  BY ImplementsGroup, NothingIsForgotten, MessagesAreHandledOnce, LossesAreBounded, PTL

\* A copy of an event on the stream is accounted for: not yet read, read and not
\* acknowledged, handled, on the dead-letter stream now, or trimmed from one of
\* the two streams by max_stream_len newer entries.
CopyIsAccounted(m) ==
    \/ read < m
    \/ m \in pending
    \/ handled[m] > 0
    \/ OnDlq(m)
    \/ m \in skipped /\ m + MaxLen <= len
    \/ \E n \in DOMAIN dlq : dlq[n] = m /\ n + MaxLen <= Len(dlq)

\* Where the event of an order is at any moment: in the outbox, as a row that a
\* relay has yet to publish or has given up, or on the stream.
OrdersAreAccounted ==
    \A c \in Calls : orders[c] # None =>
        \/ Status(c) \cap {"PENDING", "FAILED"} # {}
        \/ Copies(c) # {} /\ \A m \in Copies(c) : CopyIsAccounted(m)

\* The safety half of OrdersReachAHandler, across both components: between the
\* commit of an order and its handler there is no moment at which its event is in
\* no table, on no stream and in nobody's hands without having been handled or
\* trimmed by max_stream_len newer entries, whatever relays and consumers fail in
\* between.
THEOREM EventsAreAccounted == EventsSpec => []OrdersAreAccounted
<1>1. ASSUME OutboxTypeOK, GroupTypeOK, EventIffOrder, PublishedIsOnStream, NothingForgotten
      PROVE  OrdersAreAccounted
  <2> SUFFICES ASSUME NEW c \in Calls, orders[c] # None,
                      Status(c) \cap {"PENDING", "FAILED"} = {}
               PROVE  Copies(c) # {} /\ \A m \in Copies(c) : CopyIsAccounted(m)
    BY DEF OrdersAreAccounted
  <2>1. PICK n \in DOMAIN outbox : outbox[n].event = c
    BY <1>1 DEF EventIffOrder
  <2>2. outbox[n] \in Entry
    BY <1>1 DEF OutboxTypeOK
  <2>3. outbox[n].status \in Status(c)
    BY <2>1 DEF Status
  <2>4. outbox[n].status = "PUBLISHED"
    BY <2>2, <2>3 DEF Entry, OutboxStatus
  <2>5. c \in Range(stream)
    BY <1>1, <2>1, <2>4 DEF PublishedIsOnStream
  <2>6. Copies(c) # {}
    BY <2>5 DEF Copies, Range
  <2>7. ASSUME NEW m \in Copies(c) PROVE CopyIsAccounted(m)
    <3>1. m \in 1..Len(stream) /\ Len(stream) \in Nat
      BY <1>1 DEF Copies, GroupTypeOK
    <3>2. read \in 0..Len(stream)
      BY <1>1 DEF GroupTypeOK, len
    <3>3. read < m \/ m \in 1..read
      BY <3>1, <3>2
    <3>4. m \in Messages
      BY <1>1, <3>1, ConsumerAssumption DEF GroupTypeOK, len, Messages
    <3>5. handled[m] = 0 \/ handled[m] > 0
      BY <1>1, <3>4 DEF GroupTypeOK
    <3> QED
      BY <1>1, <3>3, <3>5 DEF CopyIsAccounted, NothingForgotten
  <2> QED
    BY <2>6, <2>7
<1> QED
  BY <1>1, ImplementsOutbox, ImplementsGroup, OutboxTypeCorrect, GroupTypeCorrect,
     EventsAreConsistent, NothingIsForgotten, PTL
=============================================================================
