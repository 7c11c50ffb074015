---------------------------- MODULE EventConsumer ---------------------------
(***************************************************************************)
(* core/streams.py, RedisStreamBroker.consume_loop: consumers of one       *)
(* consumer group read a Redis stream, hand each message to a handler,     *)
(* acknowledge it, and move messages that fail to a dead-letter stream.    *)
(* The handler is NotifierService.handle_event of services/notifier, whose *)
(* memory of the events it has seen belongs to its process.  (handle_event *)
(* is a plain function of event id, type and payload; the coroutine that   *)
(* would unpack an envelope for it is not in the repository.)              *)
(*                                                                         *)
(* Redis keeps the stream, the group's read position and the list of       *)
(* messages that were read and not acknowledged (pending).  The loop asks  *)
(* only for new messages (">"), never for its pending ones.  Messages are  *)
(* their positions in the stream; publishing trims the stream to about     *)
(* MaxLen messages, whether they were read or not, and so is the           *)
(* dead-letter stream trimmed.                                             *)
(*                                                                         *)
(* A Redis command that raises may have been executed: only its answer was *)
(* lost.  (An XREADGROUP that loses its answer leaves its batch pending in *)
(* nobody's hands, as a crash right after it does.)                        *)
(***************************************************************************)
EXTENDS EventStream, FiniteSets, Functions

CONSTANTS
    Consumers,    \* processes that run consume_loop in the group
    MaxMessages,  \* bound on the messages published
    ConsumerBatch, \* batch_size of consume_loop
    MaxLen,       \* max_stream_len
    Events,       \* event_id values; a producer may publish an event twice
    Notifiable,   \* events of a type that handle_event knows
    Poison,       \* events that do not parse or whose handler raises
    MaxFaults     \* bound on consumer restarts and on failed Redis commands

ASSUME ConsumerAssumption ==
    /\ MaxMessages \in Nat /\ ConsumerBatch \in Nat \ {0} /\ MaxFaults \in Nat
    /\ MaxLen \in Nat \ {0}
    /\ Notifiable \subseteq Events /\ Poison \subseteq Events

VARIABLES
    first,    \* oldest message that is still on the stream
    read,     \* last position delivered to the group
    pending,  \* the group's pending entries list
    taken,    \* messages that the consumer has yet to handle
    stage,    \* where the consumer stands with the first of them
    handled,  \* how often the handler ran to its end, by message
    dlq,      \* messages put on the dead-letter stream so far
    dlqFirst, \* oldest of them that is still there
    seen,     \* _processed_events of the consumer's process
    notified, \* notifications sent, by event
    restarts, \* how often a process lost that memory
    skipped,  \* history: messages trimmed before the group read them
    faults

notifier == <<seen, notified, restarts>>
deadLetters == <<dlq, dlqFirst>>
groupVars == <<stream, first, read, pending, taken, stage, handled, dlq, dlqFirst, seen,
               notified, restarts, skipped, faults>>
Messages == 1..MaxMessages

GroupTypeOK ==
    /\ stream \in Seq(Events) /\ len <= MaxMessages
    /\ first \in 1..(len + 1)
    /\ read \in 0..len
    /\ pending \subseteq 1..read
    /\ taken \in [Consumers -> Seq(Messages)]
    /\ stage \in [Consumers -> {"handle", "ack", "dead", "deadack"}]
    /\ handled \in [Messages -> Nat]
    /\ dlq \in Seq(Messages)
    /\ dlqFirst \in 1..(Len(dlq) + 1)
    /\ seen \in [Consumers -> SUBSET Events]
    /\ notified \in [Events -> Nat]
    /\ restarts \in Nat
    /\ skipped \subseteq 1..read
    /\ faults \in 0..MaxFaults

GroupInit ==
    /\ stream = <<>> /\ first = 1 /\ read = 0 /\ pending = {}
    /\ taken = [c \in Consumers |-> <<>>]
    /\ stage = [c \in Consumers |-> "handle"]
    /\ handled = [m \in Messages |-> 0]
    /\ dlq = <<>> /\ dlqFirst = 1
    /\ seen = [c \in Consumers |-> {}]
    /\ notified = [e \in Events |-> 0]
    /\ restarts = 0
    /\ skipped = {}
    /\ faults = 0

\* Mutant: a stream is trimmed to less than max_stream_len.
TrimmedShort(oldest, n) == oldest..(IF n + 2 - MaxLen > oldest THEN n + 2 - MaxLen ELSE oldest)
\* XADD MAXLEN ~ of the n-th entry of a stream: Redis may remove old entries as
\* long as MaxLen are left.
Trimmed(oldest, n) == oldest..(IF n + 1 - MaxLen > oldest THEN n + 1 - MaxLen ELSE oldest)

\* A producer appends a message (OutboxRelay, publish).
Produce(e) ==
    /\ len < MaxMessages
    /\ stream' = Append(stream, e)
    /\ first' \in Trimmed(first, len + 1)
    /\ UNCHANGED <<read, pending, taken, stage, handled, deadLetters, notifier, skipped, faults>>

\* Mutant: the range starts with the last message that was read.
FirstUnreadInclusive == IF read < first THEN first ELSE read
\* ">" is the first message that is there and was never delivered to the group.
FirstUnread == IF read + 1 < first THEN first ELSE read + 1

\* XREADGROUP: up to ConsumerBatch new messages, which become pending.
ReadNew(c) ==
    /\ taken[c] = <<>>
    /\ FirstUnread <= len
    /\ LET last == IF len < FirstUnread + ConsumerBatch - 1 THEN len
                   ELSE FirstUnread + ConsumerBatch - 1
       IN /\ taken' = [taken EXCEPT ![c] =
                          [n \in 1..(last - FirstUnread + 1) |-> FirstUnread + n - 1]]
          /\ pending' = pending \cup (FirstUnread..last)
          /\ skipped' = skipped \cup ((read + 1)..(FirstUnread - 1))
          /\ read' = last
    /\ stage' = [stage EXCEPT ![c] = "handle"]
    /\ UNCHANGED <<stream, first, handled, deadLetters, notifier, faults>>

Current(c) == Head(taken[c])
Event(c) == stream[Current(c)]
At(c, s) == taken[c] # <<>> /\ stage[c] = s
ToStage(c, s) == stage' = [stage EXCEPT ![c] = s]

\* Mutant: the event is not remembered.
HandleEventForgets(c, e) ==
    /\ notified' = IF e \in Notifiable THEN [notified EXCEPT ![e] = @ + 1] ELSE notified
    /\ UNCHANGED <<seen, restarts>>
\* handle_event: a duplicate or an unknown type returns False and does nothing.
HandleEvent(c, e) ==
    IF e \in Notifiable \ seen[c]
      THEN /\ seen' = [seen EXCEPT ![c] = @ \cup {e}]
           /\ notified' = [notified EXCEPT ![e] = @ + 1]
           /\ UNCHANGED restarts
      ELSE UNCHANGED notifier

HandlerReturns(c) ==
    /\ At(c, "handle") /\ Event(c) \notin Poison
    /\ handled' = [handled EXCEPT ![Current(c)] = @ + 1]
    /\ HandleEvent(c, Event(c))
    /\ ToStage(c, "ack")
    /\ UNCHANGED <<stream, first, read, pending, taken, deadLetters, skipped, faults>>

\* Mutant: the error path acknowledges without keeping the message.
AfterErrorDrop == "deadack"
\* The error path begins with send_to_dlq.
AfterError == "dead"

\* from_stream_dict or the handler raises.
HandlerRaises(c) ==
    /\ At(c, "handle") /\ Event(c) \in Poison
    /\ ToStage(c, AfterError)
    /\ UNCHANGED <<stream, first, read, pending, taken, handled, deadLetters, notifier, skipped,
                   faults>>

\* Mutant: the loop leaves the batch after its first message.
AcknowledgeAndBreak(c) ==
    /\ pending' = pending \ {Current(c)}
    /\ taken' = [taken EXCEPT ![c] = <<>>]
    /\ ToStage(c, "handle")
\* The message leaves the pending list and the consumer turns to the next one.
Acknowledge(c) ==
    /\ pending' = pending \ {Current(c)}
    /\ taken' = [taken EXCEPT ![c] = Tail(@)]
    /\ ToStage(c, "handle")

Ack(c) ==
    /\ At(c, "ack") \/ At(c, "deadack")
    /\ Acknowledge(c)
    /\ UNCHANGED <<stream, first, read, handled, deadLetters, notifier, skipped, faults>>

\* The XADD of send_to_dlq, which trims the dead-letter stream.
DeadLetter(c) ==
    /\ dlq' = Append(dlq, Current(c))
    /\ dlqFirst' \in Trimmed(dlqFirst, Len(dlq) + 1)

SendToDlq(c) ==
    /\ At(c, "dead")
    /\ DeadLetter(c)
    /\ ToStage(c, "deadack")
    /\ UNCHANGED <<stream, first, read, pending, taken, handled, notifier, skipped, faults>>

\* An XACK that raises was executed or not.
AckUnsure(c) == pending' \in {pending, pending \ {Current(c)}}

\* XACK after a successful handler raises: the same error path, so a message
\* that was handled goes to the dead-letter stream too.
AckRaises(c) ==
    /\ faults < MaxFaults /\ faults' = faults + 1
    /\ At(c, "ack")
    /\ AckUnsure(c)
    /\ ToStage(c, AfterError)
    /\ UNCHANGED <<stream, first, read, taken, handled, deadLetters, notifier, skipped>>

\* A Redis command of the error path raises: the outer except abandons the
\* batch; what is left of it stays pending.
ErrorPathRaises(c) ==
    /\ faults < MaxFaults /\ faults' = faults + 1
    /\ \/ At(c, "dead") /\ (DeadLetter(c) \/ UNCHANGED deadLetters) /\ UNCHANGED pending
       \/ At(c, "deadack") /\ AckUnsure(c) /\ UNCHANGED deadLetters
    /\ taken' = [taken EXCEPT ![c] = <<>>]
    /\ ToStage(c, "handle")
    /\ UNCHANGED <<stream, first, read, handled, notifier, skipped>>

\* The consumer's process is killed and restarted.
CrashConsumer(c) ==
    /\ faults < MaxFaults /\ faults' = faults + 1
    /\ taken' = [taken EXCEPT ![c] = <<>>]
    /\ seen' = [seen EXCEPT ![c] = {}]
    /\ restarts' = restarts + 1
    /\ ToStage(c, "handle")
    /\ UNCHANGED <<stream, first, read, pending, handled, deadLetters, notified, skipped>>

ConsumerStep(c) ==
    \/ ReadNew(c)
    \/ HandlerReturns(c)
    \/ HandlerRaises(c)
    \/ Ack(c)
    \/ SendToDlq(c)

Fault(c) == AckRaises(c) \/ ErrorPathRaises(c) \/ CrashConsumer(c)

GroupNext ==
    \/ \E e \in Events : Produce(e)
    \/ \E c \in Consumers : ConsumerStep(c) \/ Fault(c)

GroupSpec == GroupInit /\ [][GroupNext]_groupVars

\* Every consumer keeps looping; faults are not forced.
FairGroupSpec == GroupSpec /\ \A c \in Consumers : WF_groupVars(ConsumerStep(c))

-----------------------------------------------------------------------------
\* The handler finished with the message, or it was put on the dead-letter stream.
Settled(m) == handled[m] > 0 \/ m \in Range(dlq)

\* The message is on the dead-letter stream, where somebody can inspect it.
OnDlq(m) == \E n \in dlqFirst..Len(dlq) : dlq[n] = m

\* Redis forgets a message that was never handled (it is read, no longer pending
\* and not on the dead-letter stream) only by trimming: max_stream_len newer
\* messages pushed it off the stream before the group read it, or max_stream_len
\* newer dead letters pushed it off the dead-letter stream.
NothingForgotten ==
    \A m \in 1..read : m \notin pending /\ handled[m] = 0 =>
        \/ OnDlq(m)
        \/ m \in skipped /\ m + MaxLen <= len
        \/ \E n \in DOMAIN dlq : dlq[n] = m /\ n + MaxLen <= Len(dlq)

\* Consumers of a group never work on the same message, and the handler runs at
\* most once for a message.
HandledOnce ==
    /\ \A m \in Messages : handled[m] <= 1
    /\ \A c, d \in Consumers : c # d =>
          \A j \in DOMAIN taken[c], k \in DOMAIN taken[d] : taken[c][j] # taken[d][k]

\* Read by a consumer that will never come back to it.
Orphaned(m) ==
    /\ m \in pending
    /\ \A c \in Consumers : \A j \in DOMAIN taken[c] : taken[c][j] # m

\* A crash or a failed Redis command costs at most the batch in hand: the
\* messages left unsettled in nobody's hands stay within ConsumerBatch for each.
LossIsBounded ==
    Cardinality({m \in 1..read : Orphaned(m) /\ ~Settled(m)}) <= faults * ConsumerBatch

\* The group recovers from its faults: a message that nobody has read is handled
\* or dead-lettered, whatever was lost before it and whatever poison is ahead of
\* it, unless one more fault happens first or it is trimmed unread.
RecoversAfterFaults ==
    \A m \in Messages, f \in 0..MaxFaults :
        (len >= m /\ read < m /\ faults = f) ~> (Settled(m) \/ m \in skipped \/ faults > f)

\* "tracks processed event_ids to prevent duplicate notifications": a process
\* notifies an event once, however often it is published; a duplicate comes from
\* another process of the group or from before a restart.
NotifiedOncePerProcess ==
    \A e \in Events :
        notified[e] <= Cardinality({c \in Consumers : e \in seen[c]}) + restarts
=============================================================================
