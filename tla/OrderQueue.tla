----------------------------- MODULE OrderQueue -----------------------------
(***************************************************************************)
(* The road of an order.created event from publish() (app/queue.py) to the *)
(* e-mail and the warehouse (workers/order_worker.py): the durable queue   *)
(* "orders" of RabbitMQ, as the two sides use it, and any number of worker *)
(* processes that consume it with prefetch_count=1.                        *)
(*                                                                         *)
(* The broker side is external.  It is modelled from what the code relies  *)
(* on: a confirmed persistent message survives a broker restart; a message *)
(* is with one consumer at a time; when the connection of a consumer ends, *)
(* its unacknowledged message goes back to where it was; an ACK on a dead  *)
(* connection does nothing; message.process() of aio_pika answers an       *)
(* exception with reject(requeue=False), its default.                      *)
(***************************************************************************)
EXTENDS Integers, SequencesExt, FiniteSets

CONSTANTS
    Events,         \* order ids of the events
    Workers,        \* worker processes
    NoEvent,        \* "the worker has no message"
    MaxOutages      \* bound: how often connections and processes break

ASSUME OrderQueueAssumption ==
    NoEvent \notin Events /\ MaxOutages \in Nat

VARIABLES
    sent,           \* events whose publish() has returned
    ready,          \* the queue, oldest message first
    unacked,        \* unacked[w]: the message that the broker gave to w
    task,           \* task[w]: where process_message of w stands
    message,        \* message[w]: the message that the code of w works on
    emailed,        \* emailed[e]: confirmation e-mails for e
    notified,       \* notified[e]: warehouse notifications for e
    acked,          \* events the broker has removed on an ACK
    dropped,        \* events the broker has removed on a rejection
    outages         \* outages so far, up to MaxOutages

queueVars ==
    <<sent, ready, unacked, task, message, emailed, notified, acked, dropped,
      outages>>

Tasks == {"waiting", "handling", "emailed", "done", "raised", "down"}

QueueTypeOK ==
    /\ sent \in SUBSET Events
    /\ ready \in Seq(Events)
    /\ unacked \in [Workers -> Events \cup {NoEvent}]
    /\ task \in [Workers -> Tasks]
    /\ message \in [Workers -> Events \cup {NoEvent}]
    /\ emailed \in [Events -> Nat]
    /\ notified \in [Events -> Nat]
    /\ acked \in SUBSET Events
    /\ dropped \in SUBSET Events
    /\ outages \in 0 .. MaxOutages

QueueInit ==
    /\ sent = {}
    /\ ready = <<>>
    /\ unacked = [w \in Workers |-> NoEvent]
    /\ task = [w \in Workers |-> "waiting"]
    /\ message = [w \in Workers |-> NoEvent]
    /\ emailed = [e \in Events |-> 0]
    /\ notified = [e \in Events |-> 0]
    /\ acked = {}
    /\ dropped = {}
    /\ outages = 0

-----------------------------------------------------------------------------
\* Mutant: publish() tries again although the broker has the message.
EnqueuedTwice(e) == ready \o <<e, e>>

\* The default exchange routes the message to the queue named "orders".
Enqueued(e) == Append(ready, e)

\* publish(): the broker confirms once the message is stored.
Send(e) ==
    /\ e \notin sent
    /\ sent' = sent \cup {e}
    /\ ready' = Enqueued(e)
    /\ UNCHANGED <<unacked, task, message, emailed, notified, acked, dropped,
                   outages>>

\* The broker gives its oldest message to a consumer that has acknowledged
\* the one before (prefetch_count=1), and process_message starts.
Deliver(w) ==
    /\ task[w] = "waiting"
    /\ unacked[w] = NoEvent
    /\ ready # <<>>
    /\ unacked' = [unacked EXCEPT ![w] = Head(ready)]
    /\ message' = [message EXCEPT ![w] = Head(ready)]
    /\ ready' = Tail(ready)
    /\ task' = [task EXCEPT ![w] = "handling"]
    /\ UNCHANGED <<sent, emailed, notified, acked, dropped, outages>>

\* handle_order_created: first the e-mail, then the warehouse.  Nothing
\* remembers which orders were handled before.
SendEmail(w) ==
    /\ task[w] = "handling"
    /\ emailed' = [emailed EXCEPT ![message[w]] = @ + 1]
    /\ task' = [task EXCEPT ![w] = "emailed"]
    /\ UNCHANGED <<sent, ready, unacked, message, notified, acked, dropped,
                   outages>>

NotifyWarehouse(w) ==
    /\ task[w] = "emailed"
    /\ notified' = [notified EXCEPT ![message[w]] = @ + 1]
    /\ task' = [task EXCEPT ![w] = "done"]
    /\ UNCHANGED <<sent, ready, unacked, message, emailed, acked, dropped,
                   outages>>

\* Decoding or one of the two calls raises; it is logged and raised again.
HandlerRaises(w) ==
    /\ task[w] \in {"handling", "emailed"}
    /\ task' = [task EXCEPT ![w] = "raised"]
    /\ UNCHANGED <<sent, ready, unacked, message, emailed, notified, acked,
                   dropped, outages>>

\* The context manager of message.process() ends; the broker takes notice if
\* the message is still with this consumer.
Settled(w) == {unacked[w]} \ {NoEvent}

\* Mutants: the ACK is sent before the work is done, or never.
MayAckEarly(w) == task[w] \in {"emailed", "done"}
MayAckNever(w) == FALSE

\* The block of process_message has ended normally.
MayAck(w) == task[w] = "done"

Ack(w) ==
    /\ MayAck(w)
    /\ acked' = acked \cup Settled(w)
    /\ unacked' = [unacked EXCEPT ![w] = NoEvent]
    /\ message' = [message EXCEPT ![w] = NoEvent]
    /\ task' = [task EXCEPT ![w] = "waiting"]
    /\ UNCHANGED <<sent, ready, emailed, notified, dropped, outages>>

\* Mutant: requeue=True.
RequeuedAtFront(w) == SetToSeq(Settled(w))

\* What becomes of a rejected message: with requeue=False the broker drops
\* it, for no dead-letter exchange is declared.
Requeued(w) == <<>>

RejectMessage(w) ==
    /\ task[w] = "raised"
    /\ ready' = Requeued(w) \o ready
    /\ dropped' = dropped \cup (Settled(w) \ ToSet(Requeued(w)))
    /\ unacked' = [unacked EXCEPT ![w] = NoEvent]
    /\ message' = [message EXCEPT ![w] = NoEvent]
    /\ task' = [task EXCEPT ![w] = "waiting"]
    /\ UNCHANGED <<sent, emailed, notified, acked, outages>>

-----------------------------------------------------------------------------
(* Outages                                                                 *)

\* The broker takes back what a lost connection had not acknowledged.
TakeBack(w) ==
    /\ unacked' = [unacked EXCEPT ![w] = NoEvent]
    /\ ready' = SetToSeq(Settled(w)) \o ready

CountOutage == outages < MaxOutages /\ outages' = outages + 1

\* The worker process ends, wherever it stands.
Crash(w) ==
    /\ task[w] # "down"
    /\ CountOutage
    /\ TakeBack(w)
    /\ message' = [message EXCEPT ![w] = NoEvent]
    /\ task' = [task EXCEPT ![w] = "down"]
    /\ UNCHANGED <<sent, emailed, notified, acked, dropped>>

\* main() connects, declares the queue and consumes again.
Restart(w) ==
    /\ task[w] = "down"
    /\ task' = [task EXCEPT ![w] = "waiting"]
    /\ UNCHANGED <<sent, ready, unacked, message, emailed, notified, acked,
                   dropped, outages>>

\* The connection is lost and connect_robust() makes a new one; the handler
\* in progress does not notice and goes on with its message.
LoseConnection(w) ==
    /\ unacked[w] # NoEvent
    /\ CountOutage
    /\ TakeBack(w)
    /\ UNCHANGED <<sent, task, message, emailed, notified, acked, dropped>>

WorkerStep(w) ==
    \/ Deliver(w) \/ SendEmail(w) \/ NotifyWarehouse(w) \/ Ack(w)
    \/ RejectMessage(w) \/ Restart(w)

QueueNext ==
    \/ \E e \in Events : Send(e)
    \/ \E w \in Workers :
        WorkerStep(w) \/ HandlerRaises(w) \/ Crash(w) \/ LoseConnection(w)

QueueSpec == QueueInit /\ [][QueueNext]_queueVars

\* Workers go on with what they have, are restarted when they end and are
\* given messages while there are any.
FairQueueSpec ==
    QueueSpec /\ \A w \in Workers : WF_queueVars(WorkerStep(w))

-----------------------------------------------------------------------------
(* Properties                                                              *)

Waiting(e) == {i \in DOMAIN ready : ready[i] = e}
Handed(e) == {w \in Workers : unacked[w] = e}

\* Through crashes, lost connections and rejections every confirmed message
\* is in exactly one place: once in the queue, with one worker, or removed
\* for one reason.  Nothing vanishes and nothing is queued twice.
OnePlacePerMessage ==
    \A e \in Events :
        Cardinality(Waiting(e)) + Cardinality(Handed(e))
            + Cardinality({e} \cap acked) + Cardinality({e} \cap dropped)
        = Cardinality({e} \cap sent)

\* The broker forgets a message on an ACK only when both the customer and the
\* warehouse have been told (order_worker.py:83-84).
AckedMeansHandled ==
    \A e \in acked : emailed[e] > 0 /\ notified[e] > 0

\* "At-least-once" costs duplicates, but only outages make them: one outage,
\* at most one more e-mail, of all events together (order_worker.py:24-30).
Repeats == UNION {{e} \X (2 .. emailed[e]) : e \in Events}

DuplicatesNeedOutages ==
    /\ Cardinality(Repeats) <= outages
    /\ \A e \in Events : notified[e] <= emailed[e]

\* "we re-raise exceptions ... so the NACK is sent and the message goes back
\* into the queue rather than being silently dropped" (order_worker.py:88-89).
FailedMessagesReturn ==
    [][\A w \in Workers :
          RejectMessage(w) => Settled(w) \subseteq ToSet(ready')]_queueVars

\* As long as outages are finite every event is settled in the end: told to
\* the warehouse, or dropped because its handling raised.
EveryEventIsSettled ==
    \A e \in Events :
        (e \in sent) ~> ((notified[e] > 0 /\ e \in acked) \/ e \in dropped)
=============================================================================
