--------------------------- MODULE WebhookDelivery ---------------------------
(***************************************************************************)
(* One organization's outbound webhooks: the rows of webhook_deliveries,   *)
(* the flushes that send them (processPendingWebhookDeliveries: POST       *)
(* /webhooks/process, /webhooks/test and /ops/webhooks/process, and the    *)
(* webhook_flush job), and the receiver.                                   *)
(*                                                                         *)
(* A flush reads the rows that are due, with their attempt counts, and     *)
(* then POSTs and records one after the other; rows are not claimed.  An   *)
(* answer may be lost or come after the timeout, and then the receiver has *)
(* accepted what the flush takes for a failure.  Targets, signatures,      *)
(* bodies and times are left out; next_attempt_at is either in the future  *)
(* or due.                                                                 *)
(***************************************************************************)
EXTENDS Naturals, FiniteSetsExt, Sequences

CONSTANTS
  Flusher,        \* flushes in flight at once
  FlushLimit,     \* rows a flush takes up: its limit parameter
  FlushFaults,    \* TRUE: statements may fail and the server may crash
  MaxDeliveries,  \* bound: rows ever enqueued
  MaxFlushes      \* bound: flushes ever started

ASSUME WebhookParameters ==
  /\ FlushLimit \in Nat \ {0} /\ MaxDeliveries \in Nat /\ MaxFlushes \in Nat

VARIABLES
  deliveries,    \* webhook_deliveries, in the order of created_at
  flush,         \* [Flusher -> the flush in flight and its local variables]
  flushes,       \* how many flushes have been started
  flushOverlap   \* history: two flushes have been in flight at the same time

webhookVars == <<deliveries, flush, flushes, flushOverlap>>

\* History fields: sends counts the POSTs, acks those a flush has seen accepted,
\* lost those whose outcome was not written.
Delivery == [status : {"pending", "delivered", "failed"}, due : BOOLEAN,
             attempts : Nat, sends : Nat, acks : Nat, lost : Nat]

\* phase: what comes next for the first row in hand; rows: the attempt counts, as
\* they were read, of the rows in hand.
NoFlush == [phase |-> "idle", rows |-> <<>>]

WebhooksInit ==
  /\ deliveries = <<>>
  /\ flush = [f \in Flusher |-> NoFlush]
  /\ flushes = 0
  /\ flushOverlap = FALSE

\* Mutant of Sendable: the status is not looked at.
SendableWhenDue == {i \in DOMAIN deliveries : deliveries[i].due}

Sendable ==
  {i \in DOMAIN deliveries : deliveries[i].status \in {"pending", "failed"} /\ deliveries[i].due}

\* ORDER BY created_at LIMIT n
FlushBatch(limit) == {i \in Sendable : Cardinality({k \in Sendable : k < i}) < limit}

ToSend(f) == DOMAIN flush[f].rows
Sending(f) == Min(ToSend(f))

NextDelivery(f) ==
  LET rest == ToSend(f) \ {Sending(f)} IN
  flush' = [flush EXCEPT ![f] =
    IF rest = {} THEN NoFlush
    ELSE [phase |-> "send", rows |-> [i \in rest |-> flush[f].rows[i]]]]
-----------------------------------------------------------------------------
\* enqueueWebhookEvent: an INSERT for each subscription of the event.
EnqueueDelivery ==
  /\ Len(deliveries) < MaxDeliveries
  /\ deliveries' = Append(deliveries,
       [status |-> "pending", due |-> TRUE, attempts |-> 0, sends |-> 0, acks |-> 0,
        lost |-> 0])
  /\ UNCHANGED <<flush, flushes, flushOverlap>>

\* next_attempt_at passes.
BackoffEnds(i) ==
  /\ deliveries[i].status = "failed" /\ ~deliveries[i].due
  /\ deliveries' = [deliveries EXCEPT ![i].due = TRUE]
  /\ UNCHANGED <<flush, flushes, flushOverlap>>

ReadDeliveries(f, limit) ==
  /\ flush[f].phase = "idle" /\ flushes < MaxFlushes
  /\ Sendable # {}
  /\ flush' = [flush EXCEPT ![f] =
       [phase |-> "send", rows |-> [i \in FlushBatch(limit) |-> deliveries[i].attempts]]]
  /\ flushes' = flushes + 1
  /\ flushOverlap' = (flushOverlap \/ \E g \in Flusher : flush[g].phase # "idle")
  /\ UNCHANGED deliveries

\* The POST is answered with success in time (ok), or anything else happens: the
\* receiver may have accepted the event then too.
Post(f) ==
  LET i == Sending(f) IN
  /\ flush[f].phase = "send"
  /\ \E ok \in BOOLEAN :
       /\ deliveries' = [deliveries EXCEPT
            ![i].sends = @ + 1, ![i].acks = IF ok THEN @ + 1 ELSE @]
       /\ flush' = [flush EXCEPT ![f].phase = IF ok THEN "delivered" ELSE "failed"]
  /\ UNCHANGED <<flushes, flushOverlap>>

\* By id alone; the count is the one that was read plus one.
RecordDelivered(f) ==
  LET i == Sending(f) IN
  /\ flush[f].phase = "delivered"
  /\ deliveries' = [deliveries EXCEPT ![i].status = "delivered",
                                      ![i].attempts = flush[f].rows[i] + 1]
  /\ NextDelivery(f)
  /\ UNCHANGED <<flushes, flushOverlap>>

\* The UPDATE throws inside the try block, and the catch block takes the delivery
\* for failed.
DeliveredNotWritten(f) ==
  /\ FlushFaults
  /\ flush[f].phase = "delivered"
  /\ deliveries' = [deliveries EXCEPT ![Sending(f)].lost = @ + 1]
  /\ flush' = [flush EXCEPT ![f].phase = "failed"]
  /\ UNCHANGED <<flushes, flushOverlap>>

\* Mutant of RecordFailed: the attempt is counted by the error branch and once more
\* by the catch block.
RecordFailedTwice(f) ==
  LET i == Sending(f) IN
  /\ flush[f].phase = "failed"
  /\ deliveries' = [deliveries EXCEPT ![i].status = "failed", ![i].due = FALSE,
                                      ![i].attempts = flush[f].rows[i] + 2]
  /\ NextDelivery(f)
  /\ UNCHANGED <<flushes, flushOverlap>>

\* An error status or an exception: to be tried again after a back-off, however
\* often it has failed.
RecordFailed(f) ==
  LET i == Sending(f) IN
  /\ flush[f].phase = "failed"
  /\ deliveries' = [deliveries EXCEPT ![i].status = "failed", ![i].due = FALSE,
                                      ![i].attempts = flush[f].rows[i] + 1]
  /\ NextDelivery(f)
  /\ UNCHANGED <<flushes, flushOverlap>>

\* The server dies, or the UPDATE of the catch block throws.
FlushDies(f) ==
  /\ FlushFaults
  /\ flush[f].phase # "idle"
  /\ deliveries' = IF flush[f].phase = "send" THEN deliveries
                    ELSE [deliveries EXCEPT ![Sending(f)].lost = @ + 1]
  /\ flush' = [flush EXCEPT ![f] = NoFlush]
  /\ UNCHANGED <<flushes, flushOverlap>>

FlushStep(f) == Post(f) \/ RecordDelivered(f) \/ DeliveredNotWritten(f) \/ RecordFailed(f)

WebhooksNext ==
  \/ EnqueueDelivery
  \/ \E i \in DOMAIN deliveries : BackoffEnds(i)
  \/ \E f \in Flusher, limit \in 1 .. FlushLimit : ReadDeliveries(f, limit)
  \/ \E f \in Flusher : FlushStep(f) \/ FlushDies(f)

WebhooksSpec == WebhooksInit /\ [][WebhooksNext]_webhookVars
-----------------------------------------------------------------------------
\* Type correctness: the log holds deliveries, and a flush in flight has existing
\* rows in hand and only then.
WebhooksTypeOK ==
  /\ deliveries \in Seq(Delivery)
  /\ DOMAIN flush = Flusher
  /\ \A f \in Flusher :
       /\ flush[f].phase \in {"idle", "send", "delivered", "failed"}
       /\ flush[f].phase = "idle" <=> ToSend(f) = {}
       /\ ToSend(f) \subseteq DOMAIN deliveries
  /\ flushes \in Nat /\ flushOverlap \in BOOLEAN

\* 1 while a POST of the delivery has been made and its outcome is being written.
BeingRecorded(i) ==
  Cardinality({f \in Flusher : flush[f].phase \in {"delivered", "failed"} /\ Sending(f) = i})

\* The attempt count of a delivery never runs ahead of the POSTs that were made;
\* and as long as flushes do not overlap, it misses only those whose outcome was
\* lost or is being written.
AttemptsAccount ==
  \A i \in DOMAIN deliveries :
    LET d == deliveries[i] IN
    /\ d.attempts <= d.sends
    /\ ~flushOverlap => d.sends <= d.attempts + d.lost + BeingRecorded(i)

\* A receiver that has answered with success does not get the event again: as long
\* as flushes do not overlap, only a lost outcome costs another delivery.
AcknowledgedOnce ==
  ~flushOverlap =>
    \A i \in DOMAIN deliveries : deliveries[i].acks <= 1 + deliveries[i].lost
=============================================================================
