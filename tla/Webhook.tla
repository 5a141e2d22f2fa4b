------------------------------ MODULE Webhook ------------------------------
(***************************************************************************)
(* The webhook notifications go to (agent/internal/notify/notify.go): a    *)
(* bounded queue, one sender that retries, and Close, which delivers what  *)
(* is queued for a bounded time.  Events are numbered in the order in      *)
(* which Notify was called.                                                *)
(***************************************************************************)
EXTENDS Integers, Sequences

CONSTANTS
    QueueSize,    \* queueSize
    Retries,      \* len(backoff)
    MaxEvents     \* bound: events notified

ASSUME WebhookAssumption == QueueSize \in Nat /\ Retries \in Nat /\ MaxEvents \in Nat

VARIABLES
    notified,   \* events Notify was called with
    queue,      \* Webhook.queue
    closed,     \* "open", "draining" (Close waits), "cancelled" (the drain took too long)
    sending,    \* the event being delivered, 0: none
    attempts,   \* attempts made for each event
    accepted,   \* events that were queued
    refused,    \* events the endpoint rejected outright
    received,   \* what reached the endpoint
    ended       \* done: the sender has returned

webhookVars == <<notified, queue, closed, sending, attempts, accepted, refused, received, ended>>

Events == 1 .. MaxEvents

WebhookInit ==
    /\ notified = 0 /\ queue = <<>> /\ closed = "open" /\ sending = 0
    /\ attempts = [e \in Events |-> 0]
    /\ accepted = {} /\ refused = {} /\ received = <<>> /\ ended = FALSE

(* A full queue, or a webhook that is closed, drops the event.             *)
Notify ==
    LET e == notified + 1
        takes == closed = "open" /\ Len(queue) < QueueSize
    IN /\ notified < MaxEvents /\ notified' = e
       /\ queue' = IF takes THEN Append(queue, e) ELSE queue
       /\ accepted' = IF takes THEN accepted \cup {e} ELSE accepted
       /\ UNCHANGED <<closed, sending, attempts, refused, received, ended>>

CloseBegins ==
    /\ closed = "open" /\ closed' = "draining"
    /\ UNCHANGED <<notified, queue, sending, attempts, accepted, refused, received, ended>>

DrainExpires ==
    /\ closed = "draining" /\ ~ended /\ closed' = "cancelled"
    /\ UNCHANGED <<notified, queue, sending, attempts, accepted, refused, received, ended>>

(* run: the next event, until the closed queue is empty.                   *)
SenderTakes ==
    /\ sending = 0 /\ queue # <<>>
    /\ sending' = Head(queue) /\ queue' = Tail(queue)
    /\ UNCHANGED <<notified, closed, attempts, accepted, refused, received, ended>>

SenderReturns ==
    /\ sending = 0 /\ queue = <<>> /\ closed # "open" /\ ~ended
    /\ ended' = TRUE
    /\ UNCHANGED <<notified, queue, closed, sending, attempts, accepted, refused, received>>

(* Mutant: the last retry is left out.                                     *)
GivesUpEarly(e) == attempts'[e] >= Retries \/ closed = "cancelled"

(* deliver: an attempt that failed is the last one after len(backoff)      *)
(* retries, and once the drain has taken too long.                         *)
GivesUp(e) == attempts'[e] > Retries \/ closed = "cancelled"

(* post: taken; taken although the answer was lost; not reached, or an     *)
(* answer that may get better; rejected.  A cancelled context fails.       *)
Deliver(outcome) ==
    LET e == sending IN
    /\ sending # 0 /\ (closed = "cancelled" => outcome = "failed")
    /\ attempts' = [attempts EXCEPT ![e] = @ + 1]
    /\ received' = IF outcome \in {"taken", "unanswered"} THEN Append(received, e) ELSE received
    /\ refused' = IF outcome = "rejected" THEN refused \cup {e} ELSE refused
    /\ sending' = IF outcome \in {"taken", "rejected"} \/ GivesUp(e) THEN 0 ELSE e
    /\ UNCHANGED <<notified, queue, closed, accepted, ended>>

WebhookNext ==
    \/ Notify \/ CloseBegins \/ DrainExpires \/ SenderTakes \/ SenderReturns
    \/ \E outcome \in {"taken", "unanswered", "failed", "rejected"} : Deliver(outcome)

WebhookSpec == WebhookInit /\ [][WebhookNext]_webhookVars

-----------------------------------------------------------------------------
(* The endpoint hears of events in the order in which they happened, an    *)
(* event that was queued before one it has heard of included unless it     *)
(* rejected it or every retry failed: an outage that was told of before    *)
(* its recovery is never told after it (Webhook.run, Webhook.deliver).     *)
ToldInOrder ==
    \A j \in DOMAIN received :
        /\ \A i \in 1 .. j : received[i] <= received[j]
        /\ \A e \in accepted : e < received[j] =>
              \/ \E i \in 1 .. j : received[i] = e
              \/ e \in refused
              \/ attempts[e] = Retries + 1
=============================================================================
