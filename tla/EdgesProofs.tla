---------------------------- MODULE EdgesProofs -----------------------------
(***************************************************************************)
(* What enters and leaves the server: for any queue, any number of retries *)
(* and any answers of the endpoint, the webhook tells of events in order;  *)
(* for any applications, lines, cuts, faults and stops, every request is   *)
(* counted once.  What the server notices: for any readings, outages and   *)
(* restarts an alert is told once when it begins and once when it ends,    *)
(* and for any certificates and failures each event of one is news.        *)
(***************************************************************************)
EXTENDS Webhook, Traffic, Alerts, CertStatus, SequenceTheorems, FiniteSetTheorems, TLAPS

WebhookTyped ==
    /\ notified \in 0 .. MaxEvents
    /\ queue \in Seq(Events) /\ received \in Seq(Events)
    /\ closed \in {"open", "draining", "cancelled"}
    /\ sending \in 0 .. MaxEvents
    /\ attempts \in [Events -> Nat]
    /\ accepted \subseteq 1 .. notified

\* The events that wait are in order and, like those to come, untried.
QueueInOrder ==
    /\ \A e \in Events : e > notified => attempts[e] = 0
    /\ \A i \in DOMAIN queue : queue[i] \in accepted /\ attempts[queue[i]] = 0
    /\ \A i, j \in DOMAIN queue : i < j => queue[i] < queue[j]

\* The one being sent comes before those that wait, and has a try left.
SendingIsNext ==
    sending # 0 =>
        /\ sending \in accepted /\ attempts[sending] <= Retries
        /\ \A i \in DOMAIN queue : sending < queue[i]

\* What was received comes before both.
ReceivedBefore ==
    \A j \in DOMAIN received :
        /\ received[j] \in accepted
        /\ sending # 0 => received[j] <= sending
        /\ \A i \in DOMAIN queue : received[j] < queue[i]

\* An accepted event waits, is being sent or is done with; once the drain has
\* taken too long events are given up, and nothing is received any more.
Done(e) == e \in refused \/ attempts[e] = Retries + 1 \/ \E i \in DOMAIN received : received[i] = e
NoneLost ==
    closed # "cancelled" =>
        \A e \in accepted : e = sending \/ Done(e) \/ \E i \in DOMAIN queue : queue[i] = e

\* The inductive invariant.
WebhookInv == WebhookTyped /\ QueueInOrder /\ SendingIsNext /\ ReceivedBefore /\ NoneLost /\ ToldInOrder

\* What a step changes of the queue, what was received, and the tries.
LEMMA WebhookStep == WebhookInv /\ [WebhookNext]_webhookVars => WebhookInv'
<1> SUFFICES ASSUME WebhookInv, [WebhookNext]_webhookVars PROVE WebhookInv'
  OBVIOUS
<1>1. /\ notified \in Nat /\ sending \in Nat /\ Retries \in Nat
      /\ \A e \in accepted : e \in Nat /\ e # 0 /\ e <= notified /\ e \in Events /\ attempts[e] \in Nat
      /\ Len(queue) \in Nat /\ DOMAIN queue = 1 .. Len(queue)
      /\ Len(received) \in Nat /\ DOMAIN received = 1 .. Len(received)
  BY WebhookAssumption DEF WebhookInv, WebhookTyped, Events
<1>2. /\ WebhookTyped /\ QueueInOrder /\ SendingIsNext /\ ReceivedBefore /\ NoneLost /\ ToldInOrder
  BY DEF WebhookInv
<1>3. CASE Notify
  <2>1. /\ UNCHANGED <<closed, sending, attempts, refused, received>>
        /\ notified' = notified + 1 /\ notified' \in Events
    BY <1>2, <1>3, WebhookAssumption DEF Notify, WebhookTyped, Events
  <2>2. CASE queue' = queue /\ accepted' = accepted
    <3>1. WebhookTyped'
      BY <1>1, <1>2, <2>1, <2>2, WebhookAssumption DEF WebhookTyped, Events
    <3>2. QueueInOrder' /\ SendingIsNext' /\ ReceivedBefore'
      BY <1>1, <1>2, <2>1, <2>2, WebhookAssumption DEF QueueInOrder, SendingIsNext, ReceivedBefore, Events
    <3>3. NoneLost' /\ ToldInOrder'
      BY <1>2, <2>1, <2>2 DEF NoneLost, Done, ToldInOrder
    <3> QED BY <3>1, <3>2, <3>3 DEF WebhookInv
  <2>3. CASE queue' = Append(queue, notified') /\ accepted' = accepted \cup {notified'} /\ closed = "open"
    <3>1. WebhookTyped'
      <4>1. queue' \in Seq(Events)
        BY <1>2, <2>1, <2>3 DEF WebhookTyped
      <4>2. notified' \in 0 .. MaxEvents /\ accepted' \subseteq 1 .. notified'
        BY <1>2, <2>1, <2>3, WebhookAssumption DEF WebhookTyped, Events
      <4> QED BY <1>2, <2>1, <4>1, <4>2 DEF WebhookTyped
    <3>2. /\ DOMAIN queue' = 1 .. Len(queue) + 1 /\ queue'[Len(queue) + 1] = notified + 1
          /\ \A i \in DOMAIN queue : queue'[i] = queue[i]
      BY <1>2, <2>1, <2>3 DEF WebhookTyped
    <3>3. \A i \in DOMAIN queue : i \in DOMAIN queue' /\ queue[i] \in accepted /\ queue[i] < notified + 1
      BY <1>1, <1>2, <3>2 DEF QueueInOrder
    <3>4. \A i \in DOMAIN queue' : i \in DOMAIN queue \/ i = Len(queue) + 1
      BY <1>1, <3>2
    <3>5. attempts[notified + 1] = 0
      BY <1>1, <1>2, <2>1 DEF QueueInOrder
    <3>6. QueueInOrder'
      <4>1. \A e \in Events : e > notified + 1 => e > notified
        BY <1>1, WebhookAssumption DEF Events
      <4> QED BY <1>1, <1>2, <2>1, <2>3, <3>2, <3>3, <3>4, <3>5, <4>1 DEF QueueInOrder
    <3>7. SendingIsNext' /\ ReceivedBefore'
      BY <1>1, <1>2, <2>1, <2>3, <3>2, <3>3, <3>4 DEF SendingIsNext, ReceivedBefore
    <3>8. NoneLost'
      <4>1. Len(queue) + 1 \in DOMAIN queue'
        BY <1>1, <3>2
      <4> QED BY <1>2, <2>1, <2>3, <3>2, <3>3, <4>1 DEF NoneLost, Done
    <3>9. ToldInOrder'
      <4>1. \A j \in DOMAIN received : ~(notified + 1 < received[j])
        BY <1>1, <1>2 DEF ReceivedBefore
      <4> QED BY <1>2, <2>1, <2>3, <4>1 DEF ToldInOrder
    <3> QED BY <3>1, <3>6, <3>7, <3>8, <3>9 DEF WebhookInv
  <2> QED BY <1>3, <2>1, <2>2, <2>3 DEF Notify
<1>4. CASE CloseBegins \/ DrainExpires \/ SenderReturns \/ UNCHANGED webhookVars
  <2>1. /\ UNCHANGED <<notified, queue, sending, attempts, accepted, refused, received>>
        /\ closed' \in {closed, "draining", "cancelled"} /\ (closed = "cancelled" => closed' = "cancelled")
    BY <1>4 DEF CloseBegins, DrainExpires, SenderReturns, webhookVars
  <2>2. WebhookTyped'
    BY <1>2, <2>1 DEF WebhookTyped
  <2>3. QueueInOrder' /\ SendingIsNext' /\ ReceivedBefore' /\ ToldInOrder'
    BY <1>2, <2>1 DEF QueueInOrder, SendingIsNext, ReceivedBefore, ToldInOrder
  <2>4. NoneLost'
    BY <1>2, <2>1 DEF NoneLost, Done
  <2> QED BY <2>2, <2>3, <2>4 DEF WebhookInv
<1>5. CASE SenderTakes
  <2>1. /\ UNCHANGED <<notified, closed, attempts, accepted, refused, received>>
        /\ sending = 0 /\ queue # <<>> /\ sending' = queue[1] /\ queue' = Tail(queue)
    BY <1>2, <1>5 DEF SenderTakes, WebhookTyped
  <2>2. Len(queue) >= 1
    BY <1>2, <2>1 DEF WebhookTyped
  <2>3. /\ queue' \in Seq(Events) /\ DOMAIN queue' = 1 .. Len(queue) - 1
        /\ \A i \in 1 .. Len(queue) - 1 : queue'[i] = queue[i + 1]
    BY <1>2, <2>1, <2>2 DEF WebhookTyped
  <2>4. \A i \in DOMAIN queue' : i + 1 \in DOMAIN queue /\ queue'[i] = queue[i + 1] /\ 1 < i + 1 /\ i \in Nat
    BY <1>1, <2>3
  <2>5. 1 \in DOMAIN queue
    BY <1>1, <2>2
  <2>6. WebhookTyped'
    <3>1. sending' \in 0 .. MaxEvents
      BY <1>1, <1>2, <2>1, <2>5, WebhookAssumption DEF QueueInOrder, Events
    <3> QED BY <1>2, <2>1, <2>3, <3>1 DEF WebhookTyped
  <2>7. QueueInOrder'
    <3>1. \A i, j \in DOMAIN queue' : i < j => i + 1 < j + 1
      BY <2>4
    <3> QED BY <1>2, <2>1, <2>4, <3>1 DEF QueueInOrder
  <2>8. SendingIsNext' /\ ReceivedBefore'
    <3>1. sending' \in accepted /\ attempts[sending'] = 0 /\ \A i \in DOMAIN queue' : sending' < queue'[i]
      BY <1>2, <2>1, <2>4, <2>5 DEF QueueInOrder
    <3>2. \A j \in DOMAIN received : received[j] < sending' /\ received[j] \in Nat
      BY <1>1, <1>2, <2>1, <2>5 DEF ReceivedBefore
    <3> QED BY <1>1, <1>2, <2>1, <2>4, <3>1, <3>2 DEF SendingIsNext, ReceivedBefore
  <2>9. NoneLost'
    <3>1. ASSUME NEW i \in DOMAIN queue
          PROVE  queue[i] = sending' \/ \E k \in DOMAIN queue' : queue'[k] = queue[i]
      <4>1. CASE i # 1
        <5>1. i - 1 \in DOMAIN queue' /\ queue'[i - 1] = queue[i]
          BY <1>1, <2>3, <4>1
        <5> QED BY <5>1
      <4> QED BY <2>1, <4>1
    <3>2. \A e \in accepted : e # sending
      BY <1>1, <2>1
    <3> QED BY <1>2, <2>1, <3>1, <3>2 DEF NoneLost, Done
  <2>10. ToldInOrder'
    BY <1>2, <2>1 DEF ToldInOrder
  <2> QED BY <2>6, <2>7, <2>8, <2>9, <2>10 DEF WebhookInv
<1>6. ASSUME NEW outcome \in {"taken", "unanswered", "failed", "rejected"}, Deliver(outcome) PROVE WebhookInv'
  <2>1. /\ UNCHANGED <<notified, queue, closed, accepted>> /\ sending # 0 /\ sending \in accepted
        /\ attempts' = [attempts EXCEPT ![sending] = @ + 1] /\ sending' \in {0, sending}
        /\ attempts[sending] <= Retries
    BY <1>2, <1>6 DEF Deliver, SendingIsNext
  <2>2. attempts'[sending] = attempts[sending] + 1 /\ \A e \in Events : e # sending => attempts'[e] = attempts[e]
    BY <1>1, <1>2, <2>1 DEF WebhookTyped
  <2>3. /\ received' = received \/ (received' = Append(received, sending) /\ closed # "cancelled")
        /\ refused \subseteq refused'
    BY <1>6 DEF Deliver
  <2>4. received' \in Seq(Events)
    <3>1. received \in Seq(Events) /\ sending \in Events
      BY <1>1, <1>2, <2>1 DEF WebhookTyped
    <3> QED BY <2>3, <3>1
  <2>5. \A i \in DOMAIN received : i \in DOMAIN received' /\ received'[i] = received[i]
    BY <1>1, <1>2, <2>1, <2>3 DEF WebhookTyped
  <2>6. \A i \in DOMAIN received' : i \in DOMAIN received \/ (i = Len(received) + 1 /\ received'[i] = sending /\ received' # received)
    BY <1>1, <1>2, <2>1, <2>3 DEF WebhookTyped
  <2>7. WebhookTyped'
    <3>1. attempts' \in [Events -> Nat]
      BY <1>1, <1>2, <2>1 DEF WebhookTyped
    <3>2. sending' \in 0 .. MaxEvents
      BY <1>2, <2>1, WebhookAssumption DEF WebhookTyped
    <3> QED BY <1>2, <2>1, <2>4, <3>1, <3>2 DEF WebhookTyped
  <2>8. QueueInOrder'
    <3>1. \A e \in Events : e > notified => e # sending
      BY <1>1, <2>1, WebhookAssumption DEF Events
    <3> QED BY <1>1, <1>2, <2>1, <2>2, <3>1 DEF QueueInOrder, SendingIsNext
  <2>9. SendingIsNext'
    <3>1. sending' # 0 => attempts'[sending] <= Retries
      BY <1>1, <1>6, <2>1, <2>2 DEF Deliver, GivesUp
    <3> QED BY <1>2, <2>1, <3>1 DEF SendingIsNext
  <2>10. ReceivedBefore'
    BY <1>1, <1>2, <2>1, <2>5, <2>6 DEF ReceivedBefore, SendingIsNext
  <2>11. \A e \in accepted : Done(e) => Done(e)'
    <3>1. \A e \in accepted : attempts[e] = Retries + 1 => attempts'[e] = Retries + 1
      BY <1>1, <2>1, <2>2
    <3> QED BY <2>3, <2>5, <3>1 DEF Done
  <2>12. NoneLost'
    <3>1. \/ closed = "cancelled" \/ sending' = sending \/ sending \in refused' \/ attempts'[sending] = Retries + 1
          \/ \E i \in DOMAIN received' : received'[i] = sending
      <4>1. CASE outcome = "taken"
        <5>1. received' = Append(received, sending)
          BY <1>6, <4>1 DEF Deliver
        <5>2. Len(received) + 1 \in DOMAIN received' /\ received'[Len(received) + 1] = sending
          BY <1>1, <1>2, <2>4, <5>1 DEF WebhookTyped
        <5> QED BY <5>2
      <4>2. CASE outcome = "rejected"
        BY <1>6, <4>2 DEF Deliver
      <4>3. CASE outcome \notin {"taken", "rejected"}
        BY <1>1, <1>6, <2>1, <2>2, <4>3 DEF Deliver, GivesUp
      <4> QED BY <4>1, <4>2, <4>3
    <3>2. ASSUME NEW e \in accepted, closed # "cancelled"
          PROVE  e = sending' \/ Done(e)' \/ \E i \in DOMAIN queue : queue[i] = e
      BY <1>2, <2>11, <3>1, <3>2 DEF NoneLost, Done
    <3> QED BY <2>1, <3>2 DEF NoneLost
  <2>13. ToldInOrder'
    <3> SUFFICES ASSUME NEW j \in DOMAIN received'
                 PROVE  /\ \A i \in 1 .. j : received'[i] <= received'[j]
                        /\ \A e \in accepted : e < received'[j] =>
                              (\E i \in 1 .. j : received'[i] = e) \/ e \in refused' \/ attempts'[e] = Retries + 1
      BY <2>1 DEF ToldInOrder
    <3>1. \A e \in accepted : attempts[e] = Retries + 1 => attempts'[e] = Retries + 1
      BY <1>1, <2>1, <2>2
    <3>2. CASE j \in DOMAIN received
      <4>1. \A i \in 1 .. j : received'[i] = received[i]
        BY <1>1, <2>5, <3>2
      <4> QED BY <1>2, <2>3, <3>1, <3>2, <4>1 DEF ToldInOrder
    <3>3. CASE j \notin DOMAIN received
      <4>1. j = Len(received) + 1 /\ received'[j] = sending /\ closed # "cancelled"
        BY <2>3, <2>6, <3>3
      <4>2. \A i \in DOMAIN received : i \in 1 .. j /\ received'[i] = received[i] /\ received[i] <= sending
        BY <1>1, <1>2, <2>1, <2>5, <4>1 DEF ReceivedBefore
      <4>3. \A i \in 1 .. j : received'[i] <= sending
        BY <1>1, <4>1, <4>2
      <4>4. ASSUME NEW e \in accepted, e < sending PROVE Done(e)
        <5>1. e # sending /\ \A i \in DOMAIN queue : queue[i] # e
          BY <1>1, <1>2, <2>1, <4>4 DEF SendingIsNext
        <5> QED BY <1>2, <4>1, <5>1 DEF NoneLost
      <4> QED BY <2>3, <3>1, <4>1, <4>2, <4>3, <4>4 DEF Done
    <3> QED BY <3>2, <3>3
  <2> QED BY <2>7, <2>8, <2>9, <2>10, <2>12, <2>13 DEF WebhookInv
<1> QED BY <1>3, <1>4, <1>5, <1>6 DEF WebhookNext

\* The endpoint hears of events in the order in which they happened, and of
\* every one that was queued before one it has heard of, unless it rejected it
\* or all tries failed: for any queue, retries, answers and moment of Close.
THEOREM EventsToldInOrder == WebhookSpec => []ToldInOrder
<1>1. WebhookInit => WebhookInv
  BY WebhookAssumption
     DEF WebhookInit, WebhookInv, WebhookTyped, QueueInOrder, SendingIsNext, ReceivedBefore, NoneLost, ToldInOrder,
         Events
<1>2. WebhookInv => ToldInOrder
  BY DEF WebhookInv
<1> QED BY <1>1, <1>2, WebhookStep, PTL DEF WebhookSpec

-----------------------------------------------------------------------------
(* Traffic: the lines of the access log.                                   *)

TrafficTyped ==
    /\ minute \in Nat /\ lives \in Nat /\ seen \in Nat
    /\ apps \in [Ids -> Nat] /\ \A i \in Ids : apps[i] <= lives
    /\ log \in Seq([life : Lives, at : Nat, written : Nat])
    /\ feed \in [open : BOOLEAN, from : Nat, next : Nat]
    /\ table \in [owners : [Lives -> Ids \cup {0}], fresh : BOOLEAN]
    /\ line \in [n : Nat, phase : {"none", "record", "refresh"}]
    /\ snap \in [Goroutines -> {<<>>} \cup ([Lives -> Ids \cup {0}] \X SUBSET Ids)]
    /\ minutes \in [Ids -> SUBSET Nat] /\ rows \in [Ids -> SUBSET Nat]
    /\ flush \in [phase : {"idle", "refresh", "take", "taken", "written"},
                  taken : [Ids -> SUBSET Nat], until : Nat, last : BOOLEAN]
    /\ forgot \in Ids \cup {0}
    /\ counted \subseteq [line : Nat, id : Ids]

\* Every line is in the past, and the one that is read has been handed out.
LogInv ==
    /\ \A n \in DOMAIN log : log[n].at <= minute
    /\ line.phase # "none" => line.n \in DOMAIN log /\ feed.open
    /\ line.phase = "none" => line.n = 0
    /\ feed.open => line.n < feed.next

\* What is taken is there only while it is written, and a last flush has no reader.
FlushInv ==
    /\ flush.phase # "taken" => flush.taken = Uncounted
    /\ flush.phase = "idle" => flush.last = FALSE
    /\ flush.last => ~feed.open

Held(n) == \E i \in Ids : n \in minutes[i] \/ n \in flush.taken[i] \/ n \in rows[i]

\* What is counted will not be read as new again.
Past ==
    \A n \in Nat : Held(n) =>
        /\ n \in DOMAIN log
        /\ \/ log[n].at <= feed.from
           \/ feed.open /\ n < feed.next /\ n # line.n /\ log[n].at <= seen
           \/ flush.last

\* No line is in two places.
Apart ==
    \A i, j \in Ids :
        /\ minutes[i] \cap flush.taken[j] = {}
        /\ minutes[i] \cap rows[j] = {}
        /\ flush.taken[i] \cap rows[j] = {}
        /\ i # j => /\ minutes[i] \cap minutes[j] = {}
                    /\ flush.taken[i] \cap flush.taken[j] = {}
                    /\ rows[i] \cap rows[j] = {}

\* The history holds what the places hold.
Exact ==
    \A n \in Nat, i \in Ids :
        [line |-> n, id |-> i] \in counted <=> n \in minutes[i] \/ n \in flush.taken[i] \/ n \in rows[i]

ViewInv ==
    /\ DOMAIN view = DOMAIN NoView /\ view.phase \in {"idle", "reading", "done"}
    /\ view.phase # "idle" => view.id \in Ids /\ view.life \in Nat /\ view.life # 0 /\ view.life <= lives
    /\ view.phase = "reading" =>
          /\ flush.phase \notin {"taken", "written"}
          /\ apps[view.id] = view.life => view.stored = rows[view.id]
    /\ view.phase = "done" /\ apps[view.id] = view.life => ~view.twice /\ view.got = view.whole

TrafficInv == TrafficTyped /\ LogInv /\ FlushInv /\ Past /\ Apart /\ Exact /\ ViewInv

-----------------------------------------------------------------------------
LEMMA EmptyIs == Uncounted \in [Ids -> SUBSET Nat] /\ \A i \in Ids : Uncounted[i] = {}
  BY DEF Uncounted

LEMMA NoFlushIs == /\ NoFlush \in [phase : {"idle", "refresh", "take", "taken", "written"},
                                   taken : [Ids -> SUBSET Nat], until : Nat, last : BOOLEAN]
                   /\ NoFlush.taken = Uncounted /\ NoFlush.last = FALSE /\ NoFlush.phase = "idle"
  BY EmptyIs DEF NoFlush

LEMMA OwnersIs == ASSUME TrafficTyped PROVE Owners \in [Lives -> Ids \cup {0}]
  BY DEF Owners

LEMMA NoLineIs == NoLine \in [n : Nat, phase : {"none", "record", "refresh"}] /\ NoLine.n = 0 /\ NoLine.phase = "none"
  BY DEF NoLine

LEMMA AppendLog ==
  ASSUME NEW S, NEW s \in Seq(S), NEW x \in S
  PROVE  /\ Append(s, x) \in Seq(S) /\ Len(s) \in Nat /\ DOMAIN s = 1 .. Len(s)
         /\ DOMAIN Append(s, x) = DOMAIN s \cup {Len(s) + 1}
         /\ \A n \in DOMAIN s : Append(s, x)[n] = s[n]
         /\ Append(s, x)[Len(s) + 1] = x
  OBVIOUS

LEMMA LogIs ==
  ASSUME TrafficTyped
  PROVE  /\ log \in Seq([life : Lives, at : Nat, written : Nat])
         /\ DOMAIN log = 1 .. Len(log) /\ Len(log) \in Nat
         /\ \A n \in DOMAIN log : /\ log[n] \in [life : Lives, at : Nat, written : Nat]
                                /\ log[n].at \in Nat /\ log[n].life \in Lives
<1> DEFINE S == [life : Lives, at : Nat, written : Nat]
<1>1. log \in Seq(S)
  BY DEF TrafficTyped
<1>2. \A x \in S : x.at \in Nat /\ x.life \in Lives
  OBVIOUS
<1> HIDE DEF S
<1>3. DOMAIN log = 1 .. Len(log) /\ Len(log) \in Nat /\ \A n \in DOMAIN log : log[n] \in S
  BY <1>1
<1> QED BY <1>1, <1>2, <1>3 DEF S

\* What the log says never changes.
LEMMA LogStep ==
  ASSUME TrafficTyped, LogInv, TrafficNext
  PROVE  /\ log' \in Seq([life : Lives, at : Nat, written : Nat])
         /\ \A n \in DOMAIN log : n \in DOMAIN log' /\ log'[n] = log[n]
         /\ \A n \in DOMAIN log' : log'[n].at <= minute'
         /\ minute' \in Nat /\ minute <= minute'
<1>1. /\ minute \in Nat /\ log \in Seq([life : Lives, at : Nat, written : Nat])
      /\ \A n \in DOMAIN log : log[n].at \in Nat /\ log[n].at <= minute
  BY LogIs DEF TrafficTyped, LogInv
<1>2. CASE UNCHANGED <<log, minute>>
  BY <1>1, <1>2
<1>3. CASE TrafficTick
  <2>1. log' = log /\ minute' = minute + 1
    BY <1>3 DEF TrafficTick
  <2>2. \A n \in DOMAIN log : log[n].at <= minute + 1
    BY <1>1
  <2> QED BY <1>1, <2>1, <2>2
<1>4. ASSUME NEW l \in Lives, NEW at \in 0 .. minute, ProxyLogs(l, at)
      PROVE  /\ log' \in Seq([life : Lives, at : Nat, written : Nat])
             /\ \A n \in DOMAIN log : n \in DOMAIN log' /\ log'[n] = log[n]
             /\ \A n \in DOMAIN log' : log'[n].at <= minute'
             /\ minute' \in Nat /\ minute <= minute'
  <2> DEFINE x == [life |-> l, at |-> at, written |-> minute]  S == [life : Lives, at : Nat, written : Nat]
  <2>1. x \in S /\ x.at <= minute
    BY <1>1
  <2>2. log' = Append(log, x) /\ minute' = minute
    BY <1>4 DEF ProxyLogs
  <2> HIDE DEF x
  <2>3. /\ log' \in Seq(S) /\ DOMAIN log' = DOMAIN log \cup {Len(log) + 1}
        /\ \A n \in DOMAIN log : log'[n] = log[n]
        /\ log'[Len(log) + 1] = x
    <3>1. log \in Seq(S)
      BY <1>1
    <3>2. x \in S /\ log' = Append(log, x)
      BY <2>1, <2>2
    <3> HIDE DEF S
    <3> QED BY <3>1, <3>2, AppendLog
  <2> QED BY <1>1, <2>1, <2>2, <2>3
<1> QED BY <1>2, <1>3, <1>4 DEF TrafficNext, CreateApplication, DeleteRow, ViewRows, Forget, OpenLog, LogEnds, ReadLine,
       Record, RefreshRead, RefreshFails, RefreshStore, FlushBegin, FlushTake, FlushAdd, FlushFails, FlushEnd, Stop,
       TrafficRestart, Crash, Gone, ViewMinutes, ViewEnd

LEMMA TrafficTypedStep ==
  ASSUME TrafficTyped, LogInv, TrafficNext
  PROVE  TrafficTyped'
<1> USE TrafficAssumption
<1>0. /\ minute \in Nat /\ lives \in Nat /\ seen \in Nat
      /\ apps \in [Ids -> Nat] /\ (\A i \in Ids : apps[i] <= lives)
      /\ feed \in [open : BOOLEAN, from : Nat, next : Nat]
      /\ table \in [owners : [Lives -> Ids \cup {0}], fresh : BOOLEAN]
      /\ line \in [n : Nat, phase : {"none", "record", "refresh"}]
      /\ snap \in [Goroutines -> {<<>>} \cup ([Lives -> Ids \cup {0}] \X SUBSET Ids)]
      /\ minutes \in [Ids -> SUBSET Nat] /\ rows \in [Ids -> SUBSET Nat]
      /\ flush \in [phase : {"idle", "refresh", "take", "taken", "written"},
                    taken : [Ids -> SUBSET Nat], until : Nat, last : BOOLEAN]
      /\ forgot \in Ids \cup {0}
      /\ counted \subseteq [line : Nat, id : Ids]
  BY DEF TrafficTyped
<1>l. log' \in Seq([life : Lives, at : Nat, written : Nat])
  BY LogStep
<1>1. CASE TrafficTick
  <2>1. table' \in [owners : [Lives -> Ids \cup {0}], fresh : BOOLEAN] 
    <3>1. table' = [table EXCEPT !.fresh = FALSE]
      BY <1>1 DEF TrafficTick
    <3> QED BY <1>0, <3>1
  <2>2. minute' \in Nat
    BY <1>0, <1>1 DEF TrafficTick
  <2> QED BY <1>0, <1>l, <1>1, <2>1, <2>2 DEF TrafficTick, TrafficTyped
<1>2. ASSUME NEW l \in Lives, NEW at \in 0 .. minute, ProxyLogs(l, at) PROVE TrafficTyped'
  BY <1>0, <1>l, <1>2 DEF ProxyLogs, TrafficTyped
<1>3. ASSUME NEW i \in Ids, CreateApplication(i) PROVE TrafficTyped'
  <2>1. lives' = lives + 1 /\ apps' = [apps EXCEPT ![i] = lives + 1]
    BY <1>3 DEF CreateApplication
  <2>2. apps' \in [Ids -> Nat] /\ \A j \in Ids : apps'[j] <= lives'
    BY <1>0, <2>1
  <2> QED BY <1>0, <1>l, <1>3, <2>1, <2>2 DEF CreateApplication, TrafficTyped
<1>4. ASSUME NEW i \in Ids, DeleteRow(i) PROVE TrafficTyped'
  <2>1. /\ apps' = [apps EXCEPT ![i] = 0] /\ rows' = [rows EXCEPT ![i] = {}] /\ lives' = lives
        /\ counted' \subseteq counted
    BY <1>4 DEF DeleteRow
  <2>2. apps' \in [Ids -> Nat] /\ (\A j \in Ids : apps'[j] <= lives') /\ rows' \in [Ids -> SUBSET Nat]
    BY <1>0, <2>1
  <2> QED BY <1>0, <1>l, <1>4, <2>1, <2>2 DEF DeleteRow, TrafficTyped
<1>5. CASE Forget
  <2>1. counted' \subseteq counted /\ minutes' \in [Ids -> SUBSET Nat]
    BY <1>0, <1>5 DEF Forget
  <2> QED BY <1>0, <1>l, <1>5, <2>1 DEF Forget, TrafficTyped
<1>6. CASE OpenLog
  <2>1. Cardinality({n \in DOMAIN log : log[n].written < feed.from}) \in Nat
    <3>1. IsFiniteSet(DOMAIN log)
      <4>1. DOMAIN log = 1 .. Len(log) /\ Len(log) \in Nat
        BY DEF TrafficTyped
      <4> QED BY <4>1, FS_Interval
    <3>2. IsFiniteSet({n \in DOMAIN log : log[n].written < feed.from})
      BY <3>1, FS_Subset
    <3> QED BY <3>2, FS_CardinalityType
  <2> DEFINE c == Cardinality({n \in DOMAIN log : log[n].written < feed.from})
  <2>2. feed' = [feed EXCEPT !.open = TRUE, !.next = 1 + c]
    BY <1>6 DEF OpenLog
  <2>3. c \in Nat
    BY <2>1
  <2> HIDE DEF c
  <2>n. 1 + c \in Nat
    BY <2>3
  <2> DEFINE d == 1 + c
  <2>d. d \in Nat /\ feed' = [feed EXCEPT !.open = TRUE, !.next = d]
    BY <2>n, <2>2
  <2> HIDE DEF d
  <2>4. feed' \in [open : BOOLEAN, from : Nat, next : Nat]
    BY <1>0, <2>d
  <2> QED BY <1>0, <1>l, <1>6, <2>4 DEF OpenLog, TrafficTyped
<1>7. CASE LogEnds
  <2>1. feed' \in [open : BOOLEAN, from : Nat, next : Nat]
    <3> DEFINE f == IF seen > feed.from THEN seen ELSE feed.from
    <3>1. f \in Nat /\ feed' = [feed EXCEPT !.open = FALSE, !.from = f]
      BY <1>0, <1>7 DEF LogEnds
    <3> HIDE DEF f
    <3> QED BY <1>0, <3>1
  <2> QED BY <1>0, <1>l, <1>7, <2>1 DEF LogEnds, TrafficTyped
<1>8. CASE ReadLine
  <2>1. feed' = [feed EXCEPT !.next = @ + 1] /\ line'= [n |-> feed.next, phase |-> IF table.fresh THEN "record" ELSE "refresh"]
    BY <1>8 DEF ReadLine
  <2> DEFINE d == feed.next + 1
  <2>d. d \in Nat /\ feed' = [feed EXCEPT !.next = d]
    BY <1>0, <2>1
  <2> HIDE DEF d
  <2>2. feed' \in [open : BOOLEAN, from : Nat, next : Nat]
    BY <1>0, <2>d
  <2>3. line' \in [n : Nat, phase : {"none", "record", "refresh"}]
    BY <1>0, <2>1
  <2> QED BY <1>0, <1>l, <1>8, <2>2, <2>3 DEF ReadLine, TrafficTyped
<1>9. CASE Record
  <2>1. /\ line' = NoLine /\ seen' \in Nat /\ minutes' \in [Ids -> SUBSET Nat] /\ counted' \subseteq [line : Nat, id : Ids]
    <3>1. line.n \in DOMAIN log /\ line.n \in Nat
      BY <1>0, <1>9 DEF LogInv, Record
    <3> DEFINE l == log[line.n]  id == table.owners[l.life]
    <3>2. l \in [life : Lives, at : Nat, written : Nat]
      BY <3>1, LogIs
    <3>3. id \in Ids \cup {0} /\ l.at \in Nat
      BY <1>0, <3>2
    <3>4. /\ line' = NoLine /\ seen' \in {l.at, seen}
          /\ \/ UNCHANGED <<minutes, counted>>
             \/ /\ id # 0
                /\ minutes' = [minutes EXCEPT ![id] = @ \cup {line.n}]
                /\ counted' = counted \cup {[line |-> line.n, id |-> id]}
      BY <1>9 DEF Record
    <3> DEFINE z == [line |-> line.n, id |-> id]
    <3>5. id # 0 => z \in [line : Nat, id : Ids]
      BY <3>1, <3>3
    <3>6. /\ line' = NoLine /\ seen' \in {l.at, seen}
          /\ \/ UNCHANGED <<minutes, counted>>
             \/ /\ id # 0
                /\ minutes' = [minutes EXCEPT ![id] = @ \cup {line.n}]
                /\ counted' = counted \cup {z}
      BY <3>4
    <3> HIDE DEF id, l, z
    <3>7. minutes' \in [Ids -> SUBSET Nat]
      <4>1. CASE UNCHANGED minutes
        BY <1>0, <4>1
      <4>2. CASE id # 0 /\ minutes' = [minutes EXCEPT ![id] = @ \cup {line.n}]
        <5>1. id \in Ids
          BY <3>3, <4>2
        <5> DEFINE k == minutes[id] \cup {line.n}
        <5>2. k \in SUBSET Nat
          BY <1>0, <3>1, <5>1
        <5> HIDE DEF k
        <5>3. minutes' = [minutes EXCEPT ![id] = k]
          BY <4>2 DEF k
        <5> QED BY <1>0, <5>1, <5>2, <5>3
      <4> QED BY <3>6, <4>1, <4>2
    <3> QED BY <1>0, <3>3, <3>5, <3>6, <3>7
  <2> QED BY <1>0, <1>l, <1>9, <2>1, NoLineIs DEF Record, TrafficTyped
<1>10. ASSUME NEW g \in Goroutines, RefreshRead(g) PROVE TrafficTyped'
  <2>1. snap' \in [Goroutines -> {<<>>} \cup ([Lives -> Ids \cup {0}] \X SUBSET Ids)]
    BY <1>0, <1>10, OwnersIs DEF RefreshRead
  <2> QED BY <1>0, <1>l, <1>10, <2>1 DEF RefreshRead, TrafficTyped
<1>11. ASSUME NEW g \in Goroutines, Refreshed(g)
       PROVE  /\ line' \in [n : Nat, phase : {"none", "record", "refresh"}]
              /\ flush' \in [phase : {"idle", "refresh", "take", "taken", "written"},
                             taken : [Ids -> SUBSET Nat], until : Nat, last : BOOLEAN]
  BY <1>0, <1>11 DEF Refreshed
<1>12. ASSUME NEW g \in Goroutines, RefreshFails(g) PROVE TrafficTyped'
  BY <1>0, <1>l, <1>11, <1>12 DEF RefreshFails, TrafficTyped
<1>13. ASSUME NEW g \in Goroutines, RefreshStore(g) PROVE TrafficTyped'
  <2>1. snap[g] \in [Lives -> Ids \cup {0}] \X SUBSET Ids
    BY <1>0, <1>13 DEF RefreshStore
  <2>2. table' \in [owners : [Lives -> Ids \cup {0}], fresh : BOOLEAN]
    BY <1>13, <2>1 DEF RefreshStore
  <2>3. minutes' \in [Ids -> SUBSET Nat] /\ counted' \subseteq counted
    BY <1>0, <1>13 DEF RefreshStore
  <2>4. snap' \in [Goroutines -> {<<>>} \cup ([Lives -> Ids \cup {0}] \X SUBSET Ids)]
    BY <1>0, <1>13 DEF RefreshStore
  <2>5. Refreshed(g) /\ UNCHANGED <<minute, left, apps, lives, log, feed, seen, rows, view, forgot>>
    BY <1>13 DEF RefreshStore
  <2> QED BY <1>0, <1>l, <1>11, <2>2, <2>3, <2>4, <2>5 DEF TrafficTyped
<1>14. CASE FlushBegin
  <2>1. flush' = [NoFlush EXCEPT !.phase = "refresh", !.until = minute]
    BY <1>14 DEF FlushBegin
  <2>2. flush' \in [phase : {"idle", "refresh", "take", "taken", "written"},
                    taken : [Ids -> SUBSET Nat], until : Nat, last : BOOLEAN]
    BY <1>0, <2>1, NoFlushIs
  <2> QED BY <1>0, <1>l, <1>14, <2>2 DEF FlushBegin, TrafficTyped
<1>15. CASE FlushTake
  <2>1. /\ flush' = [flush EXCEPT !.phase = "taken", !.taken = [i \in Ids |-> Ended(i)]]
        /\ minutes' = [i \in Ids |-> minutes[i] \ Ended(i)]
    BY <1>15 DEF FlushTake
  <2>2. [i \in Ids |-> Ended(i)] \in [Ids -> SUBSET Nat]
    BY <1>0 DEF Ended
  <2>3. minutes' \in [Ids -> SUBSET Nat]
    BY <1>0, <2>1
  <2>4. flush' \in [phase : {"idle", "refresh", "take", "taken", "written"},
                    taken : [Ids -> SUBSET Nat], until : Nat, last : BOOLEAN]
    BY <1>0, <2>1, <2>2
  <2> QED BY <1>0, <1>l, <1>15, <2>3, <2>4 DEF FlushTake, TrafficTyped
<1>16. CASE FlushAdd
  <2>1. /\ rows' = [i \in Ids |-> rows[i] \cup flush.taken[i]]
        /\ flush' = [flush EXCEPT !.phase = "written", !.taken = Uncounted]
    BY <1>16 DEF FlushAdd
  <2>2. rows' \in [Ids -> SUBSET Nat]
    BY <1>0, <2>1
  <2>3. flush' \in [phase : {"idle", "refresh", "take", "taken", "written"},
                    taken : [Ids -> SUBSET Nat], until : Nat, last : BOOLEAN]
    BY <1>0, <2>1, EmptyIs
  <2> QED BY <1>0, <1>l, <1>16, <2>2, <2>3 DEF FlushAdd, TrafficTyped
<1>17. CASE FlushFails
  <2>1. /\ minutes' = [i \in Ids |-> minutes[i] \cup flush.taken[i]]
        /\ flush' = [flush EXCEPT !.phase = "written", !.taken = Uncounted]
    BY <1>17 DEF FlushFails, PutBack
  <2>2. minutes' \in [Ids -> SUBSET Nat]
    BY <1>0, <2>1
  <2>3. flush' \in [phase : {"idle", "refresh", "take", "taken", "written"},
                    taken : [Ids -> SUBSET Nat], until : Nat, last : BOOLEAN]
    BY <1>0, <2>1, EmptyIs
  <2> QED BY <1>0, <1>l, <1>17, <2>2, <2>3 DEF FlushFails, TrafficTyped
<1>18. CASE FlushEnd
  BY <1>0, <1>l, <1>18, NoFlushIs DEF FlushEnd, TrafficTyped
<1>19. CASE Stop
  <2>1. flush' = [NoFlush EXCEPT !.phase = "refresh", !.until = minute + 1, !.last = TRUE]
    BY <1>19 DEF Stop
  <2>m. minute + 1 \in Nat
    BY <1>0
  <2> DEFINE m == minute + 1
  <2>n. m \in Nat /\ flush' = [NoFlush EXCEPT !.phase = "refresh", !.until = m, !.last = TRUE]
    BY <2>m, <2>1
  <2> HIDE DEF m
  <2>2. flush' \in [phase : {"idle", "refresh", "take", "taken", "written"},
                    taken : [Ids -> SUBSET Nat], until : Nat, last : BOOLEAN]
    BY <2>n, NoFlushIs
  <2>3. /\ snap' \in [Goroutines -> {<<>>} \cup ([Lives -> Ids \cup {0}] \X SUBSET Ids)]
        /\ feed' \in [open : BOOLEAN, from : Nat, next : Nat] /\ line' = NoLine
    BY <1>0, <1>19 DEF Stop
  <2> QED BY <1>0, <1>l, <1>19, <2>2, <2>3, NoLineIs DEF Stop, TrafficTyped
<1>20. CASE Gone
  <2>1. /\ feed' \in [open : BOOLEAN, from : Nat, next : Nat] /\ seen' = 0
        /\ table' \in [owners : [Lives -> Ids \cup {0}], fresh : BOOLEAN]
        /\ line' = NoLine /\ flush' = NoFlush /\ minutes' = Uncounted /\ forgot' = 0
        /\ counted' \subseteq counted
    BY <1>0, <1>20 DEF Gone
  <2>2. snap' \in [Goroutines -> {<<>>} \cup ([Lives -> Ids \cup {0}] \X SUBSET Ids)]
    BY <1>20 DEF Gone
  <2> QED BY <1>0, <1>l, <1>20, <2>1, <2>2, NoLineIs, NoFlushIs, EmptyIs DEF Gone, TrafficTyped
<1>21. CASE ViewMinutes \/ ViewEnd \/ \E i \in Ids : ViewRows(i)
  <2>1. UNCHANGED <<minute, lives, apps, log, feed, seen, table, line, snap, minutes, flush, rows, forgot, counted>>
    BY <1>21 DEF ViewMinutes, ViewEnd, ViewRows
  <2> QED BY <1>0, <1>l, <2>1 DEF TrafficTyped
<1> QED BY <1>1, <1>2, <1>3, <1>4, <1>5, <1>6, <1>7, <1>8, <1>9, <1>10, <1>12, <1>13, <1>14, <1>15, <1>16, <1>17, <1>18, <1>19, <1>20, <1>21
        DEF TrafficNext, TrafficRestart, Crash

-----------------------------------------------------------------------------
\* What the state is made of, unfolded once.
LEMMA Types ==
  ASSUME TrafficTyped
  PROVE  /\ minute \in Nat /\ lives \in Nat /\ seen \in Nat
         /\ apps \in [Ids -> Nat] /\ (\A i \in Ids : apps[i] <= lives)
         /\ feed \in [open : BOOLEAN, from : Nat, next : Nat]
         /\ line \in [n : Nat, phase : {"none", "record", "refresh"}]
         /\ minutes \in [Ids -> SUBSET Nat] /\ rows \in [Ids -> SUBSET Nat]
         /\ flush \in [phase : {"idle", "refresh", "take", "taken", "written"},
                       taken : [Ids -> SUBSET Nat], until : Nat, last : BOOLEAN]
         /\ counted \subseteq [line : Nat, id : Ids]
         /\ DOMAIN log = 1 .. Len(log) /\ Len(log) \in Nat
         /\ \A n \in DOMAIN log : log[n].at \in Nat /\ log[n].life \in Lives
  BY LogIs DEF TrafficTyped

LEMMA LogInvStep ==
  ASSUME TrafficTyped, LogInv, FlushInv, TrafficNext
  PROVE  LogInv'
<1>0. (\A n \in DOMAIN log' : log'[n].at <= minute') /\ (\A n \in DOMAIN log : n \in DOMAIN log')
  BY LogStep
<1>t. /\ feed \in [open : BOOLEAN, from : Nat, next : Nat]
      /\ line \in [n : Nat, phase : {"none", "record", "refresh"}]
      /\ DOMAIN log = 1 .. Len(log) /\ Len(log) \in Nat
  BY Types
<1>i. /\ line.phase # "none" => line.n \in DOMAIN log /\ feed.open
      /\ line.phase = "none" => line.n = 0
      /\ feed.open => line.n < feed.next
  BY DEF LogInv
<1> SUFFICES /\ line'.phase # "none" => line'.n \in DOMAIN log' /\ feed'.open
             /\ line'.phase = "none" => line'.n = 0
             /\ feed'.open => line'.n < feed'.next
  BY <1>0 DEF LogInv
<1>1. CASE UNCHANGED <<line, feed>>
  BY <1>1, <1>0, <1>i
<1>2. CASE OpenLog
  <2> DEFINE c == Cardinality({n \in DOMAIN log : log[n].written < feed.from})
  <2>1. c \in Nat
    <3>1. IsFiniteSet(DOMAIN log)
      BY <1>t, FS_Interval
    <3>2. IsFiniteSet({n \in DOMAIN log : log[n].written < feed.from})
      BY <3>1, FS_Subset
    <3> QED BY <3>2, FS_CardinalityType
  <2>2. feed' = [feed EXCEPT !.open = TRUE, !.next = 1 + c] /\ line' = line /\ line = NoLine
    BY <1>2 DEF OpenLog
  <2> HIDE DEF c
  <2> QED BY <1>t, <2>1, <2>2, NoLineIs
<1>3. CASE LogEnds
  BY <1>3, <1>t, NoLineIs DEF LogEnds
<1>4. CASE ReadLine
  <2>1. /\ feed' = [feed EXCEPT !.next = @ + 1] /\ feed.open /\ feed.next <= Len(log) /\ log' = log
        /\ line'.n = feed.next /\ line'.phase \in {"record", "refresh"} /\ line = NoLine
    BY <1>4 DEF ReadLine
  <2> QED BY <1>t, <1>i, <2>1, NoLineIs
<1>5. CASE Record
  <2>1. line' = NoLine /\ feed' = feed
    BY <1>5 DEF Record
  <2> QED BY <1>t, <1>i, <2>1, NoLineIs
<1>6. ASSUME NEW g \in Goroutines, Asks(g), Refreshed(g), feed' = feed, log' = log
      PROVE  /\ line'.phase # "none" => line'.n \in DOMAIN log' /\ feed'.open
             /\ line'.phase = "none" => line'.n = 0
             /\ feed'.open => line'.n < feed'.next
  <2>1. CASE g = "reader"
    <3>1. line' = [line EXCEPT !.phase = "record"] /\ line.phase = "refresh"
      BY <2>1, <1>6 DEF Refreshed, Asks
    <3> QED BY <3>1, <1>t, <1>i, <1>6
  <2>2. CASE g # "reader"
    BY <2>2, <1>6, <1>i DEF Refreshed
  <2> QED BY <2>1, <2>2
<1>7. CASE Stop \/ Gone
  <2>1. line' = NoLine /\ feed'.open = FALSE
    BY <1>t, <1>7 DEF Stop, Gone
  <2> QED BY <2>1, NoLineIs
<1>8. ASSUME NEW g \in Goroutines, RefreshRead(g) PROVE UNCHANGED <<line, feed>>
  BY <1>8 DEF RefreshRead
<1>9. ASSUME NEW g \in Goroutines, RefreshFails(g) \/ RefreshStore(g)
      PROVE  Asks(g) /\ Refreshed(g) /\ feed' = feed /\ log' = log
  BY <1>9 DEF RefreshFails, RefreshStore
<1>10. CASE TrafficTick \/ (\E l \in Lives, at \in 0 .. minute : ProxyLogs(l, at))
            \/ (\E i \in Ids : CreateApplication(i) \/ DeleteRow(i) \/ ViewRows(i))
            \/ Forget \/ FlushBegin \/ FlushTake \/ FlushAdd \/ FlushFails \/ FlushEnd \/ ViewMinutes \/ ViewEnd
  BY <1>10, <1>1
     DEF TrafficTick, ProxyLogs, CreateApplication, DeleteRow, ViewRows, Forget, FlushBegin,
         FlushTake, FlushAdd, FlushFails, FlushEnd, ViewMinutes, ViewEnd
<1>11. CASE \E g \in Goroutines : RefreshRead(g) \/ RefreshFails(g) \/ RefreshStore(g)
  BY <1>11, <1>1, <1>6, <1>8, <1>9
<1> QED BY <1>2, <1>3, <1>4, <1>5, <1>7, <1>10, <1>11 DEF TrafficNext, TrafficRestart, Crash

LEMMA FlushInvStep ==
  ASSUME TrafficTyped, LogInv, FlushInv, TrafficNext
  PROVE  FlushInv'
<1>t. /\ feed \in [open : BOOLEAN, from : Nat, next : Nat]
      /\ flush \in [phase : {"idle", "refresh", "take", "taken", "written"},
                    taken : [Ids -> SUBSET Nat], until : Nat, last : BOOLEAN]
  BY Types
<1>i. /\ flush.phase # "taken" => flush.taken = Uncounted
      /\ flush.phase = "idle" => flush.last = FALSE
      /\ flush.last => ~feed.open
  BY DEF FlushInv
<1>e. Uncounted' = Uncounted
  BY DEF Uncounted
<1> SUFFICES /\ flush'.phase # "taken" => flush'.taken = Uncounted
             /\ flush'.phase = "idle" => flush'.last = FALSE
             /\ flush'.last => ~feed'.open
  BY <1>e DEF FlushInv
<1>1. CASE UNCHANGED <<flush, feed>>
  BY <1>1, <1>i
<1>2. CASE OpenLog
  BY <1>2, <1>t, <1>i DEF OpenLog
<1>3. CASE LogEnds \/ ReadLine
  BY <1>3, <1>t, <1>i DEF LogEnds, ReadLine
<1>5. ASSUME NEW g \in Goroutines, Asks(g), Refreshed(g), feed' = feed
      PROVE  /\ flush'.phase # "taken" => flush'.taken = Uncounted
             /\ flush'.phase = "idle" => flush'.last = FALSE
             /\ flush'.last => ~feed'.open
  <2>1. CASE g # "reader"
    <3>1. flush' = [flush EXCEPT !.phase = "take"] /\ flush.phase = "refresh"
      BY <2>1, <1>5 DEF Refreshed, Asks
    <3> QED BY <3>1, <1>t, <1>i, <1>5
  <2>2. CASE g = "reader"
    BY <2>2, <1>5, <1>i DEF Refreshed
  <2> QED BY <2>1, <2>2
<1>6. CASE FlushBegin
  <2>1. flush' = [NoFlush EXCEPT !.phase = "refresh", !.until = minute]
    BY <1>6 DEF FlushBegin
  <2> QED BY <2>1, NoFlushIs
<1>7. CASE FlushTake
  <2> DEFINE tk == [i \in Ids |-> Ended(i)]
  <2>1. flush' = [flush EXCEPT !.phase = "taken", !.taken = tk] /\ feed' = feed
    BY <1>7 DEF FlushTake
  <2> HIDE DEF tk
  <2> QED BY <2>1, <1>t, <1>i
<1>8. CASE FlushAdd \/ FlushFails
  <2>1. flush' = [flush EXCEPT !.phase = "written", !.taken = Uncounted] /\ feed' = feed
    BY <1>8 DEF FlushAdd, FlushFails
  <2> QED BY <2>1, <1>t, <1>i
<1>9. CASE FlushEnd
  BY <1>9, NoFlushIs DEF FlushEnd
<1>10. CASE Stop
  <2>1. /\ flush' = [NoFlush EXCEPT !.phase = "refresh", !.until = minute + 1, !.last = TRUE]
        /\ feed' = [feed EXCEPT !.open = FALSE]
    BY <1>10 DEF Stop
  <2> QED BY <2>1, <1>t, NoFlushIs
<1>11. CASE Gone
  BY <1>11, NoFlushIs DEF Gone
<1>12. ASSUME NEW g \in Goroutines, RefreshRead(g) PROVE UNCHANGED <<flush, feed>>
  BY <1>12 DEF RefreshRead
<1>13. ASSUME NEW g \in Goroutines, RefreshFails(g) \/ RefreshStore(g)
      PROVE  Asks(g) /\ Refreshed(g) /\ feed' = feed
  BY <1>13 DEF RefreshFails, RefreshStore
<1>14. CASE TrafficTick \/ (\E l \in Lives, at \in 0 .. minute : ProxyLogs(l, at))
            \/ (\E i \in Ids : CreateApplication(i) \/ DeleteRow(i) \/ ViewRows(i))
            \/ Forget \/ Record \/ ViewMinutes \/ ViewEnd
  BY <1>14, <1>1
     DEF TrafficTick, ProxyLogs, CreateApplication, DeleteRow, ViewRows, Forget, Record,
         ViewMinutes, ViewEnd
<1>15. CASE \E g \in Goroutines : RefreshRead(g) \/ RefreshFails(g) \/ RefreshStore(g)
  BY <1>15, <1>1, <1>5, <1>12, <1>13
<1> QED BY <1>2, <1>3, <1>6, <1>7, <1>8, <1>9, <1>10, <1>11, <1>14, <1>15 DEF TrafficNext, TrafficRestart, Crash

-----------------------------------------------------------------------------
\* A line that is held is not counted again, whatever happens.
LEMMA PastStep ==
  ASSUME TrafficTyped, LogInv, FlushInv, Past, TrafficNext
  PROVE  Past'
<1>t. /\ minute \in Nat /\ seen \in Nat
      /\ feed \in [open : BOOLEAN, from : Nat, next : Nat]
      /\ line \in [n : Nat, phase : {"none", "record", "refresh"}]
      /\ minutes \in [Ids -> SUBSET Nat] /\ rows \in [Ids -> SUBSET Nat]
      /\ flush \in [phase : {"idle", "refresh", "take", "taken", "written"},
                    taken : [Ids -> SUBSET Nat], until : Nat, last : BOOLEAN]
      /\ DOMAIN log = 1 .. Len(log) /\ Len(log) \in Nat
      /\ \A n \in DOMAIN log : log[n].at \in Nat
  BY Types
<1>l. /\ \A n \in DOMAIN log : n \in DOMAIN log' /\ log'[n] = log[n] /\ log[n].at <= minute
      /\ minute' \in Nat /\ minute <= minute'
  BY LogStep DEF LogInv
<1>i. /\ line.phase # "none" => line.n \in DOMAIN log /\ feed.open
      /\ line.phase = "none" => line.n = 0
      /\ feed.open => line.n < feed.next
      /\ flush.last => ~feed.open
      /\ flush.phase = "idle" => flush.last = FALSE
  BY DEF LogInv, FlushInv
<1> SUFFICES ASSUME NEW n \in Nat, Held(n)'
             PROVE  /\ n \in DOMAIN log'
                    /\ \/ log'[n].at <= feed'.from
                       \/ feed'.open /\ n < feed'.next /\ n # line'.n /\ log'[n].at <= seen'
                       \/ flush'.last
  BY DEF Past
<1> DEFINE Goal == /\ n \in DOMAIN log'
                    /\ \/ log'[n].at <= feed'.from
                       \/ feed'.open /\ n < feed'.next /\ n # line'.n /\ log'[n].at <= seen'
                       \/ flush'.last
<1>p. ASSUME Held(n)
      PROVE  /\ n \in DOMAIN log /\ n \in DOMAIN log' /\ log'[n] = log[n] /\ log[n].at \in Nat
             /\ \/ log[n].at <= feed.from
                \/ feed.open /\ n < feed.next /\ n # line.n /\ log[n].at <= seen
                \/ flush.last
  BY <1>p, <1>l, <1>t DEF Past
\* Only Record holds a line that was not held.
<1>h. ASSUME ~Record PROVE Held(n)
  <2>0. PICK i \in Ids : n \in minutes'[i] \/ n \in flush'.taken[i] \/ n \in rows'[i]
    BY DEF Held
  <2>1. CASE UNCHANGED <<minutes, rows>> /\ flush'.taken = flush.taken
    BY <2>0, <2>1 DEF Held
  <2>2. ASSUME NEW j \in Ids, DeleteRow(j) PROVE Held(n)
    BY <1>t, <2>0, <2>2 DEF DeleteRow, Held
  <2>3. CASE Forget
    BY <1>t, <2>0, <2>3 DEF Forget, Held
  <2>4. ASSUME NEW g \in Goroutines, Refreshed(g) PROVE flush'.taken = flush.taken
    BY <1>t, <2>4 DEF Refreshed
  <2>5. ASSUME NEW g \in Goroutines, RefreshStore(g) PROVE Held(n)
    <3>1. flush'.taken = flush.taken /\ rows' = rows /\ minutes' = [k \in Ids |-> IF k \in snap[g][2] THEN minutes[k] ELSE {}]
      BY <2>4, <2>5 DEF RefreshStore
    <3> QED BY <2>0, <3>1 DEF Held
  <2>6. ASSUME NEW g \in Goroutines, RefreshFails(g)
        PROVE  UNCHANGED <<minutes, rows>> /\ flush'.taken = flush.taken
    BY <2>4, <2>6 DEF RefreshFails
  <2>7. CASE FlushBegin \/ FlushEnd \/ Stop \/ Gone
    <3>1. rows' = rows /\ minutes'[i] \in {minutes[i], {}} /\ flush'.taken = Uncounted
      BY <2>7, NoFlushIs, EmptyIs DEF FlushBegin, FlushEnd, Stop, Gone
    <3> QED BY <2>0, <3>1, EmptyIs DEF Held
  <2>8. CASE FlushTake
    <3> DEFINE tk == [k \in Ids |-> Ended(k)]
    <3>1. flush' = [flush EXCEPT !.phase = "taken", !.taken = tk] /\ minutes' = [k \in Ids |-> minutes[k] \ Ended(k)] /\ rows' = rows
      BY <2>8 DEF FlushTake
    <3>2. tk[i] = Ended(i)
      OBVIOUS
    <3> HIDE DEF tk
    <3>3. flush'.taken = tk
      BY <3>1, <1>t
    <3>4. Ended(i) \subseteq minutes[i] /\ minutes'[i] \subseteq minutes[i]
      BY <3>1 DEF Ended
    <3> QED BY <2>0, <3>1, <3>2, <3>3, <3>4 DEF Held
  <2>9. CASE FlushAdd \/ FlushFails
    <3>1. /\ minutes'[i] \subseteq minutes[i] \cup flush.taken[i] /\ rows'[i] \subseteq rows[i] \cup flush.taken[i]
      BY <2>9 DEF FlushAdd, FlushFails, PutBack
    <3>2. flush' = [flush EXCEPT !.phase = "written", !.taken = Uncounted]
      BY <2>9 DEF FlushAdd, FlushFails
    <3>3. flush'.taken = Uncounted
      BY <3>2, <1>t
    <3> QED BY <2>0, <3>1, <3>3, EmptyIs DEF Held
  <2>10. ASSUME NEW g \in Goroutines, RefreshRead(g) PROVE UNCHANGED <<minutes, rows, flush>>
    BY <2>10 DEF RefreshRead
  <2>11. CASE TrafficTick \/ (\E l \in Lives, at \in 0 .. minute : ProxyLogs(l, at)) \/ (\E j \in Ids : CreateApplication(j) \/ ViewRows(j))
            \/ OpenLog \/ LogEnds \/ ReadLine \/ ViewMinutes \/ ViewEnd
    <3>1. UNCHANGED <<minutes, rows, flush>>
      BY <2>11
         DEF TrafficTick, ProxyLogs, CreateApplication, ViewRows, OpenLog, LogEnds, ReadLine,
             ViewMinutes, ViewEnd
    <3> QED BY <2>1, <3>1
  <2> QED BY <1>h, <2>1, <2>2, <2>3, <2>5, <2>6, <2>7, <2>8, <2>9, <2>10, <2>11 DEF TrafficNext, TrafficRestart, Crash
<1> HIDE DEF Held
<1>1. CASE Record
  <2>1. /\ feed' = feed /\ line' = NoLine /\ flush' = flush /\ line.phase = "record" /\ log' = log
    BY <1>1 DEF Record
  <2>2. line.n \in DOMAIN log /\ feed.open /\ line.n < feed.next /\ ~flush.last
    BY <1>i, <2>1
  <2>3. CASE ~Held(n)
    <3>1. n = line.n /\ NewLine(log[line.n])
      <4>1. CASE UNCHANGED minutes
        BY <4>1, <1>1, <2>3 DEF Record, Held
      <4>2. CASE /\ NewLine(log[line.n])
                 /\ minutes' = [minutes EXCEPT ![table.owners[log[line.n].life]] = @ \cup {line.n}]
        <5>1. PICK i \in Ids : n \in minutes'[i] \/ n \in flush'.taken[i] \/ n \in rows'[i]
          BY DEF Held
        <5>2. rows' = rows /\ n \notin minutes[i] /\ n \notin flush.taken[i] /\ n \notin rows[i]
          BY <1>1, <2>3 DEF Held, Record
        <5> QED BY <4>2, <5>1, <5>2, <2>1, <1>t
      <4> QED BY <1>1, <4>1, <4>2 DEF Record
    <3>2. seen' = IF log[line.n].at > seen THEN log[line.n].at ELSE seen
      BY <1>1, <3>1 DEF Record
    <3> QED BY <2>1, <2>2, <3>1, <3>2, <1>t, NoLineIs
  <2>4. CASE Held(n)
    <3>1. seen' \in Nat /\ seen <= seen'
      <4>1. seen' = seen \/ seen' = IF log[line.n].at > seen THEN log[line.n].at ELSE seen
        BY <1>1 DEF Record
      <4> QED BY <4>1, <2>2, <1>t
    <3> QED BY <1>p, <2>1, <2>2, <2>4, <3>1, <1>t, NoLineIs
  <2> QED BY <2>3, <2>4
<1>2. ASSUME ~Record, UNCHANGED <<feed, seen>>, line'.n = line.n, flush'.last = flush.last
      PROVE  Goal
  BY <1>h, <1>p, <1>2
<1>3. CASE OpenLog
  <2>1. ~Record /\ ~feed.open /\ feed'.from = feed.from /\ ~flush.last /\ flush' = flush
    BY <1>3, <1>t, NoLineIs DEF OpenLog, Record
  <2> QED BY <1>h, <1>p, <2>1, <1>t
<1>4. CASE LogEnds
  <2>1. ~Record /\ feed.open /\ feed'.from = (IF seen > feed.from THEN seen ELSE feed.from) /\ flush' = flush /\ line = NoLine
    BY <1>4, <1>t, NoLineIs DEF LogEnds, Record
  <2> QED BY <1>h, <1>p, <2>1, <1>t
<1>5. CASE ReadLine
  <2>1. /\ ~Record /\ feed' = [feed EXCEPT !.next = @ + 1] /\ line'.n = feed.next /\ UNCHANGED <<flush, seen>>
    BY <1>5, NoLineIs DEF ReadLine, Record
  <2> QED BY <1>h, <1>p, <2>1, <1>t
<1>6. CASE Stop
  <2>1. flush' = [NoFlush EXCEPT !.phase = "refresh", !.until = minute + 1, !.last = TRUE]
    BY <1>6 DEF Stop
  <2>2. flush'.last = TRUE
    BY <2>1, NoFlushIs DEF NoFlush
  <2>3. CASE Record
    BY <1>1, <2>3
  <2> QED BY <1>h, <1>p, <2>2, <2>3, <1>1
<1>7. CASE Gone
  <2>1. feed'.from = minute /\ log' = log
    BY <1>7 DEF Gone
  <2> QED BY <1>h, <1>p, <2>1, <1>1, <1>l
<1>8. ASSUME NEW g \in Goroutines, RefreshRead(g) PROVE Goal
  <2>1. UNCHANGED <<feed, seen, line, flush>>
    BY <1>8 DEF RefreshRead
  <2> QED BY <1>1, <1>2, <2>1
<1>9. ASSUME NEW g \in Goroutines, RefreshFails(g) \/ RefreshStore(g) PROVE Goal
  <2>1. UNCHANGED <<feed, seen>> /\ Refreshed(g)
    BY <1>9 DEF RefreshFails, RefreshStore
  <2>2. line'.n = line.n /\ flush'.last = flush.last
    BY <2>1, <1>t DEF Refreshed
  <2> QED BY <1>1, <1>2, <2>1, <2>2
<1>10. CASE TrafficTick \/ (\E l \in Lives, at \in 0 .. minute : ProxyLogs(l, at))
            \/ (\E i \in Ids : CreateApplication(i) \/ DeleteRow(i) \/ ViewRows(i))
            \/ Forget \/ ViewMinutes \/ ViewEnd
  <2>1. UNCHANGED <<feed, seen, line, flush>>
    BY <1>10 DEF TrafficTick, ProxyLogs, CreateApplication, DeleteRow, ViewRows, Forget, ViewMinutes, ViewEnd
  <2> QED BY <1>1, <1>2, <2>1
<1>11. CASE FlushTake \/ FlushAdd \/ FlushFails
  <2>1. UNCHANGED <<feed, seen, line>> /\ flush'.last = flush.last
    BY <1>11, <1>t DEF FlushTake, FlushAdd, FlushFails
  <2> QED BY <1>1, <1>2, <2>1
<1>12. CASE FlushBegin \/ FlushEnd
  <2>1. UNCHANGED <<feed, seen, line>> /\ flush.last = FALSE
    BY <1>12, <1>i, <1>t DEF FlushBegin, FlushEnd
  <2>2. flush'.last = FALSE
    BY <1>12, NoFlushIs DEF FlushBegin, FlushEnd, NoFlush
  <2> QED BY <1>1, <1>2, <2>1, <2>2
<1> QED BY <1>1, <1>3, <1>4, <1>5, <1>6, <1>7, <1>8, <1>9, <1>10, <1>11, <1>12 DEF TrafficNext, TrafficRestart, Crash

-----------------------------------------------------------------------------
\* How each action moves lines between the places.
LEMMA Moves ==
  ASSUME TrafficTyped, FlushInv, TrafficNext
  PROVE  \/ Record
         \/ UNCHANGED <<minutes, rows, counted>> /\ flush'.taken = flush.taken
         \/ \E i \in Ids : DeleteRow(i)
         \/ Forget
         \/ \E g \in Goroutines : RefreshStore(g) /\ flush'.taken = flush.taken
         \/ FlushTake
         \/ FlushAdd /\ flush'.taken = Uncounted
         \/ FlushFails /\ flush'.taken = Uncounted
         \/ Gone
<1>t. flush \in [phase : {"idle", "refresh", "take", "taken", "written"},
                 taken : [Ids -> SUBSET Nat], until : Nat, last : BOOLEAN]
  BY Types
<1>1. CASE TrafficTick \/ (\E l \in Lives, at \in 0 .. minute : ProxyLogs(l, at)) \/ (\E j \in Ids : CreateApplication(j) \/ ViewRows(j))
            \/ OpenLog \/ LogEnds \/ ReadLine \/ ViewMinutes \/ ViewEnd
  <2>1. UNCHANGED <<minutes, rows, flush, counted>>
    BY <1>1
       DEF TrafficTick, ProxyLogs, CreateApplication, ViewRows, OpenLog, LogEnds, ReadLine,
           ViewMinutes, ViewEnd
  <2> QED BY <2>1
<1>2. CASE FlushBegin \/ FlushEnd \/ Stop
  <2>1. UNCHANGED <<minutes, rows, counted>> /\ flush.phase # "taken"
    BY <1>2 DEF FlushBegin, FlushEnd, Stop
  <2>2. flush.taken = Uncounted
    BY <2>1 DEF FlushInv
  <2>3. flush'.taken = Uncounted
    BY <1>2, NoFlushIs DEF FlushBegin, FlushEnd, Stop
  <2> QED BY <2>1, <2>2, <2>3
<1>3. ASSUME NEW g \in Goroutines, Refreshed(g) PROVE flush'.taken = flush.taken
  BY <1>t, <1>3 DEF Refreshed
<1>4. ASSUME NEW g \in Goroutines, RefreshRead(g) \/ RefreshFails(g)
      PROVE  UNCHANGED <<minutes, rows, counted>> /\ flush'.taken = flush.taken
  BY <1>3, <1>4 DEF RefreshRead, RefreshFails
<1>5. ASSUME NEW g \in Goroutines, RefreshStore(g) PROVE flush'.taken = flush.taken
  BY <1>3, <1>5 DEF RefreshStore
<1>6. CASE FlushAdd \/ FlushFails
  <2>1. flush' = [flush EXCEPT !.phase = "written", !.taken = Uncounted]
    BY <1>6 DEF FlushAdd, FlushFails
  <2>2. flush'.taken = Uncounted
    BY <2>1, <1>t
  <2> QED BY <1>6, <2>2
<1> QED BY <1>1, <1>2, <1>4, <1>5, <1>6 DEF TrafficNext, TrafficRestart, Crash

\* The line that is counted is held nowhere yet.
LEMMA NewIsNowhere ==
  ASSUME TrafficTyped, LogInv, FlushInv, Past, Record
  PROVE  \/ UNCHANGED <<minutes, counted>>
         \/ \E i \in Ids :
              /\ minutes' = [minutes EXCEPT ![i] = @ \cup {line.n}]
              /\ counted' = counted \cup {[line |-> line.n, id |-> i]}
              /\ ~Held(line.n) /\ line.n \in Nat
<1>1. line.phase = "record" /\ line.n \in DOMAIN log /\ line.n \in Nat /\ feed.open /\ ~flush.last
  <2>1. flush.last \in BOOLEAN /\ line.n \in Nat
    BY Types
  <2> QED BY <2>1 DEF LogInv, FlushInv, Record
<1>2. CASE NewLine(log[line.n])
  <2>1. log[line.n].at > feed.from /\ log[line.n].at \in Nat /\ feed.from \in Nat
    BY <1>1, <1>2, Types DEF NewLine
  <2>2. ~Held(line.n)
    BY <1>1, <2>1 DEF Past
  <2>3. table.owners[log[line.n].life] \in Ids \cup {0}
    BY <1>1, LogIs DEF TrafficTyped
  <2> QED BY <1>1, <1>2, <2>2, <2>3 DEF Record
<1>3. CASE ~NewLine(log[line.n])
  BY <1>3 DEF Record
<1> QED BY <1>2, <1>3

LEMMA ApartStep ==
  ASSUME TrafficTyped, LogInv, FlushInv, Past, Apart, TrafficNext
  PROVE  Apart'
<1>t. /\ minutes \in [Ids -> SUBSET Nat] /\ rows \in [Ids -> SUBSET Nat]
      /\ flush \in [phase : {"idle", "refresh", "take", "taken", "written"},
                    taken : [Ids -> SUBSET Nat], until : Nat, last : BOOLEAN]
  BY Types
<1>a. \A i, j \in Ids :
        /\ minutes[i] \cap flush.taken[j] = {} /\ minutes[i] \cap rows[j] = {} /\ flush.taken[i] \cap rows[j] = {}
        /\ i # j => minutes[i] \cap minutes[j] = {} /\ flush.taken[i] \cap flush.taken[j] = {} /\ rows[i] \cap rows[j] = {}
  BY DEF Apart
<1>1. ASSUME \A i \in Ids : minutes'[i] \subseteq minutes[i] /\ flush'.taken[i] \subseteq flush.taken[i] /\ rows'[i] \subseteq rows[i]
      PROVE  Apart'
  BY <1>1, <1>a DEF Apart
<1>2. CASE Record
  <2>1. CASE UNCHANGED minutes
    BY <1>1, <1>2, <2>1 DEF Record
  <2>2. ASSUME NEW k \in Ids, minutes' = [minutes EXCEPT ![k] = @ \cup {line.n}], ~Held(line.n) PROVE Apart'
    <3>1. rows' = rows /\ flush' = flush
      BY <1>2 DEF Record
    <3>2. \A i \in Ids : minutes'[i] = IF i = k THEN minutes[i] \cup {line.n} ELSE minutes[i]
      BY <1>t, <2>2
    <3>3. \A i \in Ids : line.n \notin minutes[i] /\ line.n \notin flush.taken[i] /\ line.n \notin rows[i]
      BY <2>2 DEF Held
    <3> SUFFICES ASSUME NEW i \in Ids, NEW j \in Ids
                 PROVE  /\ minutes'[i] \cap flush'.taken[j] = {} /\ minutes'[i] \cap rows'[j] = {} /\ flush'.taken[i] \cap rows'[j] = {}
                        /\ i # j => minutes'[i] \cap minutes'[j] = {} /\ flush'.taken[i] \cap flush'.taken[j] = {} /\ rows'[i] \cap rows'[j] = {}
      BY DEF Apart
    <3>4. minutes'[i] \cap flush'.taken[j] = {} /\ minutes'[i] \cap rows'[j] = {} /\ flush'.taken[i] \cap rows'[j] = {}
      <4>1. minutes'[i] \subseteq minutes[i] \cup {line.n} /\ flush'.taken[j] = flush.taken[j] /\ rows'[j] = rows[j]
        BY <3>1, <3>2
      <4>2. flush.taken[i] \cap rows[j] = {} /\ flush'.taken[i] = flush.taken[i]
        BY <1>a, <3>1
      <4>3. minutes[i] \cap flush.taken[j] = {} /\ minutes[i] \cap rows[j] = {}
        BY <1>a
      <4>4. line.n \notin flush'.taken[j] /\ line.n \notin rows'[j]
        BY <3>3, <4>1
      <4>5. minutes[i] \cap flush'.taken[j] = {} /\ minutes[i] \cap rows'[j] = {}
        BY <4>1, <4>3
      <4>6. flush'.taken[i] \cap rows'[j] = {}
        BY <4>1, <4>2
      <4>7. minutes'[i] \subseteq minutes[i] \cup {line.n}
        BY <4>1
      <4>8. minutes'[i] \cap flush'.taken[j] = {}
        BY <4>4, <4>5, <4>7
      <4>9. minutes'[i] \cap rows'[j] = {}
        BY <4>4, <4>5, <4>7
      <4> QED BY <4>6, <4>8, <4>9
    <3>5. ASSUME i # j PROVE minutes'[i] \cap minutes'[j] = {}
      <4>1. minutes[i] \cap minutes[j] = {}
        BY <1>a, <3>5
      <4>2. minutes'[i] = minutes[i] \/ minutes'[j] = minutes[j]
        BY <3>2, <3>5
      <4>3. minutes'[i] \subseteq minutes[i] \cup {line.n} /\ minutes'[j] \subseteq minutes[j] \cup {line.n}
        BY <3>2
      <4>4. line.n \notin minutes[i] /\ line.n \notin minutes[j]
        BY <3>3
      <4> QED BY <4>1, <4>2, <4>3, <4>4
    <3>6. i # j => flush'.taken[i] \cap flush'.taken[j] = {} /\ rows'[i] \cap rows'[j] = {}
      BY <1>a, <3>1
    <3> QED BY <3>4, <3>5, <3>6
  <2> QED BY <1>2, <2>1, <2>2, NewIsNowhere
<1>3. CASE UNCHANGED <<minutes, rows, counted>> /\ flush'.taken = flush.taken
  BY <1>1, <1>3
<1>4. ASSUME NEW i \in Ids, DeleteRow(i) PROVE Apart'
  <2>1. \A k \in Ids : minutes'[k] \subseteq minutes[k] /\ flush'.taken[k] \subseteq flush.taken[k] /\ rows'[k] \subseteq rows[k]
    BY <1>t, <1>4 DEF DeleteRow
  <2> QED BY <1>1, <2>1
<1>5. CASE Forget
  <2>1. \A k \in Ids : minutes'[k] \subseteq minutes[k] /\ flush'.taken[k] \subseteq flush.taken[k] /\ rows'[k] \subseteq rows[k]
    BY <1>t, <1>5 DEF Forget
  <2> QED BY <1>1, <2>1
<1>6. ASSUME NEW g \in Goroutines, RefreshStore(g), flush'.taken = flush.taken PROVE Apart'
  <2>1. rows' = rows /\ minutes' = [k \in Ids |-> IF k \in snap[g][2] THEN minutes[k] ELSE {}]
    BY <1>6 DEF RefreshStore
  <2> QED BY <1>1, <1>6, <2>1
<1>7. CASE FlushTake
  <2> DEFINE tk == [k \in Ids |-> Ended(k)]
  <2>1. flush' = [flush EXCEPT !.phase = "taken", !.taken = tk] /\ minutes' = [k \in Ids |-> minutes[k] \ Ended(k)] /\ rows' = rows
    BY <1>7 DEF FlushTake
  <2>2. \A k \in Ids : tk[k] = Ended(k) /\ Ended(k) \subseteq minutes[k]
    BY DEF Ended
  <2> HIDE DEF tk
  <2>3. flush'.taken = tk
    BY <2>1, <1>t
  <2>4. \A k \in Ids : /\ minutes'[k] \subseteq minutes[k] /\ minutes'[k] \cap flush'.taken[k] = {}
                       /\ flush'.taken[k] \subseteq minutes[k]
    BY <2>1, <2>2, <2>3
  <2> QED BY <1>a, <2>1, <2>4 DEF Apart
<1>8. CASE FlushAdd /\ flush'.taken = Uncounted
  <2>1. minutes' = minutes /\ \A k \in Ids : rows'[k] = rows[k] \cup flush.taken[k]
    BY <1>8 DEF FlushAdd
  <2> QED BY <1>a, <1>8, <2>1, EmptyIs DEF Apart
<1>9. CASE FlushFails /\ flush'.taken = Uncounted
  <2>1. rows' = rows /\ \A k \in Ids : minutes'[k] = minutes[k] \cup flush.taken[k]
    BY <1>9 DEF FlushFails, PutBack
  <2> QED BY <1>a, <1>9, <2>1, EmptyIs DEF Apart
<1>10. CASE Gone
  <2>1. rows' = rows /\ minutes' = Uncounted /\ flush'.taken = Uncounted
    BY <1>10, NoFlushIs DEF Gone
  <2> QED BY <1>1, <2>1, EmptyIs
<1> QED BY <1>2, <1>3, <1>4, <1>5, <1>6, <1>7, <1>8, <1>9, <1>10, Moves

LEMMA ExactStep ==
  ASSUME TrafficTyped, LogInv, FlushInv, Past, Apart, Exact, TrafficNext
  PROVE  Exact'
<1>t. /\ minutes \in [Ids -> SUBSET Nat] /\ rows \in [Ids -> SUBSET Nat]
      /\ flush \in [phase : {"idle", "refresh", "take", "taken", "written"},
                    taken : [Ids -> SUBSET Nat], until : Nat, last : BOOLEAN]
  BY Types
<1>a. \A i \in Ids : minutes[i] \cap flush.taken[i] = {} /\ minutes[i] \cap rows[i] = {} /\ flush.taken[i] \cap rows[i] = {}
  BY DEF Apart
<1>e. \A n \in Nat, i \in Ids :
        [line |-> n, id |-> i] \in counted <=> n \in minutes[i] \/ n \in flush.taken[i] \/ n \in rows[i]
  BY DEF Exact
<1> SUFFICES ASSUME NEW n \in Nat, NEW i \in Ids
             PROVE  [line |-> n, id |-> i] \in counted' <=> n \in minutes'[i] \/ n \in flush'.taken[i] \/ n \in rows'[i]
  BY DEF Exact
<1> DEFINE c == [line |-> n, id |-> i]
           Goal == c \in counted' <=> n \in minutes'[i] \/ n \in flush'.taken[i] \/ n \in rows'[i]
<1>c. c.line = n /\ c.id = i /\ (c \in counted <=> n \in minutes[i] \/ n \in flush.taken[i] \/ n \in rows[i])
  BY <1>e
<1>2. ASSUME Record PROVE Goal
  <2>1. CASE UNCHANGED <<minutes, counted>>
    BY <1>2, <1>c, <2>1 DEF Record
  <2>2. ASSUME NEW k \in Ids, minutes' = [minutes EXCEPT ![k] = @ \cup {line.n}], counted' = counted \cup {[line |-> line.n, id |-> k]}
        PROVE  Goal
    <3>1. rows' = rows /\ flush' = flush
      BY <1>2 DEF Record
    <3>2. minutes'[i] = IF i = k THEN minutes[i] \cup {line.n} ELSE minutes[i]
      BY <1>t, <2>2
    <3>3. c = [line |-> line.n, id |-> k] <=> n = line.n /\ i = k
      OBVIOUS
    <3> HIDE DEF c
    <3> QED BY <1>c, <2>2, <3>1, <3>2, <3>3
  <2> QED BY <1>2, <2>1, <2>2, NewIsNowhere
<1> HIDE DEF c
<1>3. ASSUME UNCHANGED <<minutes, rows, counted>> /\ flush'.taken = flush.taken PROVE Goal
  BY <1>c, <1>3
<1>4. ASSUME NEW k \in Ids, DeleteRow(k) PROVE Goal
  <2>1. /\ counted' = {d \in counted : ~(d.id = k /\ d.line \in rows[k])}
        /\ rows' = [rows EXCEPT ![k] = {}] /\ minutes' = minutes /\ flush' = flush
    BY <1>4 DEF DeleteRow
  <2>2. rows'[i] = IF i = k THEN {} ELSE rows[i]
    BY <1>t, <2>1
  <2>3. c \in counted' <=> c \in counted /\ ~(i = k /\ n \in rows[k])
    BY <1>c, <2>1
  <2> QED BY <1>a, <1>c, <2>1, <2>2, <2>3
<1>5. ASSUME Forget PROVE Goal
  <2>1. /\ counted' = {d \in counted : ~(d.id = forgot /\ d.line \in minutes[forgot])}
        /\ minutes' = [minutes EXCEPT ![forgot] = {}] /\ rows' = rows /\ flush' = flush
    BY <1>5 DEF Forget
  <2>2. minutes'[i] = IF i = forgot THEN {} ELSE minutes[i]
    BY <1>t, <2>1
  <2>3. c \in counted' <=> c \in counted /\ ~(i = forgot /\ n \in minutes[forgot])
    BY <1>c, <2>1
  <2> QED BY <1>a, <1>c, <2>1, <2>2, <2>3
<1>6. ASSUME NEW g \in Goroutines, RefreshStore(g), flush'.taken = flush.taken PROVE Goal
  <2>1. /\ rows' = rows /\ minutes' = [k \in Ids |-> IF k \in snap[g][2] THEN minutes[k] ELSE {}]
        /\ counted' = {d \in counted : ~(d.id \notin snap[g][2] /\ d.line \in minutes[d.id])}
    BY <1>6 DEF RefreshStore
  <2>2. c \in counted' <=> c \in counted /\ ~(i \notin snap[g][2] /\ n \in minutes[i])
    BY <1>c, <2>1
  <2> QED BY <1>a, <1>c, <1>6, <2>1, <2>2
<1>7. ASSUME FlushTake PROVE Goal
  <2> DEFINE tk == [k \in Ids |-> Ended(k)]
  <2>1. flush' = [flush EXCEPT !.phase = "taken", !.taken = tk] /\ minutes' = [k \in Ids |-> minutes[k] \ Ended(k)] /\ UNCHANGED <<rows, counted>>
    BY <1>7 DEF FlushTake
  <2>2. tk[i] = Ended(i) /\ Ended(i) \subseteq minutes[i]
    BY DEF Ended
  <2> HIDE DEF tk
  <2>3. flush'.taken = tk /\ flush.phase = "take"
    BY <2>1, <1>t, <1>7 DEF FlushTake
  <2>4. flush.taken[i] = {}
    BY <2>3, EmptyIs DEF FlushInv
  <2> QED BY <1>c, <2>1, <2>2, <2>3, <2>4
<1>8. ASSUME FlushAdd, flush'.taken = Uncounted PROVE Goal
  <2>1. UNCHANGED <<minutes, counted>> /\ rows'[i] = rows[i] \cup flush.taken[i]
    BY <1>8 DEF FlushAdd
  <2> QED BY <1>c, <1>8, <2>1, EmptyIs
<1>9. ASSUME FlushFails, flush'.taken = Uncounted PROVE Goal
  <2>1. UNCHANGED <<rows, counted>> /\ minutes'[i] = minutes[i] \cup flush.taken[i]
    BY <1>9 DEF FlushFails, PutBack
  <2> QED BY <1>c, <1>9, <2>1, EmptyIs
<1>10. ASSUME Gone PROVE Goal
  <2>1. rows' = rows /\ minutes' = Uncounted /\ flush'.taken = Uncounted /\ counted' = {d \in counted : d.line \in rows[d.id]}
    BY <1>10, NoFlushIs DEF Gone
  <2> QED BY <1>c, <2>1, EmptyIs
<1> QED BY <1>2, <1>3, <1>4, <1>5, <1>6, <1>7, <1>8, <1>9, <1>10, Moves DEF c

-----------------------------------------------------------------------------
LEMMA NoViewIs == /\ NoView.phase = "idle" /\ DOMAIN NoView = {"phase", "id", "life", "stored", "got", "twice", "whole"}
  BY DEF NoView

LEMMA ViewInvStep ==
  ASSUME TrafficTyped, FlushInv, Apart, Exact, ViewInv, TrafficNext
  PROVE  ViewInv'
<1>t. /\ lives \in Nat /\ apps \in [Ids -> Nat] /\ (\A i \in Ids : apps[i] <= lives)
      /\ minutes \in [Ids -> SUBSET Nat] /\ rows \in [Ids -> SUBSET Nat] /\ counted \subseteq [line : Nat, id : Ids]
      /\ flush \in [phase : {"idle", "refresh", "take", "taken", "written"},
                    taken : [Ids -> SUBSET Nat], until : Nat, last : BOOLEAN]
  BY Types
<1>i. /\ DOMAIN view = DOMAIN NoView /\ view.phase \in {"idle", "reading", "done"}
      /\ view.phase # "idle" => view.id \in Ids /\ view.life \in Nat /\ view.life # 0 /\ view.life <= lives
      /\ view.phase = "reading" => flush.phase \notin {"taken", "written"}
      /\ view.phase = "reading" /\ apps[view.id] = view.life => view.stored = rows[view.id]
      /\ view.phase = "done" /\ apps[view.id] = view.life => ~view.twice /\ view.got = view.whole
  BY DEF ViewInv
<1>n. DOMAIN NoView' = DOMAIN NoView
  BY DEF NoView
<1> DEFINE Kept == /\ view' = view /\ lives' \in Nat /\ lives <= lives'
                   /\ view.phase # "idle" /\ apps'[view.id] = view.life =>
                          apps[view.id] = view.life /\ rows'[view.id] = rows[view.id]
                   /\ view.phase = "reading" => flush'.phase \notin {"taken", "written"}
\* An application that still has the id it was asked for has its rows.
<1>k. ASSUME Kept PROVE ViewInv'
  <2>1. view.phase # "idle" => view.life <= lives'
    BY <1>i, <1>k, <1>t
  <2> QED BY <1>i, <1>k, <1>n, <2>1 DEF ViewInv
<1>1. CASE TrafficTick \/ (\E l \in Lives, at \in 0 .. minute : ProxyLogs(l, at)) \/ Forget \/ OpenLog \/ LogEnds \/ ReadLine \/ Record
  <2>1. UNCHANGED <<view, lives, apps, rows, flush>>
    BY <1>1 DEF TrafficTick, ProxyLogs, Forget, OpenLog, LogEnds, ReadLine, Record
  <2> QED BY <1>t, <1>i, <1>k, <2>1
<1>2. ASSUME NEW i \in Ids, CreateApplication(i) PROVE ViewInv'
  <2>1. /\ UNCHANGED <<view, rows, flush>> /\ lives' = lives + 1 /\ apps' = [apps EXCEPT ![i] = lives + 1]
    BY <1>2 DEF CreateApplication
  <2>2. view.phase # "idle" /\ apps'[view.id] = view.life => apps[view.id] = view.life
    BY <1>t, <1>i, <2>1
  <2> QED BY <1>t, <1>i, <1>k, <2>1, <2>2
<1>3. ASSUME NEW i \in Ids, DeleteRow(i) PROVE ViewInv'
  <2>1. /\ UNCHANGED <<view, lives, flush>> /\ apps' = [apps EXCEPT ![i] = 0] /\ rows' = [rows EXCEPT ![i] = {}]
    BY <1>3 DEF DeleteRow
  <2>2. view.phase # "idle" /\ apps'[view.id] = view.life => apps[view.id] = view.life /\ rows'[view.id] = rows[view.id]
    BY <1>t, <1>i, <2>1
  <2> QED BY <1>t, <1>i, <1>k, <2>1, <2>2
<1>4. ASSUME NEW g \in Goroutines, RefreshRead(g) \/ RefreshFails(g) \/ RefreshStore(g) PROVE ViewInv'
  <2>1. UNCHANGED <<view, lives, apps, rows>>
    BY <1>4 DEF RefreshRead, RefreshFails, RefreshStore
  <2>2. flush' = flush \/ flush'.phase = "take"
    BY <1>4, <1>t DEF RefreshRead, RefreshFails, RefreshStore, Refreshed
  <2> QED BY <1>t, <1>i, <1>k, <2>1, <2>2
<1>5. CASE FlushBegin \/ FlushEnd \/ Stop
  <2>1. UNCHANGED <<view, lives, apps, rows>>
    BY <1>5 DEF FlushBegin, FlushEnd, Stop
  <2>2. flush'.phase \in {"idle", "refresh"}
    BY <1>5, NoFlushIs DEF FlushBegin, FlushEnd, Stop, NoFlush
  <2> QED BY <1>t, <1>i, <1>k, <2>1, <2>2
<1>6. CASE FlushTake \/ FlushFails
  <2>1. UNCHANGED <<view, lives, apps, rows>> /\ view.phase # "reading"
    BY <1>6, <1>i DEF FlushTake, FlushFails
  <2> QED BY <1>t, <1>i, <1>k, <2>1
<1>7. CASE FlushAdd
  <2>1. UNCHANGED <<view, lives, apps>> /\ view.phase # "reading"
    BY <1>7, <1>i DEF FlushAdd
  <2> QED BY <1>t, <1>i, <1>n, <2>1 DEF ViewInv
<1>8. CASE Gone \/ ViewEnd
  <2>1. view' = NoView
    BY <1>8 DEF Gone, ViewEnd
  <2> QED BY <1>n, <2>1, NoViewIs DEF ViewInv
<1>9. ASSUME NEW i \in Ids, ViewRows(i) PROVE ViewInv'
  <2>1. /\ UNCHANGED <<lives, apps, rows, flush>> /\ apps[i] # 0 /\ MayView
        /\ view' = [NoView EXCEPT !.phase = "reading", !.id = i, !.life = apps[i], !.stored = rows[i]]
    BY <1>9 DEF ViewRows
  <2> DEFINE a == apps[i]  r == rows[i]
  <2>2. a \in Nat /\ a # 0 /\ a <= lives
    BY <1>t, <2>1
  <2>3. view' = [NoView EXCEPT !.phase = "reading", !.id = i, !.life = a, !.stored = r]
    BY <2>1
  <2> HIDE DEF a, r
  <2>4. /\ DOMAIN view' = DOMAIN NoView /\ view'.phase = "reading" /\ view'.id = i /\ view'.life = a /\ view'.stored = r
    BY <2>3, NoViewIs
  <2>5. flush'.phase \notin {"taken", "written"}
    BY <2>1 DEF MayView
  <2>6. r = rows'[i]
    BY <2>1 DEF r
  <2> QED BY <1>n, <2>1, <2>2, <2>4, <2>5, <2>6 DEF ViewInv
<1>10. CASE ViewMinutes
  <2> DEFINE got == view.stored \cup minutes[view.id]
             tw == view.stored \cap minutes[view.id] # {}
             wh == {c.line : c \in {d \in counted : d.id = view.id}}
  <2>1. /\ UNCHANGED <<lives, apps, rows, flush>> /\ view.phase = "reading"
        /\ view' = [view EXCEPT !.phase = "done", !.got = got, !.twice = tw, !.whole = wh]
    BY <1>10 DEF ViewMinutes
  <2>2. ASSUME apps[view.id] = view.life PROVE ~tw /\ got = wh
    <3>1. view.stored = rows[view.id] /\ view.id \in Ids /\ flush.taken = Uncounted
      BY <1>i, <2>1, <2>2 DEF FlushInv
    <3>2. ~tw
      BY <3>1 DEF Apart
    <3>3. wh \subseteq got
      <4>1. SUFFICES ASSUME NEW d \in counted, d.id = view.id PROVE d.line \in got
        OBVIOUS
      <4>2. d = [line |-> d.line, id |-> view.id] /\ d.line \in Nat
        BY <1>t, <4>1
      <4> QED BY <3>1, <4>2, EmptyIs DEF Exact
    <3>4. got \subseteq wh
      <4> SUFFICES ASSUME NEW n \in got PROVE n \in wh
        OBVIOUS
      <4> DEFINE d == [line |-> n, id |-> view.id]
      <4>1. n \in Nat /\ (n \in rows[view.id] \/ n \in minutes[view.id])
        BY <1>t, <3>1
      <4>2. d \in counted /\ d.id = view.id /\ d.line = n
        BY <3>1, <4>1 DEF Exact
      <4> QED BY <4>2
    <3> QED BY <3>2, <3>3, <3>4
  <2> HIDE DEF got, tw, wh
  <2>3. /\ DOMAIN view' = DOMAIN NoView /\ view'.phase = "done" /\ view'.id = view.id /\ view'.life = view.life
        /\ view'.got = got /\ view'.twice = tw /\ view'.whole = wh
    BY <1>i, <2>1, NoViewIs
  <2> QED BY <1>i, <1>n, <2>1, <2>2, <2>3 DEF ViewInv
<1> QED BY <1>1, <1>2, <1>3, <1>4, <1>5, <1>6, <1>7, <1>8, <1>9, <1>10 DEF TrafficNext, TrafficRestart, Crash

-----------------------------------------------------------------------------
LEMMA TrafficInitially == TrafficInit => TrafficInv
<1> SUFFICES ASSUME TrafficInit PROVE TrafficInv
  OBVIOUS
<1>1. TrafficTyped
  BY NoLineIs, NoFlushIs, EmptyIs, TrafficAssumption DEF TrafficInit, TrafficTyped
<1>2. LogInv /\ FlushInv
  BY NoLineIs, NoFlushIs DEF TrafficInit, LogInv, FlushInv
<1>3. Past /\ Apart /\ Exact
  BY NoFlushIs, EmptyIs DEF TrafficInit, Past, Apart, Exact, Held
<1>4. ViewInv
  BY NoViewIs DEF TrafficInit, ViewInv
<1> QED BY <1>1, <1>2, <1>3, <1>4 DEF TrafficInv

LEMMA TrafficInvStep == TrafficInv /\ [TrafficNext]_trafficVars => TrafficInv'
<1> SUFFICES ASSUME TrafficInv, [TrafficNext]_trafficVars PROVE TrafficInv'
  OBVIOUS
<1>1. CASE TrafficNext
  <2>1. TrafficTyped /\ LogInv /\ FlushInv /\ Past /\ Apart /\ Exact /\ ViewInv
    BY DEF TrafficInv
  <2> QED BY <1>1, <2>1, TrafficTypedStep, LogInvStep, FlushInvStep, PastStep, ApartStep, ExactStep, ViewInvStep DEF TrafficInv
<1>2. CASE UNCHANGED trafficVars
  <2>1. UNCHANGED <<minute, left, apps, lives, log, feed, seen, table, line, snap>>
        /\ UNCHANGED <<minutes, flush, rows, view, forgot, counted>>
    BY <1>2 DEF trafficVars
  <2>2. TrafficTyped' /\ LogInv' /\ FlushInv'
    BY <2>1 DEF TrafficInv, TrafficTyped, LogInv, FlushInv, Uncounted
  <2>3. Past' /\ Apart' /\ Exact' /\ ViewInv'
    BY <2>1 DEF TrafficInv, Past, Held, Apart, Exact, ViewInv, NoView
  <2> QED BY <2>2, <2>3 DEF TrafficInv
<1> QED BY <1>1, <1>2

\* The places of a line, compared in pairs, are one at most.
LEMMA OnePlace ==
  ASSUME NEW n, TrafficInv
  PROVE  Cardinality(Places(n)) <= 1
<1>1. \A p, q \in Places(n) : p = q
  <2> SUFFICES ASSUME NEW p \in Places(n), NEW q \in Places(n) PROVE p = q
    OBVIOUS
  <2>1. /\ p \in {"memory", "taken", "stored"} \X Ids /\ q \in {"memory", "taken", "stored"} \X Ids
        /\ p = <<p[1], p[2]>> /\ q = <<q[1], q[2]>>
    BY DEF Places
  <2>2. p[2] \in Ids /\ q[2] \in Ids
    BY <2>1
  <2>3. \A x \in Places(n) : /\ x[1] = "memory" => n \in minutes[x[2]]
                             /\ x[1] = "taken" => n \in flush.taken[x[2]]
                             /\ x[1] = "stored" => n \in rows[x[2]]
                             /\ x[1] \in {"memory", "taken", "stored"}
    BY DEF Places
  <2>4. \A i, j \in Ids :
          /\ ~(n \in minutes[i] /\ n \in flush.taken[j]) /\ ~(n \in minutes[i] /\ n \in rows[j]) /\ ~(n \in flush.taken[i] /\ n \in rows[j])
          /\ i # j => ~(n \in minutes[i] /\ n \in minutes[j]) /\ ~(n \in flush.taken[i] /\ n \in flush.taken[j]) /\ ~(n \in rows[i] /\ n \in rows[j])
    BY DEF TrafficInv, Apart
  <2>5. p[1] = q[1]
    BY <2>2, <2>3, <2>4
  <2>6. p[2] = q[2]
    BY <2>2, <2>3, <2>4, <2>5
  <2> QED BY <2>1, <2>5, <2>6
<1>2. CASE Places(n) = {}
  BY <1>2, FS_EmptySet
<1>3. CASE Places(n) # {}
  <2>1. PICK p \in Places(n) : TRUE
    BY <1>3
  <2>2. Places(n) = {p}
    BY <1>1, <2>1
  <2> QED BY <2>2, FS_Singleton
<1> QED BY <1>2, <1>3

\* Every request is counted once at most, in memory, on its way to the
\* database or in it, stays counted until its application goes or the agent
\* dies, and is shown to a reader once (recordAccess, flushTraffic, trafficAt).
THEOREM RequestsAreCounted == TrafficSpec => []RequestsCounted
<1>1. TrafficInv => RequestsCounted
  <2> SUFFICES ASSUME TrafficInv PROVE RequestsCounted
    OBVIOUS
  <2>1. CountedOnce
    BY OnePlace DEF CountedOnce
  <2>2. StaysCounted
    <3> SUFFICES ASSUME NEW c \in counted PROVE \E p \in Places(c.line) : p[2] = c.id
      BY DEF StaysCounted
    <3>1. c = [line |-> c.line, id |-> c.id] /\ c.line \in Nat /\ c.id \in Ids
      BY DEF TrafficInv, TrafficTyped
    <3>2. c.line \in minutes[c.id] \/ c.line \in flush.taken[c.id] \/ c.line \in rows[c.id]
      BY <3>1 DEF TrafficInv, Exact
    <3>3. CASE c.line \in minutes[c.id]
      <4>1. <<"memory", c.id>> \in Places(c.line)
        BY <3>1, <3>3 DEF Places
      <4> QED BY <4>1
    <3>4. CASE c.line \in flush.taken[c.id]
      <4>1. <<"taken", c.id>> \in Places(c.line)
        BY <3>1, <3>4 DEF Places
      <4> QED BY <4>1
    <3>5. CASE c.line \in rows[c.id]
      <4>1. <<"stored", c.id>> \in Places(c.line)
        BY <3>1, <3>5 DEF Places
      <4> QED BY <4>1
    <3> QED BY <3>2, <3>3, <3>4, <3>5
  <2>3. ViewsWhole
    BY DEF TrafficInv, ViewInv, ViewsWhole
  <2> QED BY <2>1, <2>2, <2>3 DEF RequestsCounted
<1> QED BY <1>1, TrafficInitially, TrafficInvStep, PTL DEF TrafficSpec

-----------------------------------------------------------------------------
(* The alerts.                                                              *)

Readings == {"low", "mid", "high"}
Severities == {"none", "warning", "critical"}
AlertTyped ==
    /\ alertTime \in Int
    /\ "replicas" \in DOMAIN spare /\ spare.replicas \in 1..MaxReplicas
    /\ book \in [active : [Keys -> Severities], unhealthy : Int]
    /\ mem \in [1..MaxReplicas -> Readings] /\ samples \in [1..MaxReplicas -> Seq(Readings)]
    /\ sampler \in [phase : {"idle", "list", "check"}, apps : BOOLEAN]

(* A replica without a memory alert has been calm since its last one.       *)
QuietIsCalm == \A i \in Reps : ~Active(<<"memory", i>>) => i \in calm

(* While a round is under way, a replica whose newest reading is below the  *)
(* clear level has been seen calm.                                          *)
IsLow(list) == list # <<>> /\ Usage[list[Len(list)]] < Percent - MemoryClearMargin
LowIsCalm == sampler.phase # "idle" => \A i \in Reps : IsLow(samples[i]) => i \in calm

(* An outage owes its end; an alert that stands owes it too, or its end was *)
(* told by the recovery.                                                    *)
EndsAreOwed ==
    /\ owed \in {"no", "yes", "late"}
    /\ down => owed = "yes"
    /\ Active(<<"unhealthy", 0>>) => owed # "no"
    /\ EndIsTold

AlertInv == AlertTyped /\ QuietIsCalm /\ LowIsCalm /\ OneAlertPerEpisode /\ EndsAreOwed

(* The keys of the alerts are what they are about.                          *)
LEMMA KeysAre ==
  /\ <<"unhealthy", 0>> \in OfApplication /\ <<"docker", 0>> \in Keys
  /\ \A i \in 1..MaxReplicas : <<"memory", i>> \in OfApplication /\ <<"restarts", i>> \in OfApplication
  /\ OfApplication \subseteq Keys
  BY DEF Keys, OfApplication

(* What is kept of the readings ends with the newest one.                   *)
LEMMA NewestIsKept ==
  ASSUME AlertAssumption, NEW list \in Seq(Readings), NEW r \in Readings,
         NEW kept, kept = LastFew(Append(list, r), MemorySamples)
  PROVE  kept \in Seq(Readings) /\ kept # <<>> /\ kept[Len(kept)] = r
<1>1. PICK s : s = Append(list, r)
  OBVIOUS
<1>2. s \in Seq(Readings) /\ s # <<>> /\ Len(s) = Len(list) + 1 /\ s[Len(s)] = r /\ Len(list) \in Nat
  BY <1>1, AppendProperties, LenProperties
<1>3. MemorySamples \in Nat /\ MemorySamples >= 1 /\ Len(s) \in Nat
  BY <1>2 DEF AlertAssumption
<1>4. CASE Len(s) > MemorySamples
  <2>1. kept = SubSeq(s, Len(s) - MemorySamples + 1, Len(s))
    BY <1>1, <1>4 DEF LastFew
  <2>2. PICK m \in 1..Len(s) : m = Len(s) - MemorySamples + 1
    <3>1. Len(s) - MemorySamples + 1 \in 1..Len(s)
      BY <1>3, <1>4
    <3> QED
      BY <3>1
  <2>3. Len(s) \in 1..Len(s)
    BY <1>2
  <2>4. /\ kept \in Seq(Readings) /\ Len(kept) = Len(s) - m + 1
        /\ \A i \in 1..(Len(s) - m + 1) : kept[i] = s[m + i - 1]
    BY <2>1, <2>2, <2>3, <1>2, SubSeqProperties
  <2>5. Len(kept) \in 1..(Len(s) - m + 1) /\ m + Len(kept) - 1 = Len(s)
    BY <2>2, <2>4, <1>2
  <2>6. kept[Len(kept)] = r
    BY <2>4, <2>5, <1>2
  <2> QED
    BY <2>4, <2>5, <2>6
<1>5. CASE ~(Len(s) > MemorySamples)
  BY <1>1, <1>2, <1>5 DEF LastFew
<1> QED
  BY <1>4, <1>5

(* The replicas are among the numbered ones.                                *)
LEMMA RepsAre ==
  ASSUME AlertInv
  PROVE  MaxReplicas \in Nat /\ Reps \subseteq 1..MaxReplicas
<1>1. MaxReplicas \in Nat
  BY AlertAssumption DEF AlertAssumption
<1>2. spare.replicas \in 1..MaxReplicas
  BY DEF AlertInv, AlertTyped
<1> QED
  BY <1>1, <1>2 DEF Reps

(* What an event costs is not the number of replicas.                       *)
LEMMA ReplicasKept ==
  ASSUME AlertTyped, NEW what \in {"deaths", "probes", "levels", "outages", "stops", "starts", "restarts", "rounds"},
         Costs(what)
  PROVE  "replicas" \in DOMAIN spare' /\ spare'.replicas \in 1..MaxReplicas /\ Reps' = Reps
<1>1. spare' = [spare EXCEPT ![what] = @ - 1] /\ what # "replicas"
  BY DEF Costs
<1>2. "replicas" \in DOMAIN spare' /\ spare'.replicas = spare.replicas
  BY <1>1 DEF AlertTyped
<1> QED
  BY <1>2 DEF Reps, AlertTyped

(* The alerts and what is known about the calm stand as they were.          *)
LEMMA NothingNoted ==
  ASSUME AlertInv, AlertTyped', Reps' = Reps, UNCHANGED <<book, samples, down, sampler, owed, calm, again>>
  PROVE  AlertInv'
<1>1. \A k : Active(k)' <=> Active(k)
  BY DEF Active
<1>2. QuietIsCalm' /\ LowIsCalm'
  BY <1>1 DEF AlertInv, QuietIsCalm, LowIsCalm
<1>3. OneAlertPerEpisode' /\ EndsAreOwed'
  BY <1>1 DEF AlertInv, OneAlertPerEpisode, EndsAreOwed, EndIsTold
<1> QED
  BY <1>2, <1>3 DEF AlertInv

(* Replicas, containers, Docker and users.                                  *)
LEMMA WorldKeeps ==
  ASSUME AlertInv,
         \/ \E i \in Reps : Dies(i) \/ \E h \in {"ready", "failing"} : Probed(i, h)
         \/ \E i \in Reps, level \in DOMAIN Usage : Uses(i, level)
         \/ DockerFails \/ DockerReturns \/ StopApp \/ StartApp
  PROVE  AlertInv'
<1>1. UNCHANGED <<alertTime, book, samples, down, sampler, owed, calm, again>>
  BY DEF Dies, Probed, Uses, DockerFails, DockerReturns, StopApp, StartApp
<1>2. \/ \E what \in {"deaths", "probes", "levels", "outages", "stops", "starts", "restarts", "rounds"} : Costs(what)
      \/ spare' = spare
  BY DEF Dies, Probed, Uses, DockerFails, DockerReturns, StopApp, StartApp
<1>3. "replicas" \in DOMAIN spare' /\ spare'.replicas \in 1..MaxReplicas /\ Reps' = Reps
  <2>1. AlertTyped
    BY DEF AlertInv
  <2>2. CASE spare' = spare
    BY <2>1, <2>2 DEF AlertTyped, Reps
  <2> QED
    BY <1>2, <2>1, <2>2, ReplicasKept
<1>4. mem' \in [1..MaxReplicas -> Readings]
  <2>1. DOMAIN Usage = Readings
    BY DEF Usage, Readings
  <2> QED
    BY <2>1 DEF AlertInv, AlertTyped, Dies, Probed, Uses, DockerFails, DockerReturns, StopApp, StartApp
<1>5. AlertTyped'
  BY <1>1, <1>3, <1>4 DEF AlertInv, AlertTyped
<1> QED
  BY <1>1, <1>3, <1>5, NothingNoted

(* The supervisor's tick.                                                   *)
LEMMA TickAsksKeeps ==
  ASSUME AlertInv, TickAsks
  PROVE  AlertInv'
<1>1. /\ UNCHANGED <<spare, mem, samples, down, sampler, owed, calm, again>>
      /\ alertTime' \in Int
  BY DEF TickAsks, AlertInv, AlertTyped
<1>2. PICK level \in Severities :
        book' = [book EXCEPT !.active = [k \in Keys |-> IF k = <<"docker", 0>> THEN level ELSE @[k]]]
  <2>1. book \in [active : [Keys -> Severities], unhealthy : Int]
    BY DEF AlertInv, AlertTyped
  <2>2. CASE docker
    <3>1. book' = [book EXCEPT !.active = [k \in Keys |-> IF k = <<"docker", 0>> THEN "none" ELSE @[k]]]
      BY <2>1, <2>2 DEF TickAsks, Dropped
    <3> QED
      BY <3>1 DEF Severities
  <2>3. CASE ~docker
    <3>1. PICK level \in Severities : book' = [book EXCEPT !.active[<<"docker", 0>>] = level]
      BY <2>1, <2>3, KeysAre DEF TickAsks, Severities
    <3>2. [book.active EXCEPT ![<<"docker", 0>>] = level]
             = [k \in Keys |-> IF k = <<"docker", 0>> THEN level ELSE book.active[k]]
      BY <2>1
    <3> QED
      BY <2>1, <3>1, <3>2
  <2> QED
    BY <2>2, <2>3
<1>3. /\ book' \in [active : [Keys -> Severities], unhealthy : Int]
      /\ \A k \in OfApplication : book'.active[k] = book.active[k]
  BY <1>2 DEF AlertInv, AlertTyped, OfApplication
<1>4. \A k \in OfApplication : Active(k)' <=> Active(k)
  BY <1>3 DEF Active
<1>5. Reps' = Reps /\ Reps \subseteq 1..MaxReplicas
  BY <1>1, RepsAre DEF Reps, AlertInv, AlertTyped
<1>6. AlertTyped'
  BY <1>1, <1>3 DEF AlertInv, AlertTyped
<1>7. QuietIsCalm' /\ LowIsCalm' /\ OneAlertPerEpisode' /\ EndsAreOwed'
  BY <1>1, <1>4, <1>5, KeysAre DEF AlertInv, QuietIsCalm, LowIsCalm, OneAlertPerEpisode, EndsAreOwed, EndIsTold
<1> QED
  BY <1>6, <1>7 DEF AlertInv

(* Steps that note nothing.                                                 *)
LEMMA QuietTicksKeep ==
  ASSUME AlertInv, TickLists \/ Supervise \/ SamplerLists
  PROVE  AlertInv'
<1>1. UNCHANGED <<alertTime, spare, mem, book, samples, down, owed, calm, again>>
  BY DEF TickLists, Supervise, SamplerLists
<1>2. \/ sampler' = sampler
      \/ sampler.phase = "list" /\ \E b \in BOOLEAN : sampler' = [phase |-> "check", apps |-> b]
  BY DEF TickLists, Supervise, SamplerLists
<1>3. sampler' \in [phase : {"idle", "list", "check"}, apps : BOOLEAN] /\ (sampler'.phase # "idle" => sampler.phase # "idle")
  BY <1>2 DEF AlertInv, AlertTyped
<1>4. Reps' = Reps /\ \A k : Active(k)' <=> Active(k)
  BY <1>1 DEF Reps, Active
<1>5. AlertTyped'
  BY <1>1, <1>3 DEF AlertInv, AlertTyped
<1>6. QuietIsCalm' /\ LowIsCalm' /\ OneAlertPerEpisode' /\ EndsAreOwed'
  BY <1>1, <1>3, <1>4 DEF AlertInv, QuietIsCalm, LowIsCalm, OneAlertPerEpisode, EndsAreOwed, EndIsTold
<1> QED
  BY <1>5, <1>6 DEF AlertInv

(* An alert that is cleared without a word leaves the outage to be told.    *)
LEMMA NoteAlertsKeeps ==
  ASSUME AlertInv, NoteAlerts
  PROVE  AlertInv'
<1>1. UNCHANGED <<alertTime, spare, mem, samples, down, sampler, calm>>
  BY DEF NoteAlerts
<1>2. PICK since \in Int, severity \in Severities, of \in [1..MaxReplicas -> Severities] :
        /\ since = Never => severity = "none"
        /\ book' = [unhealthy |-> since,
                    active |-> [k \in Keys |->
                       IF k[1] = "restarts" /\ k[2] \in Reps THEN of[k[2]]
                       ELSE IF k[1] = "unhealthy"
                            THEN IF since = Never THEN "none" ELSE IF severity = "none" THEN book.active[k] ELSE severity
                       ELSE book.active[k]]]
        /\ owed' = IF severity \notin {"none", book.active[<<"unhealthy", 0>>]} THEN "yes"
                   ELSE IF (since = Never /\ Active(<<"unhealthy", 0>>)) /\ ~down THEN "no" ELSE owed
        /\ again' = (again \/ ((since = Never /\ Active(<<"unhealthy", 0>>)) /\ ~down /\ owed = "no"))
  <2> DEFINE ready == Cardinality({i \in Reps : Ready(i)})
             since == IF AllReady /\ Settled THEN Never
                      ELSE IF book.unhealthy = Never /\ ~AllReady THEN alertTime ELSE book.unhealthy
             severity == UnhealthySeverity(since)
             held(i) == down \/ ready = 0 \/ rep[i].loop
             restarts(i) == IF RestartAlerting(Active(<<"restarts", i>>), rep[i].times, held(i)) THEN "warning" ELSE "none"
             of == [i \in 1..MaxReplicas |-> restarts(i)]
  <2>1. since \in Int
    BY DEF AlertInv, AlertTyped, Never
  <2>2. severity \in Severities /\ (since = Never => severity = "none")
    BY DEF UnhealthySeverity, Severities
  <2>3. of \in [1..MaxReplicas -> Severities] /\ \A i \in 1..MaxReplicas : of[i] = restarts(i)
    BY DEF Severities
  <2>4. Reps \subseteq 1..MaxReplicas
    BY RepsAre DEF AlertInv, AlertTyped, Reps
  <2> HIDE DEF restarts
  <2>5. book' = [unhealthy |-> since,
                 active |-> [k \in Keys |->
                     CASE k[1] = "restarts" /\ k[2] \in Reps -> restarts(k[2])
                       [] k[1] = "unhealthy" -> IF since = Never THEN "none"
                                                ELSE IF severity = "none" THEN book.active[k] ELSE severity
                       [] OTHER -> book.active[k]]]
    BY DEF NoteAlerts, restarts
  <2>6. /\ owed' = IF severity \notin {"none", book.active[<<"unhealthy", 0>>]} THEN "yes"
                   ELSE IF (since = Never /\ Active(<<"unhealthy", 0>>)) /\ ~down THEN "no" ELSE owed
        /\ again' = (again \/ ((since = Never /\ Active(<<"unhealthy", 0>>)) /\ ~down /\ owed = "no"))
    BY DEF NoteAlerts, QuietEnd
  <2> HIDE DEF since, severity, of
  <2>7. book' = [unhealthy |-> since,
                 active |-> [k \in Keys |->
                       IF k[1] = "restarts" /\ k[2] \in Reps THEN of[k[2]]
                       ELSE IF k[1] = "unhealthy"
                            THEN IF since = Never THEN "none" ELSE IF severity = "none" THEN book.active[k] ELSE severity
                       ELSE book.active[k]]]
    BY <2>3, <2>4, <2>5
  <2> QED
    BY <2>1, <2>2, <2>3, <2>6, <2>7
<1>3. /\ book' \in [active : [Keys -> Severities], unhealthy : Int]
      /\ \A i \in 1..MaxReplicas : book'.active[<<"memory", i>>] = book.active[<<"memory", i>>]
      /\ book'.active[<<"unhealthy", 0>>] =
            IF since = Never THEN "none" ELSE IF severity = "none" THEN book.active[<<"unhealthy", 0>>] ELSE severity
  <2>1. \A k \in Keys : book.active[k] \in Severities
    BY DEF AlertInv, AlertTyped
  <2>2. Reps \subseteq 1..MaxReplicas
    BY RepsAre DEF AlertInv, AlertTyped, Reps
  <2>3. \A k \in Keys :
          (IF k[1] = "restarts" /\ k[2] \in Reps THEN of[k[2]]
           ELSE IF k[1] = "unhealthy"
                THEN IF since = Never THEN "none" ELSE IF severity = "none" THEN book.active[k] ELSE severity
           ELSE book.active[k]) \in Severities
    BY <2>1, <2>2 DEF Severities
  <2>4. /\ book'.unhealthy = since /\ book' \in [active : [Keys -> Severities], unhealthy : Int]
    BY <1>2, <2>3
  <2>5. \A k \in Keys : book'.active[k] = IF k[1] = "restarts" /\ k[2] \in Reps THEN of[k[2]]
           ELSE IF k[1] = "unhealthy"
                THEN IF since = Never THEN "none" ELSE IF severity = "none" THEN book.active[k] ELSE severity
           ELSE book.active[k]
    BY <1>2
  <2> QED
    BY <2>4, <2>5, KeysAre
<1>4. \A i \in 1..MaxReplicas : Active(<<"memory", i>>)' <=> Active(<<"memory", i>>)
  BY <1>3 DEF Active
<1>5. Reps' = Reps /\ Reps \subseteq 1..MaxReplicas
  BY <1>1, RepsAre DEF Reps, AlertInv, AlertTyped
<1>6. AlertTyped'
  BY <1>1, <1>3 DEF AlertInv, AlertTyped
<1>7. QuietIsCalm' /\ LowIsCalm'
  BY <1>1, <1>4, <1>5 DEF AlertInv, QuietIsCalm, LowIsCalm
<1>8. OneAlertPerEpisode'
  BY <1>2 DEF AlertInv, OneAlertPerEpisode, EndsAreOwed
<1>9. EndsAreOwed'
  <2>1. Active(<<"unhealthy", 0>>)' <=>
          IF since = Never THEN FALSE
          ELSE IF severity = "none" THEN Active(<<"unhealthy", 0>>) ELSE TRUE
    BY <1>3 DEF Active
  <2>2. severity \notin {"none", book.active[<<"unhealthy", 0>>]} \/ severity = "none" \/ Active(<<"unhealthy", 0>>)
    BY DEF Active
  <2> QED
    BY <1>1, <1>2, <2>1, <2>2 DEF AlertInv, EndsAreOwed, EndIsTold
<1> QED
  BY <1>6, <1>7, <1>8, <1>9 DEF AlertInv

(* The end of an outage is told by who notes the recovery.                  *)
LEMMA NoteAvailabilityKeeps ==
  ASSUME AlertInv, NoteAvailability
  PROVE  AlertInv'
<1>1. UNCHANGED <<alertTime, spare, mem, samples, book, sampler, calm>>
  BY DEF NoteAvailability
<1>2. Reps' = Reps /\ \A k : Active(k)' <=> Active(k)
  BY <1>1 DEF Reps, Active
<1>3. AlertTyped'
  BY <1>1 DEF AlertInv, AlertTyped
<1>4. QuietIsCalm' /\ LowIsCalm'
  BY <1>1, <1>2 DEF AlertInv, QuietIsCalm, LowIsCalm
<1>5. PICK isDown \in BOOLEAN, recovered \in BOOLEAN :
        /\ recovered => down /\ ~isDown
        /\ down' = (isDown \/ (down /\ ~recovered))
        /\ owed' = IF recovered THEN IF Active(<<"unhealthy", 0>>) THEN "late" ELSE "no"
                   ELSE IF isDown THEN "yes" ELSE owed
        /\ again' = (again \/ (recovered /\ owed # "yes"))
  <2> DEFINE isDown == \A i \in Reps : ~Ready(i) /\ ~ComingUp(i)
             recovered == down /\ AllReady /\ Settled
  <2>1. isDown \in BOOLEAN /\ recovered \in BOOLEAN
    OBVIOUS
  <2>2. recovered => down /\ ~isDown
    <3>1. spare.replicas \in 1..MaxReplicas /\ MaxReplicas \in Nat
      BY RepsAre DEF AlertInv, AlertTyped
    <3>2. 1 \in Reps
      BY <3>1 DEF Reps
    <3> QED
      BY <3>2 DEF AllReady
  <2>3. down' = (isDown \/ (down /\ ~recovered))
    BY DEF NoteAvailability
  <2>4. /\ owed' = IF recovered THEN IF Active(<<"unhealthy", 0>>) THEN "late" ELSE "no"
                   ELSE IF isDown THEN "yes" ELSE owed
        /\ again' = (again \/ (recovered /\ owed # "yes"))
    BY DEF NoteAvailability
  <2> HIDE DEF isDown, recovered
  <2> QED
    BY <2>1, <2>2, <2>3, <2>4
<1>6. OneAlertPerEpisode' /\ EndsAreOwed'
  BY <1>2, <1>5 DEF AlertInv, OneAlertPerEpisode, EndsAreOwed, EndIsTold
<1> QED
  BY <1>3, <1>4, <1>6 DEF AlertInv

(* What is forgotten is owed no end, unless the outage still is.            *)
LEMMA ForgetAlertsKeeps ==
  ASSUME AlertInv, ForgetAlerts
  PROVE  AlertInv'
<1>1. UNCHANGED <<alertTime, spare, mem, samples, down, sampler, again>>
  BY DEF ForgetAlerts
<1>2. book \in [active : [Keys -> Severities], unhealthy : Int] /\ Reps \subseteq 1..MaxReplicas
  BY RepsAre DEF AlertInv, AlertTyped, Reps
<1>3. Reps' = Reps
  BY <1>1 DEF Reps
<1>4. CASE tick.apps
  <2>1. Forgotten(tick.apps) = {}
    BY <1>4 DEF Forgotten
  <2>2. book' = [active |-> Dropped(book.active, {}), unhealthy |-> book.unhealthy] /\ calm' = calm
    BY <2>1 DEF ForgetAlerts
  <2>3. owed' = owed
    BY <2>1 DEF ForgetAlerts
  <2>4. Dropped(book.active, {}) = book.active
    BY <1>2 DEF Dropped
  <2>5. book' \in [active : [Keys -> Severities], unhealthy : Int] /\ book'.active = book.active
    BY <1>2, <2>2, <2>4
  <2>6. \A k : Active(k)' <=> Active(k)
    BY <2>5 DEF Active
  <2>7. AlertTyped'
    BY <1>1, <2>5 DEF AlertInv, AlertTyped
  <2>8. QuietIsCalm' /\ LowIsCalm' /\ OneAlertPerEpisode' /\ EndsAreOwed'
    BY <1>1, <1>3, <2>2, <2>3, <2>6 DEF AlertInv, QuietIsCalm, LowIsCalm, OneAlertPerEpisode, EndsAreOwed, EndIsTold
  <2> QED
    BY <2>7, <2>8 DEF AlertInv
<1>5. CASE ~tick.apps
  <2>1. Forgotten(tick.apps) = OfApplication /\ OfApplication # {}
    BY <1>5, KeysAre DEF Forgotten
  <2>2. book' = [active |-> Dropped(book.active, OfApplication), unhealthy |-> Never] /\ calm' = 1 .. MaxReplicas
    BY <2>1 DEF ForgetAlerts
  <2>3. owed' = (IF down THEN owed ELSE "no") /\ \A k \in OfApplication : book'.active[k] = "none"
    BY <1>2, <2>1, <2>2, KeysAre DEF ForgetAlerts, Dropped
  <2>4. Dropped(book.active, OfApplication) \in [Keys -> Severities]
    BY <1>2 DEF Dropped, Severities
  <2>5. book' \in [active : [Keys -> Severities], unhealthy : Int]
    BY <2>2, <2>4 DEF Never
  <2>6. Reps' \subseteq calm'
    BY <1>2, <1>3, <2>2
  <2>7. AlertTyped'
    BY <1>1, <2>5 DEF AlertInv, AlertTyped
  <2>8. QuietIsCalm' /\ LowIsCalm' /\ OneAlertPerEpisode' /\ EndsAreOwed'
    BY <1>1, <2>3, <2>6, KeysAre DEF Active, AlertInv, QuietIsCalm, LowIsCalm, OneAlertPerEpisode, EndsAreOwed, EndIsTold
  <2> QED
    BY <2>7, <2>8 DEF AlertInv
<1> QED
  BY <1>4, <1>5

(* A restart forgets everything, and owes nothing.                          *)
LEMMA RestartKeeps ==
  ASSUME AlertInv, AgentRestarts
  PROVE  AlertInv'
<1>1. /\ UNCHANGED <<alertTime, mem, samples, again>> /\ owed' = "no" /\ ~down' /\ calm' = 1 .. MaxReplicas
      /\ book' = [active |-> [k \in Keys |-> "none"], unhealthy |-> Never]
      /\ sampler' = IdleTick /\ Costs("restarts")
  BY DEF AgentRestarts
<1>2. "replicas" \in DOMAIN spare' /\ spare'.replicas \in 1..MaxReplicas /\ Reps' = Reps
  BY <1>1, ReplicasKept DEF AlertInv
<1>3. book' \in [active : [Keys -> Severities], unhealthy : Int]
  BY <1>1 DEF Severities, Never
<1>4. sampler' \in [phase : {"idle", "list", "check"}, apps : BOOLEAN] /\ sampler'.phase = "idle"
  BY <1>1 DEF IdleTick
<1>5. Reps' \subseteq calm'
  BY <1>1, <1>2, RepsAre
<1>6. AlertTyped'
  BY <1>1, <1>2, <1>3, <1>4 DEF AlertInv, AlertTyped
<1>7. QuietIsCalm' /\ LowIsCalm' /\ OneAlertPerEpisode' /\ EndsAreOwed'
  BY <1>1, <1>4, <1>5, KeysAre DEF AlertInv, QuietIsCalm, LowIsCalm, OneAlertPerEpisode, EndsAreOwed, EndIsTold, Active
<1> QED
  BY <1>6, <1>7 DEF AlertInv

(* The sampler: who reads low is calm.                                      *)
LEMMA SampleKeeps ==
  ASSUME AlertAssumption, AlertInv, Sample
  PROVE  AlertInv'
<1>1. /\ UNCHANGED <<alertTime, mem, book, down, owed, again>> /\ Costs("rounds")
      /\ sampler' = [sampler EXCEPT !.phase = "list"]
  BY DEF Sample
<1>2. "replicas" \in DOMAIN spare' /\ spare'.replicas \in 1..MaxReplicas /\ Reps' = Reps
  BY <1>1, ReplicasKept DEF AlertInv
<1>3. sampler' \in [phase : {"idle", "list", "check"}, apps : BOOLEAN]
  BY <1>1 DEF AlertInv, AlertTyped
<1>4. samples' = [i \in 1 .. MaxReplicas |-> IF i \in Reps /\ wanted = "running" /\ rep[i].run
                                   THEN LastFew(Append(samples[i], mem[i]), MemorySamples) ELSE <<>>]
  BY DEF Sample
<1>5. \A i \in 1..MaxReplicas : /\ samples'[i] \in Seq(Readings)
                                /\ IsLow(samples'[i]) => i \in calm' \/ i \notin Reps
  <2> TAKE i \in 1..MaxReplicas
  <2>1. samples[i] \in Seq(Readings) /\ mem[i] \in Readings
    BY DEF AlertInv, AlertTyped
  <2>2. CASE i \in Reps /\ wanted = "running" /\ rep[i].run
    <3>1. samples'[i] = LastFew(Append(samples[i], mem[i]), MemorySamples)
      BY <1>4, <2>2
    <3>2. samples'[i] \in Seq(Readings) /\ samples'[i][Len(samples'[i])] = mem[i]
      BY <3>1, <2>1, NewestIsKept
    <3>3. Usage[mem[i]] < Percent - MemoryClearMargin => i \in calm'
      BY <2>2 DEF Sample
    <3> QED
      BY <3>2, <3>3 DEF IsLow
  <2>3. CASE ~(i \in Reps /\ wanted = "running" /\ rep[i].run)
    <3>1. samples'[i] = <<>>
      BY <1>4, <2>3
    <3> QED
      BY <3>1, EmptySeq DEF IsLow
  <2> QED
    BY <2>2, <2>3
<1>6. calm \subseteq calm'
  BY DEF Sample
<1>7. \A k : Active(k)' <=> Active(k)
  BY <1>1 DEF Active
<1>8. Reps \subseteq 1..MaxReplicas
  BY RepsAre
<1>9. AlertTyped'
  <2>1. samples' \in [1..MaxReplicas -> Seq(Readings)]
    <3>1. samples' = [i \in 1..MaxReplicas |-> samples'[i]]
      BY <1>4
    <3>2. \A i \in 1..MaxReplicas : samples'[i] \in Seq(Readings)
      BY <1>5
    <3> QED
      BY <3>1, <3>2
  <2> QED
    BY <1>1, <1>2, <1>3, <2>1 DEF AlertInv, AlertTyped
<1>10. QuietIsCalm' /\ OneAlertPerEpisode' /\ EndsAreOwed'
  BY <1>1, <1>2, <1>6, <1>7 DEF AlertInv, QuietIsCalm, OneAlertPerEpisode, EndsAreOwed, EndIsTold
<1>11. LowIsCalm'
  BY <1>2, <1>5, <1>8 DEF LowIsCalm, IsLow
<1> QED
  BY <1>9, <1>10, <1>11 DEF AlertInv

(* An alert that is cleared was cleared by a low reading, or dropped.       *)
LEMMA CheckMemoryKeeps ==
  ASSUME AlertInv, CheckMemory
  PROVE  AlertInv'
<1> DEFINE is(i) == MemoryAlerting(Active(<<"memory", i>>), samples[i])
           raised == {i \in Reps : sampler.apps /\ is(i) /\ ~Active(<<"memory", i>>)}
<1>1. /\ UNCHANGED <<alertTime, spare, mem, samples, down, owed>> /\ sampler.phase = "check" /\ sampler' = IdleTick
      /\ again' = (again \/ raised \ calm # {})
      /\ calm' = (IF sampler.apps THEN calm ELSE 1 .. MaxReplicas) \ raised
  BY DEF CheckMemory
<1>2. book' = [book EXCEPT !.active = [k \in Keys |->
                IF k[1] # "memory" THEN @[k]
                ELSE IF sampler.apps /\ k[2] \in Reps /\ is(k[2]) THEN "warning" ELSE "none"]]
  BY DEF CheckMemory
<1>3. book \in [active : [Keys -> Severities], unhealthy : Int] /\ Reps \subseteq 1..MaxReplicas
  BY RepsAre DEF AlertInv, AlertTyped, Reps
<1>4. \A i \in Reps : Active(<<"memory", i>>) /\ ~is(i) => i \in calm
  <2> SUFFICES ASSUME NEW i \in Reps, Active(<<"memory", i>>), ~is(i) PROVE i \in calm
    OBVIOUS
  <2>1. samples[i] # <<>> /\ ~(Usage[samples[i][Len(samples[i])]] >= Percent - MemoryClearMargin)
    BY DEF MemoryAlerting
  <2>2. samples[i] \in Seq(Readings)
    BY <1>3 DEF AlertInv, AlertTyped
  <2>3. samples[i][Len(samples[i])] \in Readings
    BY <2>1, <2>2, LenProperties, ElementOfSeq, EmptySeq
  <2>4. \A r \in Readings : Usage[r] \in Int
    BY DEF Readings, Usage
  <2>5. IsLow(samples[i])
    BY <2>1, <2>3, <2>4 DEF IsLow, Percent, MemoryClearMargin
  <2> QED
    BY <1>1, <2>5 DEF AlertInv, LowIsCalm
<1> HIDE DEF is
<1>5. raised \subseteq calm
  BY DEF AlertInv, QuietIsCalm
<1>6. ~again'
  BY <1>1, <1>5 DEF AlertInv, OneAlertPerEpisode
<1>7. /\ book' \in [active : [Keys -> Severities], unhealthy : Int]
      /\ \A k \in Keys : k[1] # "memory" => book'.active[k] = book.active[k]
      /\ \A i \in 1..MaxReplicas : book'.active[<<"memory", i>>] = IF sampler.apps /\ i \in Reps /\ is(i) THEN "warning" ELSE "none"
  <2> DEFINE level(k) == IF k[1] # "memory" THEN book.active[k]
                         ELSE IF sampler.apps /\ k[2] \in Reps /\ is(k[2]) THEN "warning" ELSE "none"
  <2>1. \A k \in Keys : level(k) \in Severities
    BY <1>3 DEF Severities
  <2>2. book' = [book EXCEPT !.active = [k \in Keys |-> level(k)]]
    BY <1>2, <1>3
  <2>3. \A i \in 1..MaxReplicas : level(<<"memory", i>>) = IF sampler.apps /\ i \in Reps /\ is(i) THEN "warning" ELSE "none"
    OBVIOUS
  <2>4. \A k \in Keys : k[1] # "memory" => level(k) = book.active[k]
    OBVIOUS
  <2> HIDE DEF level
  <2>5. book' \in [active : [Keys -> Severities], unhealthy : Int] /\ book'.active = [k \in Keys |-> level(k)]
    BY <1>3, <2>1, <2>2
  <2> QED
    BY <2>3, <2>4, <2>5, KeysAre
<1>8. sampler' \in [phase : {"idle", "list", "check"}, apps : BOOLEAN] /\ sampler'.phase = "idle"
  BY <1>1 DEF IdleTick
<1>9. Reps' = Reps
  BY <1>1 DEF Reps
<1>10. AlertTyped'
  BY <1>1, <1>7, <1>8 DEF AlertInv, AlertTyped
<1>11. QuietIsCalm'
  <2> SUFFICES ASSUME NEW i \in Reps, ~Active(<<"memory", i>>)' PROVE i \in calm'
    BY <1>9 DEF QuietIsCalm
  <2>1. i \in 1..MaxReplicas
    BY <1>3
  <2>2. ~(sampler.apps /\ is(i))
    BY <1>7, <2>1 DEF Active
  <2>3. i \notin raised
    BY <2>2
  <2>4. sampler.apps => i \in calm
    BY <1>4, <2>2 DEF AlertInv, QuietIsCalm
  <2> QED
    BY <1>1, <2>1, <2>3, <2>4
<1>12. LowIsCalm' /\ OneAlertPerEpisode'
  BY <1>6, <1>8 DEF LowIsCalm, OneAlertPerEpisode
<1>13. EndsAreOwed'
  <2>1. <<"unhealthy", 0>> \in Keys /\ <<"unhealthy", 0>>[1] = "unhealthy"
    BY KeysAre
  <2>2. Active(<<"unhealthy", 0>>)' <=> Active(<<"unhealthy", 0>>)
    BY <1>7, <2>1 DEF Active
  <2> QED
    BY <1>1, <2>2 DEF AlertInv, EndsAreOwed, EndIsTold
<1> QED
  BY <1>10, <1>11, <1>12, <1>13 DEF AlertInv

(* A memory alert is told once for its episode, and the end of an           *)
(* application's trouble is told, once unless the recovery was noticed      *)
(* between the two notes of a tick, for any readings, deaths, probes,       *)
(* stops, outages and restarts in any order (checkMemory, noteAlerts,       *)
(* noteAvailability).                                                       *)
THEOREM EpisodesAreTold == AlertSpec => []EpisodesTold
<1>1. AlertInit => AlertInv
  <2> SUFFICES ASSUME AlertInit PROVE AlertInv
    OBVIOUS
  <2>1. "replicas" \in DOMAIN spare /\ spare.replicas \in 1..MaxReplicas /\ alertTime = 0
    BY AlertAssumption DEF AlertInit, AlertAssumption
  <2>2. book = [active |-> [k \in Keys |-> "none"], unhealthy |-> Never]
        /\ sampler = IdleTick /\ owed = "no" /\ ~down /\ calm = 1 .. MaxReplicas /\ ~again
    BY DEF AlertInit
  <2>3. book \in [active : [Keys -> Severities], unhealthy : Int]
    BY <2>2 DEF Severities, Never
  <2>4. sampler \in [phase : {"idle", "list", "check"}, apps : BOOLEAN] /\ sampler.phase = "idle"
    BY <2>2 DEF IdleTick
  <2>5. mem \in [1..MaxReplicas -> Readings] /\ samples \in [1..MaxReplicas -> Seq(Readings)]
    BY EmptySeq DEF AlertInit, Readings
  <2>6. AlertTyped
    BY <2>1, <2>3, <2>4, <2>5 DEF AlertTyped
  <2>7. MaxReplicas \in Nat /\ Reps \subseteq calm
    <3>1. MaxReplicas \in Nat
      BY AlertAssumption DEF AlertAssumption
    <3> QED
      BY <2>1, <2>2, <3>1 DEF Reps
  <2> QED
    BY <2>1, <2>2, <2>4, <2>6, <2>7, KeysAre DEF AlertInv, QuietIsCalm, LowIsCalm, OneAlertPerEpisode, EndsAreOwed, EndIsTold, Active
<1>2. AlertInv /\ [AlertNext]_alertVars => AlertInv'
  <2> SUFFICES ASSUME AlertInv, [AlertNext]_alertVars PROVE AlertInv'
    OBVIOUS
  <2>1. CASE UNCHANGED alertVars
    <3>1. AlertTyped' /\ Reps' = Reps
      BY <2>1 DEF alertVars, AlertInv, AlertTyped, Reps
    <3> QED
      BY <2>1, <3>1, NothingNoted DEF alertVars
  <2> QED
    BY <2>1, AlertAssumption, TickAsksKeeps, QuietTicksKeep, NoteAlertsKeeps, NoteAvailabilityKeeps, ForgetAlertsKeeps,
       RestartKeeps, SampleKeeps, CheckMemoryKeeps, WorldKeeps DEF AlertNext, TickSteps
<1>3. AlertInv => EpisodesTold
  BY DEF AlertInv, EndsAreOwed, EpisodesTold
<1> QED
  BY <1>1, <1>2, <1>3, PTL DEF AlertSpec

-----------------------------------------------------------------------------
(* The certificates.                                                        *)

CertFields == {"status", "pending", "number", "warned", "failure", "failureTold"}
IsRecord(c) == c = [f \in CertFields |-> c[f]]
CertTyped ==
    /\ presented \in [number : Nat, stage : 1..3]
    /\ probed \in [phase : {"none", "note", "lost", "report"}, number : Nat, stage : 1..3]
    /\ IsRecord(certState)
    /\ certState.number \in Nat /\ certState.warned \in 0..2

(* A look is at a certificate that was presented, and looks are one at a   *)
(* time: what is known is never newer than what is being looked at.        *)
NumbersGrow ==
    /\ certState.number <= presented.number
    /\ probed.phase = "note" =>
        /\ certState.number <= probed.number /\ probed.number <= presented.number
        /\ probed.number = presented.number => probed.stage <= presented.stage

(* An expiry that was told: that certificate does not get younger, and its *)
(* level stands as warned until a newer one was looked at.                 *)
ExpiryKnown(e) == \E s \in {2, 3} :
    /\ e.what = Stages[s] /\ presented.number >= e.number
    /\ presented.number = e.number => presented.stage >= s
    /\ probed.phase = "note" => /\ probed.number >= e.number
                                /\ probed.number = e.number => probed.stage >= s
    /\ \/ certState.warned >= s - 1
       \/ presented.number > e.number /\ (probed.phase = "note" => probed.number # e.number)

(* A failure: its reason stands as told until a newer certificate.         *)
FailureKnown(e) ==
    certState.number >= e.number /\ (certState.failureTold = e.what \/ certState.number > e.number)

Known(e) ==
    /\ e.number \in Nat
    /\ e.kind = "expiring" => ExpiryKnown(e)
    /\ e.kind = "failed" => FailureKnown(e)

(* An event after the i-th that ends what it said.                         *)
Otherwise(e, f) == f.kind = "obtained" \/ (f.kind = "failed" /\ f.what # e.what)
Superseded(q, i) == \E k \in (i + 1)..Len(q) : Otherwise(q[i], q[k])
Over(e) == e.kind = "failed" /\ e.number \in Nat /\ e.number <= certState.number

(* What was told, with nothing told twice.                                 *)
IsList(q) == Len(q) \in Nat /\ q = [i \in 1..Len(q) |-> q[i]]
IsNews(q) ==
    \A i, j \in 1..Len(q) :
        i < j /\ q[i] = q[j] /\ q[i].kind # "obtained" =>
            q[i].kind = "failed" /\ \E k \in (i + 1)..(j - 1) : Otherwise(q[i], q[k])
Stands(q) == \A i \in 1..Len(q) : Known(q[i]) \/ (Over(q[i]) /\ Superseded(q, i))
ToldOK == IsList(told) /\ IsNews(told) /\ Stands(told)

CertInv == CertTyped /\ NumbersGrow /\ ToldOK

(* What was told is a sequence, whatever its events are.                    *)
LEMMA ToldSeq ==
  ASSUME NEW q, IsList(q), NEW e
  PROVE  \E S : q \in Seq(S) /\ e \in S
<1> USE DEF IsList
<1> DEFINE S == {q[i] : i \in 1..Len(q)} \cup {e}
<1>1. q \in [1..Len(q) -> S]
  OBVIOUS
<1> HIDE DEF S
<1>2. q \in Seq(S)
  BY <1>1, SeqDef
<1>3. e \in S
  BY DEF S
<1> QED
  BY <1>2, <1>3

(* One more event: what was superseded stays so, and what the event ends is.*)
LEMMA EventAppended ==
  ASSUME NEW q, IsList(q), NEW e, NEW a, a = Append(q, e)
  PROVE  /\ IsList(a) /\ Len(a) = Len(q) + 1 /\ a[Len(q) + 1] = e /\ Len(q) \in Nat
         /\ \A i \in 1..Len(q) : a[i] = q[i]
         /\ \A i \in 1..Len(q) : Superseded(q, i) \/ Otherwise(q[i], e) => Superseded(a, i)
<1> USE DEF IsList
<1>1. PICK S : q \in Seq(S) /\ e \in S
  BY ToldSeq
<1>2. /\ a \in Seq(S) /\ Len(a) = Len(q) + 1 /\ Len(q) \in Nat
      /\ \A i \in 1..Len(q) : a[i] = q[i]
      /\ a[Len(q) + 1] = e
  BY <1>1, AppendProperties
<1>3. a = [i \in 1..Len(a) |-> a[i]]
  BY <1>2, LenProperties
<1>4. ASSUME NEW i \in 1..Len(q), Superseded(q, i) \/ Otherwise(q[i], e) PROVE Superseded(a, i)
  <2>1. CASE Superseded(q, i)
    <3>1. PICK k \in (i + 1)..Len(q) : Otherwise(q[i], q[k])
      BY <2>1 DEF Superseded
    <3>2. k \in 1..Len(q) /\ k \in (i + 1)..Len(a)
      BY <1>2, <3>1
    <3>3. a[k] = q[k] /\ a[i] = q[i]
      BY <1>2, <3>2
    <3> QED
      BY <3>1, <3>2, <3>3 DEF Superseded
  <2>2. CASE Otherwise(q[i], e)
    <3>1. Len(q) + 1 \in (i + 1)..Len(a) /\ a[i] = q[i]
      BY <1>2
    <3> QED
      BY <1>2, <2>2, <3>1 DEF Superseded
  <2> QED
    BY <1>4, <2>1, <2>2
<1> QED
  BY <1>2, <1>3, <1>4

(* An event that was not told before, or that another has ended since, is   *)
(* news.                                                                    *)
LEMMA NewsAppended ==
  ASSUME NEW q, IsList(q), IsNews(q), NEW e, NEW a, a = Append(q, e),
         \A i \in 1..Len(q) : q[i] = e /\ e.kind # "obtained" => e.kind = "failed" /\ Superseded(q, i)
  PROVE  IsNews(a)
<1>1. /\ Len(a) = Len(q) + 1 /\ a[Len(q) + 1] = e /\ Len(q) \in Nat
      /\ \A i \in 1..Len(q) : a[i] = q[i]
  BY EventAppended
<1> SUFFICES ASSUME NEW i \in 1..Len(a), NEW j \in 1..Len(a), i < j, a[i] = a[j], a[i].kind # "obtained"
             PROVE  a[i].kind = "failed" /\ \E k \in (i + 1)..(j - 1) : Otherwise(a[i], a[k])
  BY DEF IsNews
<1>2. i \in 1..Len(q) /\ a[i] = q[i]
  BY <1>1
<1>3. PICK k \in (i + 1)..(j - 1) : Otherwise(q[i], q[k]) /\ q[i].kind = "failed" /\ k \in 1..Len(q)
  <2>1. CASE j = Len(q) + 1
    <3>1. q[i] = e /\ e.kind = "failed" /\ Superseded(q, i)
      BY <1>1, <1>2, <2>1
    <3> QED
      BY <1>1, <1>2, <2>1, <3>1 DEF Superseded
  <2>2. CASE j # Len(q) + 1
    <3>1. j \in 1..Len(q) /\ a[j] = q[j]
      BY <1>1, <2>2
    <3>2. PICK k \in (i + 1)..(j - 1) : Otherwise(q[i], q[k]) /\ q[i].kind = "failed"
      BY <1>2, <3>1 DEF IsNews
    <3>3. k \in 1..Len(q)
      BY <1>1, <1>2, <3>1, <3>2
    <3> QED
      BY <3>2, <3>3
  <2> QED
    BY <2>1, <2>2
<1>4. a[k] = q[k]
  BY <1>1, <1>3
<1> QED
  BY <1>2, <1>3, <1>4

(* A step that tells nothing keeps what was told, if every event stands as  *)
(* it was told.                                                             *)
LEMMA NothingTold ==
  ASSUME CertInv, told' = told, certState'.number = certState.number, \A e : Known(e) => Known(e)'
  PROVE  ToldOK'
<1>1. PICK q : q = told
  OBVIOUS
<1>2. IsList(q) /\ IsNews(q) /\ \A i \in 1..Len(q) : Known(q[i]) \/ (Over(q[i]) /\ Superseded(q, i))
  BY <1>1 DEF CertInv, ToldOK, Stands
<1>3. \A e : Over(e) => Over(e)'
  BY DEF Over
<1>4. \A i \in 1..Len(q) : Known(q[i])' \/ (Over(q[i])' /\ Superseded(q, i))
  <2> TAKE i \in 1..Len(q)
  <2>1. PICK e : e = q[i]
    OBVIOUS
  <2>2. Known(e)' \/ (Over(e)' /\ Superseded(q, i))
    BY <1>2, <1>3, <2>1
  <2> QED
    BY <2>1, <2>2
<1>5. IsList(q)' /\ IsNews(q)' /\ Stands(q)'
  BY <1>2, <1>4 DEF Stands, IsList, IsNews, Superseded, Otherwise
<1>6. q = told'
  BY <1>1
<1> QED
  BY <1>5, <1>6 DEF ToldOK

(* Outside of the loops: a certificate obtained or grown old.               *)
LEMMA ObtainsKeeps ==
  ASSUME CertInv, NEW stage \in 1..3, Obtains(stage)
  PROVE  CertInv'
<1>1. /\ presented' = [number |-> presented.number + 1, stage |-> stage]
      /\ UNCHANGED <<certState, probed, told>>
  BY DEF Obtains
<1>2. presented' \in [number : Nat, stage : 1..3] /\ presented'.number = presented.number + 1
  BY <1>1 DEF CertInv, CertTyped
<1>3. \A e : Known(e) => Known(e)'
  <2> SUFFICES ASSUME NEW e, Known(e), e.kind = "expiring" PROVE ExpiryKnown(e)'
    BY <1>1, <1>2 DEF Known, FailureKnown
  <2>1. PICK s \in {2, 3} :
            /\ e.what = Stages[s] /\ presented.number >= e.number
            /\ presented.number = e.number => presented.stage >= s
            /\ probed.phase = "note" => /\ probed.number >= e.number
                                        /\ probed.number = e.number => probed.stage >= s
            /\ \/ certState.warned >= s - 1
               \/ presented.number > e.number /\ (probed.phase = "note" => probed.number # e.number)
    BY DEF Known, ExpiryKnown
  <2> QED
    BY <1>1, <1>2, <2>1 DEF ExpiryKnown, Known, CertInv, CertTyped
<1>4. CertTyped' /\ NumbersGrow'
  BY <1>1, <1>2 DEF CertInv, CertTyped, NumbersGrow
<1> QED
  BY <1>1, <1>3, <1>4, NothingTold DEF CertInv

(* It grows old: whatever was told of it is still so.                       *)
LEMMA GrowsOldKeeps ==
  ASSUME CertInv, GrowsOld
  PROVE  CertInv'
<1>1. /\ presented' = [presented EXCEPT !.stage = @ + 1] /\ presented.stage < 3
      /\ UNCHANGED <<certState, probed, told>>
  BY DEF GrowsOld
<1>2. presented' \in [number : Nat, stage : 1..3] /\ presented'.number = presented.number
      /\ presented'.stage = presented.stage + 1
  BY <1>1 DEF CertInv, CertTyped
<1>3. \A e : Known(e) => Known(e)'
  <2> SUFFICES ASSUME NEW e, Known(e), e.kind = "expiring" PROVE ExpiryKnown(e)'
    BY <1>1, <1>2 DEF Known, FailureKnown
  <2>1. PICK s \in {2, 3} :
            /\ e.what = Stages[s] /\ presented.number >= e.number
            /\ presented.number = e.number => presented.stage >= s
            /\ probed.phase = "note" => /\ probed.number >= e.number
                                        /\ probed.number = e.number => probed.stage >= s
            /\ \/ certState.warned >= s - 1
               \/ presented.number > e.number /\ (probed.phase = "note" => probed.number # e.number)
    BY DEF Known, ExpiryKnown
  <2> QED
    BY <1>1, <1>2, <2>1 DEF ExpiryKnown, Known, CertInv, CertTyped
<1>4. CertTyped' /\ NumbersGrow'
  BY <1>1, <1>2 DEF CertInv, CertTyped, NumbersGrow
<1> QED
  BY <1>1, <1>3, <1>4, NothingTold DEF CertInv

(* A failure that is read from the log changes nothing that was told.       *)
LEMMA FollowsKeeps ==
  ASSUME CertInv, Follows
  PROVE  CertInv'
<1>1. /\ \/ certState' = certState \/ \E v : certState' = [certState EXCEPT !.failure = v]
      /\ UNCHANGED <<presented, probed, told>>
  BY DEF Follows, worldVars
<1>2. /\ IsRecord(certState')
      /\ certState'.number = certState.number /\ certState'.warned = certState.warned
      /\ certState'.failureTold = certState.failureTold
  <2>1. IsRecord(certState)
    BY DEF CertInv, CertTyped
  <2>2. CASE certState' = certState
    BY <2>1, <2>2
  <2>3. ASSUME NEW v, certState' = [certState EXCEPT !.failure = v] PROVE <1>2
    BY <2>1, <2>3 DEF CertFields, IsRecord
  <2> QED
    BY <1>1, <2>2, <2>3
<1>3. \A e : Known(e) => Known(e)'
  BY <1>1, <1>2 DEF Known, FailureKnown, ExpiryKnown
<1>4. CertTyped' /\ NumbersGrow'
  BY <1>1, <1>2 DEF CertInv, CertTyped, NumbersGrow
<1> QED
  BY <1>1, <1>2, <1>3, <1>4, NothingTold DEF CertInv

(* The loop that looks at the certificate.                                  *)
LEMMA WaitsKeeps ==
  ASSUME CertInv, Waits
  PROVE  CertInv'
<1>1. /\ certState' = [certState EXCEPT !.pending = TRUE]
      /\ probed' = [phase |-> "report", number |-> 0, stage |-> 1]
      /\ UNCHANGED <<presented, told>>
  BY DEF Waits, worldVars, NotLooking
<1>2. /\ IsRecord(certState')
      /\ certState'.number = certState.number /\ certState'.warned = certState.warned
      /\ certState'.failureTold = certState.failureTold
  BY <1>1 DEF CertInv, CertTyped, CertFields, IsRecord
<1>3. \A e : Known(e) => Known(e)'
  <2> SUFFICES ASSUME NEW e, Known(e), e.kind = "expiring" PROVE ExpiryKnown(e)'
    BY <1>1, <1>2 DEF Known, FailureKnown
  <2>1. PICK s \in {2, 3} :
            /\ e.what = Stages[s] /\ presented.number >= e.number
            /\ presented.number = e.number => presented.stage >= s
            /\ certState.warned >= s - 1 \/ presented.number > e.number
    BY DEF Known, ExpiryKnown
  <2>2. probed'.phase # "note"
    BY <1>1
  <2> QED
    BY <1>1, <1>2, <2>1, <2>2 DEF ExpiryKnown
<1>4. CertTyped' /\ NumbersGrow'
  BY <1>1, <1>2 DEF CertInv, CertTyped, NumbersGrow
<1> QED
  BY <1>1, <1>2, <1>3, <1>4, NothingTold DEF CertInv

(* A look at what is presented now.                                         *)
LEMMA ProbesKeeps ==
  ASSUME CertInv, Probes
  PROVE  CertInv'
<1>1. /\ \/ probed' = [phase |-> "note", number |-> presented.number, stage |-> presented.stage]
         \/ probed' = [phase |-> "lost", number |-> 0, stage |-> 1]
      /\ UNCHANGED <<presented, certState, told>>
  BY DEF Probes, worldVars, NotLooking
<1>2. /\ probed' \in [phase : {"none", "note", "lost", "report"}, number : Nat, stage : 1..3]
      /\ probed'.phase = "note" => probed'.number = presented.number /\ probed'.stage = presented.stage
  BY <1>1 DEF CertInv, CertTyped
<1>3. \A e : Known(e) => Known(e)'
  <2> SUFFICES ASSUME NEW e, Known(e), e.kind = "expiring" PROVE ExpiryKnown(e)'
    BY <1>1, <1>2 DEF Known, FailureKnown
  <2>1. PICK s \in {2, 3} :
            /\ e.what = Stages[s] /\ presented.number >= e.number
            /\ presented.number = e.number => presented.stage >= s
            /\ certState.warned >= s - 1 \/ presented.number > e.number
    BY DEF Known, ExpiryKnown
  <2> QED
    BY <1>1, <1>2, <2>1 DEF ExpiryKnown, CertInv, CertTyped, Known
<1>4. CertTyped' /\ NumbersGrow'
  BY <1>1, <1>2 DEF CertInv, CertTyped, NumbersGrow
<1> QED
  BY <1>1, <1>3, <1>4, NothingTold DEF CertInv

(* A look at a certificate that is there.                                   *)
Seen == probed.phase = "note" /\ probed.number # 0

(* What a look makes of the state, and whether it tells of the expiry.      *)
LEMMA NotesKeeps ==
  ASSUME CertInv, Notes
  PROVE  CertInv'
<1>1. /\ probed' = [probed EXCEPT !.phase = "report"] /\ probed.phase \in {"note", "lost"}
      /\ UNCHANGED presented
  BY DEF Notes, worldVars
<1>2. /\ probed' \in [phase : {"none", "note", "lost", "report"}, number : Nat, stage : 1..3]
      /\ probed'.phase = "report"
  BY <1>1 DEF CertInv, CertTyped
<1>3. IsRecord(certState) /\ certState.number \in Nat /\ certState.warned \in 0..2
  BY DEF CertInv, CertTyped
<1>4. probed \in [phase : {"none", "note", "lost", "report"}, number : Nat, stage : 1..3]
  BY DEF CertInv, CertTyped
<1>5. CASE ~Seen
  <2>1. told' = told
    BY <1>1, <1>5 DEF Notes, Seen
  <2>2. \/ certState' = [certState EXCEPT !.status = "unknown"]
        \/ certState' = [certState EXCEPT !.status = "obtaining", !.pending = TRUE, !.number = 0]
           /\ probed.phase = "note" /\ probed.number = 0
    BY <1>1, <1>5 DEF Notes, Seen
  <2>3. probed.phase = "note" /\ probed.number = 0 => certState.number = 0
    BY <1>3, <1>4 DEF CertInv, NumbersGrow
  <2>4. /\ IsRecord(certState')
        /\ certState'.number = certState.number /\ certState'.warned = certState.warned
        /\ certState'.failureTold = certState.failureTold
    BY <1>3, <2>2, <2>3 DEF CertFields, IsRecord
  <2>5. CertTyped' /\ NumbersGrow'
    BY <1>1, <1>2, <2>4 DEF CertInv, CertTyped, NumbersGrow
  <2>6. \A e : Known(e) => Known(e)'
    BY <1>1, <1>2, <2>4 DEF Known, FailureKnown, ExpiryKnown
  <2> QED
    BY <2>1, <2>4, <2>5, <2>6, NothingTold DEF CertInv
<1>6. CASE Seen
  <2>a. PICK n, st : n = probed.number /\ st = probed.stage
    OBVIOUS
  <2>b. PICK got, exp : got = News("obtained", "") /\ exp = News("expiring", Stages[st])
    OBVIOUS
  <2>c. PICK mid : mid = IF certState.pending THEN Append(told, got) ELSE told
    OBVIOUS
  <2>d. PICK ends \in BOOLEAN : ends <=> certState.pending \/ n > certState.number
    OBVIOUS
  <2>1. /\ n \in Nat /\ st \in 1..3 /\ n # 0 /\ probed.phase = "note"
        /\ certState.number <= n /\ n <= presented.number
    BY <1>4, <1>6, <2>a DEF Seen, CertInv, NumbersGrow
  <2>2. certState' = [certState EXCEPT !.status = Stages[st], !.pending = FALSE,
                                       !.number = n, !.warned = Warned(st),
                                       !.failure = IF ends THEN NoFailure ELSE @,
                                       !.failureTold = IF ends THEN "" ELSE @]
    BY <1>6, <2>1, <2>a, <2>d DEF Notes, Seen
  <2>e. PICK w : w = Warned(st)
    OBVIOUS
  <2>3. w \in 0..2 /\ WarnLevel(st) \in 0..2
        /\ (WarnLevel(st) > 0 <=> st - 1 > certState.warned)
        /\ (st = 1 => w = 0)
        /\ (st # 1 => w >= st - 1 /\ w >= certState.warned)
    BY <1>3, <2>1, <2>e DEF Warned, WarnLevel
  <2>4. /\ IsRecord(certState')
        /\ certState'.number = n /\ certState'.warned = w
        /\ ~ends => certState'.failureTold = certState.failureTold
    BY <1>3, <2>2, <2>e DEF CertFields, IsRecord
  <2>5. told' = IF WarnLevel(st) > 0 THEN Append(mid, exp) ELSE mid
    <3>1. told' = (told \o (IF certState.pending THEN <<got>> ELSE <<>>))
                       \o (IF WarnLevel(st) > 0 THEN <<exp>> ELSE <<>>)
      BY <1>6, <2>1, <2>a, <2>b DEF Notes, Seen
    <3>2. IsList(told)
      BY DEF CertInv, ToldOK
    <3>3. told \o (IF certState.pending THEN <<got>> ELSE <<>>) = mid
      <4>1. PICK S : told \in Seq(S) /\ got \in S
        BY <3>2, ToldSeq
      <4> QED
        BY <4>1, <2>c, AppendIsConcat, ConcatEmptySeq
    <3>4. PICK S : told \in Seq(S) /\ got \in S
      BY <3>2, ToldSeq
    <3>5. mid \in Seq(S)
      BY <3>4, <2>c, AppendProperties
    <3>6. mid \in Seq(S \cup {exp}) /\ exp \in S \cup {exp}
      BY <3>5, SeqMonotonic
    <3>7. mid \o <<exp>> = Append(mid, exp) /\ mid \o <<>> = mid
      BY <3>6, AppendIsConcat, ConcatEmptySeq
    <3> QED
      BY <3>1, <3>3, <3>7
  <2>6. CertTyped' /\ NumbersGrow'
    <3>1. CertTyped'
      BY <1>1, <1>2, <2>1, <2>3, <2>4 DEF CertInv, CertTyped
    <3>2. NumbersGrow'
      BY <1>1, <1>2, <2>1, <2>4 DEF CertInv, CertTyped, NumbersGrow
    <3> QED
      BY <3>1, <3>2
  <2>7. ToldOK'
    <3>1. PICK q, a : q = told /\ a = told'
      OBVIOUS
    <3>2. IsList(q) /\ IsNews(q) /\ \A i \in 1..Len(q) : Known(q[i]) \/ (Over(q[i]) /\ Superseded(q, i))
      BY <3>1 DEF CertInv, ToldOK, Stands
    <3>3. got.kind = "obtained" /\ got.number = n /\ exp.kind = "expiring" /\ exp.what = Stages[st] /\ exp.number = n
      BY <2>a, <2>b DEF News
    <3>4. /\ IsList(mid) /\ IsNews(mid) /\ Len(q) \in Nat
          /\ Len(mid) = IF certState.pending THEN Len(q) + 1 ELSE Len(q)
          /\ certState.pending => mid[Len(q) + 1] = got
          /\ \A i \in 1..Len(q) : mid[i] = q[i] /\ (Superseded(q, i) \/ certState.pending => Superseded(mid, i))
      <4>1. CASE certState.pending
        <5>1. mid = Append(q, got)
          BY <3>1, <4>1, <2>c
        <5>2. \A i \in 1..Len(q) : Otherwise(q[i], got)
          BY <3>3 DEF Otherwise
        <5>3. IsNews(mid)
          BY <3>2, <3>3, <5>1, NewsAppended
        <5>4. /\ IsList(mid) /\ Len(mid) = Len(q) + 1 /\ mid[Len(q) + 1] = got /\ Len(q) \in Nat
              /\ \A i \in 1..Len(q) : mid[i] = q[i]
              /\ \A i \in 1..Len(q) : Superseded(q, i) \/ Otherwise(q[i], got) => Superseded(mid, i)
          BY <3>2, <5>1, EventAppended, ZenonT(60)
        <5> QED
          BY <4>1, <5>2, <5>3, <5>4
      <4>2. CASE ~certState.pending
        BY <3>1, <3>2, <4>2, <2>c DEF IsList
      <4> QED
        BY <4>1, <4>2
    <3>5. ASSUME NEW e, Known(e) \/ Over(e) PROVE e.kind = "expiring" => Known(e)'
      <4> SUFFICES ASSUME e.kind = "expiring" PROVE ExpiryKnown(e)' /\ e.number \in Nat
        BY DEF Known
      <4>1. e.number \in Nat /\ Known(e)
        BY <3>5 DEF Known, Over
      <4>2. PICK s \in {2, 3} :
              /\ e.what = Stages[s] /\ presented.number >= e.number
              /\ presented.number = e.number => presented.stage >= s
              /\ n >= e.number /\ (n = e.number => st >= s)
              /\ \/ certState.warned >= s - 1
                 \/ presented.number > e.number
        BY <4>1, <2>1, <2>a DEF Known, ExpiryKnown
      <4>3. certState'.warned >= s - 1 \/ presented.number > e.number
        <5>1. CASE st = 1
          BY <5>1, <4>1, <4>2, <2>1, <1>4 DEF CertInv, CertTyped
        <5>2. CASE st # 1
          BY <5>2, <4>2, <2>3, <2>4, <1>3
        <5> QED
          BY <5>1, <5>2
      <4> QED
        BY <4>1, <4>2, <4>3, <1>1, <1>2 DEF ExpiryKnown
    <3>6. ASSUME NEW e, Over(e) \/ (Known(e) /\ e.kind = "failed")
          PROVE  Over(e)' /\ (Known(e)' \/ certState.pending \/ (Over(e) /\ ~Known(e)))
      <4>1. e.kind = "failed" /\ e.number \in Nat /\ e.number <= certState.number
        BY <3>6, <1>3 DEF Over, Known, FailureKnown
      <4>2. Over(e)'
        BY <4>1, <2>1, <2>4, <1>3 DEF Over
      <4>3. ASSUME Known(e), ~certState.pending PROVE FailureKnown(e)'
        <5>1. certState.failureTold = e.what \/ certState.number > e.number
          BY <4>1, <4>3 DEF Known, FailureKnown
        <5> QED
          BY <4>1, <4>3, <5>1, <2>1, <2>4, <2>d, <1>3 DEF FailureKnown
      <4> QED
        BY <3>6, <4>1, <4>2, <4>3 DEF Known
    <3>7. \A i \in 1..Len(mid) : Known(mid[i])' \/ (Over(mid[i])' /\ Superseded(mid, i))
      <4> TAKE i \in 1..Len(mid)
      <4>1. PICK e : e = mid[i]
        OBVIOUS
      <4>2. CASE i \in 1..Len(q)
        <5>1. (Known(e) \/ (Over(e) /\ Superseded(q, i))) /\ (Superseded(q, i) \/ certState.pending => Superseded(mid, i))
          BY <3>2, <3>4, <4>1, <4>2
        <5>2. e.kind \notin {"expiring", "failed"} => Known(e)'
          BY <5>1 DEF Known, Over
        <5>3. Known(e)' \/ (Over(e)' /\ Superseded(mid, i))
          BY <5>1, <5>2, <3>5, <3>6
        <5> QED
          BY <4>1, <5>3
      <4>3. CASE i \notin 1..Len(q)
        <5>1. e = got
          BY <3>4, <4>1, <4>3
        <5>2. Known(e)'
          BY <5>1, <3>3, <2>1 DEF Known
        <5> QED
          BY <4>1, <5>2
      <4> QED
        BY <4>2, <4>3
    <3>8. CASE WarnLevel(st) > 0
      <4>1. a = Append(mid, exp) /\ st - 1 > certState.warned
        BY <3>1, <3>8, <2>5, <2>3
      <4>2. \A i \in 1..Len(mid) : mid[i] # exp
        <5> SUFFICES ASSUME NEW i \in 1..Len(mid), mid[i] = exp PROVE FALSE
          OBVIOUS
        <5>1. i \in 1..Len(q) /\ q[i] = exp
          BY <3>3, <3>4
        <5>2. Known(exp)
          BY <3>2, <3>3, <5>1 DEF Over
        <5>3. PICK s \in {2, 3} :
                /\ Stages[st] = Stages[s]
                /\ \/ certState.warned >= s - 1
                   \/ presented.number > n /\ (probed.phase = "note" => probed.number # n)
          BY <5>2, <3>3 DEF Known, ExpiryKnown
        <5>4. s = st
          BY <5>3, <2>1 DEF Stages
        <5> QED
          BY <5>3, <5>4, <4>1, <2>1, <2>a, <1>3
      <4>3. Known(exp)'
        <5>1. st \in {2, 3}
          BY <4>1, <2>1, <1>3
        <5>2. presented'.number >= n /\ (presented'.number = n => presented'.stage >= st)
          BY <1>1, <2>1, <1>4, <2>a DEF CertInv, NumbersGrow, CertTyped
        <5>3. certState'.warned >= st - 1
          BY <2>3, <2>4, <5>1
        <5>4. ExpiryKnown(exp)'
          BY <5>1, <5>2, <5>3, <1>2, <3>3 DEF ExpiryKnown
        <5> QED
          BY <5>4, <3>3, <2>1 DEF Known
      <4>4. IsNews(a)
        BY <3>4, <4>1, <4>2, NewsAppended
      <4>5. /\ IsList(a) /\ Len(a) = Len(mid) + 1 /\ a[Len(mid) + 1] = exp /\ Len(mid) \in Nat
            /\ \A i \in 1..Len(mid) : a[i] = mid[i]
            /\ \A i \in 1..Len(mid) : Superseded(mid, i) \/ Otherwise(mid[i], exp) => Superseded(a, i)
        <5>1. IsList(mid)
          BY <3>4
        <5>2. a = Append(mid, exp)
          BY <4>1
        <5> QED
          BY <5>1, <5>2, EventAppended, ZenonT(60)
      <4>6. \A i \in 1..Len(a) : Known(a[i])' \/ (Over(a[i])' /\ Superseded(a, i))
        <5> TAKE i \in 1..Len(a)
        <5>1. PICK e : e = a[i]
          OBVIOUS
        <5>2. CASE i \in 1..Len(mid)
          <6>1. e = mid[i] /\ (Superseded(mid, i) => Superseded(a, i))
            BY <4>5, <5>1, <5>2
          <6>2. Known(e)' \/ (Over(e)' /\ Superseded(mid, i))
            BY <3>7, <5>2, <6>1
          <6> QED
            BY <5>1, <6>1, <6>2
        <5>3. CASE i \notin 1..Len(mid)
          <6>1. e = exp
            BY <4>5, <5>1, <5>3
          <6> QED
            BY <4>3, <5>1, <6>1
        <5> QED
          BY <5>2, <5>3
      <4>7. IsList(a)' /\ IsNews(a)' /\ Stands(a)'
        BY <4>4, <4>5, <4>6 DEF Stands, IsList, IsNews, Superseded, Otherwise
      <4> QED
        BY <3>1, <4>7 DEF ToldOK
    <3>9. CASE ~(WarnLevel(st) > 0)
      <4>1. a = mid
        BY <3>1, <3>9, <2>5
      <4>2. IsList(a)' /\ IsNews(a)' /\ Stands(a)'
        BY <3>4, <3>7, <4>1 DEF Stands, IsList, IsNews, Superseded, Otherwise
      <4> QED
        BY <3>1, <4>2 DEF ToldOK
    <3> QED
      BY <3>8, <3>9
  <2> QED
    BY <2>6, <2>7 DEF CertInv
<1> QED
  BY <1>5, <1>6

(* A failure is told once for its reason.                                   *)
LEMMA ReportsKeeps ==
  ASSUME CertInv, Reports
  PROVE  CertInv'
<1>1. /\ probed' = [phase |-> "none", number |-> 0, stage |-> 1] /\ UNCHANGED presented
      /\ probed'.phase = "none"
  BY DEF Reports, worldVars, NotLooking
<1>2. IsRecord(certState) /\ certState.number \in Nat
  BY DEF CertInv, CertTyped
<1>3. CASE certState.failure = NoFailure
  <2>1. UNCHANGED <<certState, told>>
    BY <1>3 DEF Reports
  <2>2. \A e : Known(e) => Known(e)'
    BY <1>1, <2>1 DEF Known, FailureKnown, ExpiryKnown
  <2>3. CertTyped' /\ NumbersGrow'
    BY <1>1, <2>1 DEF CertInv, CertTyped, NumbersGrow
  <2> QED
    BY <2>1, <2>2, <2>3, NothingTold DEF CertInv
<1>4. CASE certState.failure # NoFailure
  <2>1. PICK reason : reason = certState.failure.reason
    OBVIOUS
  <2>2. certState' = [certState EXCEPT !.failureTold = reason]
    BY <1>4, <2>1 DEF Reports
  <2>3. /\ IsRecord(certState')
        /\ certState'.number = certState.number /\ certState'.warned = certState.warned
        /\ certState'.failureTold = reason
    BY <1>2, <2>2 DEF CertFields, IsRecord
  <2>4. CertTyped' /\ NumbersGrow'
    BY <1>1, <2>3 DEF CertInv, CertTyped, NumbersGrow
  <2>5. \A e : Known(e) /\ (e.kind = "failed" => certState.failureTold = reason \/ certState.number > e.number)
            => Known(e)'
    BY <1>1, <2>3 DEF Known, FailureKnown, ExpiryKnown
  <2>6. CASE certState.failureTold = reason
    <3>1. told' = told
      BY <1>4, <2>1, <2>6 DEF Reports, IsTold
    <3>2. \A e : Known(e) => Known(e)'
      BY <2>5, <2>6
    <3> QED
      BY <3>1, <3>2, <2>3, <2>4, NothingTold DEF CertInv
  <2>7. CASE certState.failureTold # reason
    <3>1. PICK e : e = [kind |-> "failed", what |-> reason, number |-> certState.number]
      OBVIOUS
    <3>2. PICK q, a : q = told /\ a = told' /\ a = Append(q, e)
      BY <1>4, <2>1, <2>7, <3>1 DEF Reports, IsTold
    <3>3. IsList(q) /\ IsNews(q) /\ \A i \in 1..Len(q) : Known(q[i]) \/ (Over(q[i]) /\ Superseded(q, i))
      BY <3>2 DEF CertInv, ToldOK, Stands
    <3>4. ~Known(e) /\ e.kind = "failed"
      BY <3>1, <2>7, <1>2 DEF Known, FailureKnown
    <3>5. IsNews(a)
      BY <3>2, <3>3, <3>4, NewsAppended
    <3>6. /\ IsList(a) /\ Len(a) = Len(q) + 1 /\ a[Len(q) + 1] = e /\ Len(q) \in Nat
          /\ \A i \in 1..Len(q) : a[i] = q[i]
          /\ \A i \in 1..Len(q) : Superseded(q, i) \/ Otherwise(q[i], e) => Superseded(a, i)
      <4>1. IsList(q)
        BY <3>3
      <4>2. a = Append(q, e)
        BY <3>2
      <4> QED
        BY <4>1, <4>2, EventAppended, ZenonT(60)
    <3>7. Known(e)'
      BY <3>1, <1>2, <2>3 DEF Known, FailureKnown
    <3>8. \A f : Over(f) => Over(f)'
      BY <2>3 DEF Over
    <3>9. \A i \in 1..Len(a) : Known(a[i])' \/ (Over(a[i])' /\ Superseded(a, i))
      <4> TAKE i \in 1..Len(a)
      <4>1. PICK f : f = a[i]
        OBVIOUS
      <4>2. CASE i \in 1..Len(q)
        <5>1. /\ f = q[i]
              /\ Known(f) \/ (Over(f) /\ Superseded(q, i))
              /\ Superseded(q, i) \/ Otherwise(f, e) => Superseded(a, i)
          BY <3>3, <3>6, <4>1, <4>2
        <5>2. CASE Known(f) /\ f.kind = "failed" /\ f.what # reason
          <6>1. Otherwise(f, e)
            BY <3>1, <5>2 DEF Otherwise
          <6>2. Over(f)
            BY <5>2, <1>2 DEF Known, FailureKnown, Over
          <6> QED
            BY <3>8, <4>1, <5>1, <6>1, <6>2
        <5>3. CASE Known(f) /\ ~(f.kind = "failed" /\ f.what # reason)
          <6>1. Known(f)'
            BY <1>1, <1>2, <2>3, <5>3 DEF Known, FailureKnown, ExpiryKnown
          <6> QED
            BY <4>1, <6>1
        <5> QED
          BY <3>8, <4>1, <5>1, <5>2, <5>3
      <4>3. CASE i \notin 1..Len(q)
        <5>1. f = e
          BY <3>6, <4>1, <4>3
        <5> QED
          BY <3>7, <4>1, <5>1
      <4> QED
        BY <4>2, <4>3
    <3>10. IsList(a)' /\ IsNews(a)' /\ Stands(a)'
      BY <3>5, <3>6, <3>9 DEF Stands, IsList, IsNews, Superseded, Otherwise
    <3>11. ToldOK'
      BY <3>2, <3>10 DEF ToldOK
    <3> QED
      BY <2>4, <3>11 DEF CertInv
  <2> QED
    BY <2>6, <2>7
<1> QED
  BY <1>3, <1>4

(* The events of a hostname are news: a level of the expiry is told once    *)
(* about a certificate, and a failure again only after another reason or a  *)
(* certificate that was obtained, whatever the two loops, the log, the      *)
(* gate, an unreachable proxy and new certificates do in between            *)
(* (noteProxyError, noteCertificate, reportCertificateFailures).            *)
THEOREM EventsAreNews == CertSpec => []OnlyNews
<1>1. CertInit => CertInv
  <2> SUFFICES ASSUME CertInit PROVE CertInv
    OBVIOUS
  <2>1. /\ presented = [number |-> 0, stage |-> 1] /\ probed = [phase |-> "none", number |-> 0, stage |-> 1]
        /\ certState = [status |-> "", pending |-> FALSE, number |-> 0, warned |-> 0,
                        failure |-> NoFailure, failureTold |-> ""]
        /\ told = <<>>
    BY DEF CertInit, NotLooking
  <2>2. /\ IsRecord(certState) /\ certState.number = 0 /\ certState.warned = 0
        /\ presented.number = 0 /\ presented.stage = 1 /\ probed.phase = "none"
        /\ presented \in [number : Nat, stage : 1..3]
        /\ probed \in [phase : {"none", "note", "lost", "report"}, number : Nat, stage : 1..3]
    <3>1. IsRecord(certState)
      BY <2>1 DEF CertFields, IsRecord
    <3>2. certState.number = 0 /\ certState.warned = 0
      BY <2>1
    <3>3. presented.number = 0 /\ presented.stage = 1 /\ probed.phase = "none"
      BY <2>1
    <3>4. /\ presented \in [number : Nat, stage : 1..3]
          /\ probed \in [phase : {"none", "note", "lost", "report"}, number : Nat, stage : 1..3]
      <4>1. presented = [number |-> 0, stage |-> 1] /\ probed = [phase |-> "none", number |-> 0, stage |-> 1]
        BY <2>1
      <4>2. [number |-> 0, stage |-> 1] \in [number : Nat, stage : 1..3]
        OBVIOUS
      <4>3. [phase |-> "none", number |-> 0, stage |-> 1]
                \in [phase : {"none", "note", "lost", "report"}, number : Nat, stage : 1..3]
        OBVIOUS
      <4> QED
        BY <4>1, <4>2, <4>3
    <3> QED
      BY <3>1, <3>2, <3>3, <3>4
  <2>3. CertTyped /\ NumbersGrow
    BY <2>2 DEF CertTyped, NumbersGrow
  <2>4. told = <<>> /\ Len(told) = 0
    BY <2>1
  <2>5. IsList(told) /\ IsNews(told) /\ Stands(told)
    BY <2>4 DEF IsList, IsNews, Stands
  <2>6. ToldOK
    BY <2>5 DEF ToldOK
  <2> QED
    BY <2>3, <2>6 DEF CertInv
<1>2. CertInv /\ [CertNext]_certVars => CertInv'
  <2> SUFFICES ASSUME CertInv, [CertNext]_certVars PROVE CertInv'
    OBVIOUS
  <2>1. ASSUME UNCHANGED <<presented, certState, probed, told>> PROVE CertInv'
    <3>1. CertTyped' /\ NumbersGrow'
      BY <2>1 DEF CertInv, CertTyped, NumbersGrow
    <3>2. \A e : Known(e) => Known(e)'
      BY <2>1 DEF Known, FailureKnown, ExpiryKnown
    <3> QED
      BY <2>1, <3>1, <3>2, NothingTold DEF CertInv
  <2>2. CASE \/ GateMoves \/ ProxyLost \/ ProxyBack \/ StreamEnds \/ StreamReopens
             \/ \E r \in CertReasons, bare \in BOOLEAN : FailsWith(r, bare)
             \/ UNCHANGED certVars
    BY <2>1, <2>2 DEF GateMoves, ProxyLost, ProxyBack, StreamEnds, StreamReopens, FailsWith, worldVars, certVars
  <2> QED
    BY <2>2, ObtainsKeeps, GrowsOldKeeps, FollowsKeeps, WaitsKeeps, ProbesKeeps, NotesKeeps, ReportsKeeps DEF CertNext
<1>3. CertInv => OnlyNews
  <2> SUFFICES ASSUME CertInv PROVE OnlyNews
    OBVIOUS
  <2>1. IsList(told) /\ IsNews(told)
    BY DEF CertInv, ToldOK
  <2>2. DOMAIN told = 1..Len(told)
    BY <2>1 DEF IsList
  <2> QED
    BY <2>1, <2>2 DEF IsNews, OnlyNews, ToldOtherwise, Otherwise
<1> QED
  BY <1>1, <1>2, <1>3, PTL DEF CertSpec
=============================================================================
