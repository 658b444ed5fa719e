---------------------------- MODULE WebhookQueue ----------------------------
(***************************************************************************)
(* Webhook delivery, in the three programs that have it (program says      *)
(* which): the std firmware, the embassy firmware and the host simulator.  *)
(* Producers try_send an event into a bounded queue; one worker takes the  *)
(* events in turn, looks up the subscribers in the configuration of that   *)
(* moment and sends one request to each, once.                             *)
(*                                                                         *)
(* Events are numbered in the order they are emitted; templates, headers   *)
(* and answers are left out, since the answer is only logged.              *)
(***************************************************************************)
EXTENDS Selection

CONSTANTS
  Hooks,     \* names of webhook receivers
  WebhookLists,  \* the lists of webhooks the configuration may hold
  QueueCap   \* program -> capacity of its queue (16, 8, 16)

VARIABLES
  program,   \* "std", "embassy" or "host"
  tls,       \* the embassy build has the tls feature
  webhooks,  \* app.config().webhooks
  mail,      \* the queue: [queue, emitted, dropped]
  job        \* the worker: the event it handles, and the receivers to come

\* For the properties: per receiver the events it was sent a request for, and the ones it
\* was subscribed to when the worker took them; and the events handled.
VARIABLES sent, due, handled

queueVars == <<mail, job, sent, due, handled>>

Events == {"flow_alarm.fire", "flow_alarm.clear", "boot", "panic_boot",
           "ota.completed", "config.changed"}

Methods == {"POST", "PUT", "GET"}

Schemes == {"http", "https", "other"}

Webhook ==
  [name : Hooks, enabled : BOOLEAN, events : SUBSET Events, method : Methods,
   scheme : Schemes]

ASSUME QueueAssumption ==
  /\ WebhookLists \subseteq Seq(Webhook)
  /\ QueueCap \in [{"std", "embassy", "host"} -> Nat \ {0}]

NoEvent == [kind |-> "none", n |-> 0]
Free == [event |-> NoEvent, subs |-> <<>>]

EmptyMail == [queue |-> <<>>, emitted |-> 0, dropped |-> {}]

QueueInit ==
  /\ program \in {"std", "embassy", "host"}
  /\ tls \in BOOLEAN
  /\ program # "embassy" => tls
  /\ webhooks \in WebhookLists
  /\ mail = EmptyMail
  /\ job = Free
  /\ sent = [h \in Hooks |-> <<>>]
  /\ due = [h \in Hooks |-> <<>>]
  /\ handled = {}

\* App::emit_event and dispatch: try_send, and an event that finds the queue
\* full is dropped.
Emitted(m, kind) ==
  LET n == m.emitted + 1
  IN  IF Len(m.queue) < QueueCap[program]
      THEN [m EXCEPT !.queue = Append(@, [kind |-> kind, n |-> n]), !.emitted = n]
      ELSE [m EXCEPT !.dropped = @ \cup {n}, !.emitted = n]

-----------------------------------------------------------------------------
(* The worker: handle_event.                                               *)

Subscribers(kind) ==
  SelectIn(webhooks, {w \in Webhook : w.enabled /\ kind \in w.events})

Append1(f, ws, n) ==
  [h \in Hooks |-> IF \E i \in DOMAIN ws : ws[i].name = h THEN Append(f[h], n) ELSE f[h]]

\* Mutant of TakeEvent: an event nobody subscribed to stays in the queue.
TakeWanted ==
  /\ job = Free
  /\ mail.queue # <<>>
  /\ LET event == Head(mail.queue)
         subs == Subscribers(event.kind)
     IN  /\ subs # <<>>
         /\ job' = [event |-> event, subs |-> subs]
         /\ due' = Append1(due, subs, event.n)
  /\ mail' = [mail EXCEPT !.queue = Tail(@)]
  /\ UNCHANGED <<sent, handled>>

\* An event nobody subscribed to is done with at once.
TakeEvent ==
  /\ job = Free
  /\ mail.queue # <<>>
  /\ LET event == Head(mail.queue)
         subs == Subscribers(event.kind)
     IN  /\ job' = IF subs = <<>> THEN Free ELSE [event |-> event, subs |-> subs]
         /\ handled' = IF subs = <<>> THEN handled \cup {event.n} ELSE handled
         /\ due' = Append1(due, subs, event.n)
  /\ mail' = [mail EXCEPT !.queue = Tail(@)]
  /\ sent' = sent

\* Whether post or deliver gets as far as a request.  The std and host
\* programs refuse a method they do not know; the embassy firmware sends a
\* POST then, and refuses https in a build without tls.  No program has
\* another scheme.
PostGoesOut(w) == w.method \in {"POST", "PUT"} /\ w.scheme # "other"

HostPostGoesOut(w) == w.method \in {"POST", "PUT"} /\ w.scheme # "other"

ParseUrl(w) == w.scheme # "other"

DeliverGoesOut(w) == ParseUrl(w) /\ (w.scheme = "https" => tls)

GoesOut(w) ==
  CASE program = "std" -> PostGoesOut(w)
    [] program = "host" -> HostPostGoesOut(w)
    [] program = "embassy" -> DeliverGoesOut(w)

\* What the worker goes on with after the request to the first receiver.
AfterPost ==
  IF Len(job.subs) = 1 THEN Free ELSE [job EXCEPT !.subs = Tail(@)]

\* Mutant of PostNext: a failed request ends the handling of the event.
PostStopsAtFailure(ok) ==
  /\ job # Free
  /\ LET w == Head(job.subs)
     IN  sent' = IF GoesOut(w) THEN Append1(sent, <<w>>, job.event.n) ELSE sent
  /\ job' = IF ok THEN AfterPost ELSE Free
  /\ handled' = IF job' = Free THEN handled \cup {job.event.n} ELSE handled
  /\ UNCHANGED <<mail, due>>

\* One request, answered (ok) or not: nothing depends on the answer.
PostNext(ok) ==
  /\ job # Free
  /\ LET w == Head(job.subs)
     IN  sent' = IF GoesOut(w) THEN Append1(sent, <<w>>, job.event.n) ELSE sent
  /\ job' = AfterPost
  /\ handled' = IF job' = Free THEN handled \cup {job.event.n} ELSE handled
  /\ UNCHANGED <<mail, due>>

\* A reset empties the queue; the numbering of events goes on.
QueueReset ==
  /\ mail' = [mail EXCEPT !.queue = <<>>,
                          !.dropped = @ \cup {mail.queue[i].n : i \in DOMAIN mail.queue}
                                        \cup (IF job = Free THEN {} ELSE {job.event.n})]
  /\ job' = Free
  /\ UNCHANGED <<sent, due, handled>>

-----------------------------------------------------------------------------

Increasing(s) == \A i, j \in DOMAIN s : i < j => s[i] < s[j]
=============================================================================
