---------------------------- MODULE Notifications ----------------------------
(***************************************************************************)
(* The reminders of one household, from the events they are made of to the *)
(* clients that read them: the consumer that stores them, the pusher that  *)
(* nudges the household's channel, the fan-out that shares one channel     *)
(* subscription between the household's open streams, the streams with     *)
(* their cursors, and the request-and-wait endpoint.                       *)
(*                                                                         *)
(* A notification is the rank of its identifier, which is what the cursor  *)
(* compares; identifiers are hashes of the events, so nothing relates the  *)
(* rank to the order of creation.  Deliveries are atomic with their claim  *)
(* (ConsumerDelivery models the policy around them).                       *)
(***************************************************************************)
EXTENDS Naturals, Sequences, FiniteSets, Functions

CONSTANTS
    Ids,            \* the events that call for a notification, as identifier ranks
    Clients,        \* clients of GET /notifications/stream
    Fans,           \* _HouseholdFanout objects alive at a time
    MaxOpens,       \* bound: streams opened
    MaxFailures,    \* bound: channel failures
    MaxDeliveries   \* bound: deliveries to the notifications group

ASSUME ConstantsAssumption ==
    /\ Ids \subseteq Nat \ {0} /\ Fans \subseteq Nat \ {0}
    /\ MaxOpens \in Nat /\ MaxFailures \in Nat /\ MaxDeliveries \in Nat

VARIABLES
    guarded,    \* the events are of one UNREAD_GUARDED type and plant
    rows,       \* write_notifications.notifications
    order,      \* the rows by created_at
    unpushed,   \* NotificationCreated on their way to the pusher
    fans,       \* _HouseholdFanout objects
    current,    \* the one HouseholdSignalFanout has for the household
    st,         \* the streams and what their clients hold
    unheard,    \* history: nudges that failed, or found a stream's pump not subscribed
    opens, failures, deliveries

store == <<guarded, rows, order>>
fanout == <<fans, current>>
bounds == <<opens, failures, deliveries>>
vars == <<store, unpushed, fanout, st, unheard, bounds>>

NotificationModel == [Ids -> {"none", "unread", "read"}]

NoFan == 0

\* task: the pump; dying: a cancelled pump whose connection is being closed, which
\* _task still names; leaked: a signal nobody will release.
HouseholdFanout ==
    [task : {"none", "subscribing", "open", "ended"}, dying : BOOLEAN,
     ready : BOOLEAN, failed : BOOLEAN, signals : SUBSET Clients, leaked : BOOLEAN, inbox : BOOLEAN]
NewFan == [task |-> "none", dying |-> FALSE, ready |-> FALSE, failed |-> FALSE,
           signals |-> {}, leaked |-> FALSE, inbox |-> FALSE]

PollPc == {"subscribe", "reread", "poll", "nudged", "final"}

\* wake and lost are the HouseholdSignal's; last: the response ends after this
\* read; cursor and got, the unread it received, are the client's
\* and outlive its connections.
Stream ==
    [pc : {"closed", "attach", "read", "drain", "wait", "detaching"} \cup PollPc,
     fan : Fans \cup {NoFan}, wake : BOOLEAN, lost : BOOLEAN, last : BOOLEAN,
     batch : SUBSET Ids, cursor : Ids \cup {0}, got : SUBSET Ids]
NewStream == [pc |-> "closed", fan |-> NoFan, wake |-> FALSE, lost |-> FALSE, last |-> FALSE,
              batch |-> {}, cursor |-> 0, got |-> {}]

Init ==
    /\ guarded \in BOOLEAN
    /\ rows = [n \in Ids |-> "none"] /\ order = <<>> /\ unpushed = <<>>
    /\ fans = [f \in Fans |-> NewFan] /\ current = NoFan
    /\ st = [c \in Clients |-> NewStream]
    /\ unheard = {}
    /\ opens = MaxOpens /\ failures = MaxFailures /\ deliveries = MaxDeliveries

-----------------------------------------------------------------------------
(* NotificationConsumer and the commands *)

Pending(n) == rows[n] = "unread"

has_unread(n) == guarded /\ \E k \in Ids : Pending(k)

stored(n) == rows[n] # "none"

create(n) == [rows EXCEPT ![n] = "unread"]
mark_read(n) == [rows EXCEPT ![n] = "read"]

_store(n) ==
    /\ rows' = create(n)
    /\ order' = Append(order, n)
    /\ unpushed' = Append(unpushed, n)

\* A trigger event, or one a rebuilt group reads again without its ledger; one
\* for a plant without a reference changes nothing.
Handle(n) ==
    /\ deliveries > 0
    /\ deliveries' = deliveries - 1
    /\ ~stored(n) /\ ~has_unread(n)
    /\ _store(n)
    /\ UNCHANGED <<guarded, fanout, st, unheard, opens, failures>>

\* mark_read on the locked row; a second acknowledgement is refused.
Acknowledge(n) ==
    /\ Pending(n)
    /\ rows' = mark_read(n)
    /\ unheard' = unheard \ {n}
    /\ st' = [c \in Clients |-> [st[c] EXCEPT !.got = @ \ {n}]]
    /\ UNCHANGED <<guarded, order, unpushed, fanout, bounds>>

-----------------------------------------------------------------------------
(* NotificationPusher over ValkeyNotificationChannel *)

Subscribed(f) == fans[f].task = "open"
PollSubscribed(c) == st[c].pc \in {"reread", "poll", "nudged"}

\* Pub/sub reaches whoever is subscribed now and nobody else.
publish ==
    /\ fans' = [f \in Fans |-> [fans[f] EXCEPT !.inbox = @ \/ Subscribed(f)]]
    /\ st' = [c \in Clients |-> [st[c] EXCEPT !.wake = @ \/ PollSubscribed(c)]]

AttachedTo(f) == fans[f].signals
Deaf == {c \in Clients : \E f \in Fans : c \in AttachedTo(f) /\ ~Subscribed(f)}

Push ==
    /\ unpushed # <<>>
    /\ publish
    /\ unheard' = IF Deaf = {} THEN unheard ELSE unheard \cup {n \in {Head(unpushed)} : Pending(n)}
    /\ unpushed' = Tail(unpushed)
    /\ UNCHANGED <<store, current, bounds>>

\* The channel fails: logged, and the delivery is spent.
PushFails ==
    /\ unpushed # <<>> /\ failures > 0
    /\ failures' = failures - 1
    /\ unheard' = unheard \cup {n \in {Head(unpushed)} : Pending(n)}
    /\ unpushed' = Tail(unpushed)
    /\ UNCHANGED <<store, fanout, st, opens, deliveries>>

-----------------------------------------------------------------------------
(* _HouseholdFanout and HouseholdSignalFanout *)

Unused(f) == f # current /\ fans[f].signals = {} /\ ~fans[f].leaked /\ fans[f].task \in {"none", "ended"} /\ ~fans[f].dying

\* Mutant: a pump that is being cancelled is taken for no pump.
needs_pump_while_dying(fan) == fan.task = "none"

needs_pump(fan) == fan.task = "none" /\ ~fan.dying

\* The household's fan-out, a new one when there is none.
FanoutFor(f) ==
    IF current = NoFan THEN Unused(f) /\ (\A g \in Fans : Unused(g) => f <= g) ELSE f = current

\* The first stream in starts the pump.
attach(c) ==
    \E f \in Fans :
        /\ FanoutFor(f)
        /\ LET fan == IF current = NoFan THEN NewFan ELSE fans[f]
           IN fans' = [fans EXCEPT ![f] = [fan EXCEPT !.signals = @ \cup {c},
                                             !.task = IF needs_pump(fan) THEN "subscribing" ELSE @,
                                             !.inbox = @ /\ ~needs_pump(fan)]]
        /\ current' = f
        /\ st' = [st EXCEPT ![c].pc = "attach", ![c].fan = f, ![c].wake = FALSE,
                            ![c].lost = FALSE, ![c].last = FALSE]

\* The client connects with the last identifier it received.
Open(c) ==
    /\ st[c].pc = "closed" /\ opens > 0
    /\ opens' = opens - 1
    /\ attach(c)
    /\ UNCHANGED <<store, unpushed, unheard, failures, deliveries>>

PumpSubscribes(f) ==
    /\ fans[f].task = "subscribing"
    /\ fans' = [fans EXCEPT ![f].task = "open", ![f].ready = TRUE]
    /\ UNCHANGED <<store, unpushed, current, st, unheard, bounds>>

\* Mutant: only the streams that wait are woken.
PumpNudgesWaiting(f) ==
    /\ fans[f].task = "open" /\ fans[f].inbox
    /\ fans' = [fans EXCEPT ![f].inbox = FALSE]
    /\ st' = [c \in Clients |-> [st[c] EXCEPT !.wake = @ \/ (c \in fans[f].signals /\ st[c].pc = "wait")]]
    /\ UNCHANGED <<store, unpushed, current, unheard, bounds>>

PumpNudges(f) ==
    /\ fans[f].task = "open" /\ fans[f].inbox
    /\ fans' = [fans EXCEPT ![f].inbox = FALSE]
    /\ st' = [c \in Clients |-> [st[c] EXCEPT !.wake = @ \/ c \in fans[f].signals]]
    /\ UNCHANGED <<store, unpushed, current, unheard, bounds>>

\* The subscription fails: every stream is told and the fan-out forgotten.
PumpFails(f) ==
    /\ fans[f].task \in {"subscribing", "open"} /\ failures > 0
    /\ failures' = failures - 1
    /\ fans' = [fans EXCEPT ![f].task = "ended", ![f].ready = TRUE, ![f].failed = TRUE,
                          ![f].inbox = FALSE, ![f].leaked = FALSE]
    /\ current' = IF current = f THEN NoFan ELSE current
    /\ st' = [c \in Clients |-> [st[c] EXCEPT !.wake = @ \/ c \in fans[f].signals,
                                              !.lost = @ \/ c \in fans[f].signals]]
    /\ UNCHANGED <<store, unpushed, unheard, opens, deliveries>>

Closed(stream) == [stream EXCEPT !.pc = "closed", !.fan = NoFan, !.wake = FALSE, !.lost = FALSE,
                                 !.last = FALSE, !.batch = {}]

LastOut(c) == LET fan == fans[st[c].fan] IN fan.signals = {c} /\ ~fan.leaked

\* Mutant: the last stream leaves the subscription open.
detach_only(c) ==
    /\ fans' = [fans EXCEPT ![st[c].fan].signals = @ \ {c}]
    /\ st' = [st EXCEPT ![c] = Closed(@)]

\* The last stream out cancels the pump and waits for it; a pump that has ended
\* needs no waiting.
detach(c) ==
    LET f == st[c].fan
        live == fans[f].task \in {"subscribing", "open"}
    IN IF f = NoFan
       THEN st' = [st EXCEPT ![c] = Closed(@)] /\ UNCHANGED fans
       ELSE IF LastOut(c) /\ live
       THEN /\ fans' = [fans EXCEPT ![f].signals = {}, ![f].task = "none", ![f].dying = TRUE, ![f].inbox = FALSE]
            /\ st' = [st EXCEPT ![c] = [Closed(@) EXCEPT !.pc = "detaching", !.fan = f]]
       ELSE /\ fans' = [fans EXCEPT ![f].signals = @ \ {c},
                                    ![f].task = IF LastOut(c) THEN "none" ELSE @]
            /\ st' = [st EXCEPT ![c] = Closed(@)]

\* The cancelled pump has closed its subscription, and the task is forgotten
\* whoever attached in the meantime.
Detached(c) ==
    /\ st[c].pc = "detaching"
    /\ fans' = [fans EXCEPT ![st[c].fan].dying = FALSE]
    /\ st' = [st EXCEPT ![c] = Closed(@)]
    /\ UNCHANGED <<store, unpushed, current, unheard, bounds>>

-----------------------------------------------------------------------------
(* NotificationStreamService.stream *)

\* ready returns, or raises: then the stream is one plain read.
Ready(c) ==
    /\ st[c].pc = "attach" /\ fans[st[c].fan].ready
    /\ IF fans[st[c].fan].failed
         THEN /\ fans' = [fans EXCEPT ![st[c].fan].signals = @ \ {c},
                                      ![st[c].fan].task = IF LastOut(c) THEN "none" ELSE @]
              /\ st' = [st EXCEPT ![c].pc = "read", ![c].fan = NoFan, ![c].last = TRUE]
         ELSE /\ st' = [st EXCEPT ![c].pc = "read"]
              /\ UNCHANGED fans
    /\ UNCHANGED <<store, unpushed, current, unheard, bounds>>

\* What is unread after the cursor, and the order in which it is returned.
pending_since(cursor) == {n \in Ids : Pending(n) /\ n > cursor}

OldestOf(batch, n) ==
    n \in batch /\ \A k \in batch \ {n} : \E i, j \in DOMAIN order : i < j /\ order[i] = n /\ order[j] = k

Drain(c) ==
    /\ st[c].pc = "read"
    /\ st' = [st EXCEPT ![c].pc = "drain", ![c].batch = pending_since(st[c].cursor)]
    /\ UNCHANGED <<store, unpushed, fanout, unheard, bounds>>

\* A frame reaches the client, and the cursor moves to it.
Yield(c) ==
    /\ st[c].pc = "drain"
    /\ \E n \in Ids :
         /\ OldestOf(st[c].batch, n)
         /\ st' = [st EXCEPT ![c].batch = @ \ {n}, ![c].cursor = n, ![c].got = @ \cup {n}]
    /\ UNCHANGED <<store, unpushed, fanout, unheard, bounds>>

Drained(c) ==
    /\ st[c].pc = "drain" /\ st[c].batch = {}
    /\ IF st[c].last THEN detach(c) ELSE st' = [st EXCEPT ![c].pc = "wait"] /\ UNCHANGED fans
    /\ UNCHANGED <<store, unpushed, current, unheard, bounds>>

\* NUDGED reads again; LOST reads a last time.
Woken(c) ==
    /\ st[c].pc = "wait" /\ st[c].wake
    /\ st' = [st EXCEPT ![c].pc = "read", ![c].wake = FALSE, ![c].last = st[c].lost]
    /\ UNCHANGED <<store, unpushed, fanout, unheard, bounds>>

\* Mutant: a keep-alive goes back to the wait.
IdleWaitsOn(c) ==
    /\ st[c].pc = "wait" /\ ~st[c].wake
    /\ st' = [st EXCEPT ![c].pc = "wait"]
    /\ UNCHANGED <<store, unpushed, fanout, unheard, bounds>>

\* IDLE: a keep-alive, and the read again.
Idle(c) ==
    /\ st[c].pc = "wait" /\ ~st[c].wake
    /\ st' = [st EXCEPT ![c].pc = "read"]
    /\ UNCHANGED <<store, unpushed, fanout, unheard, bounds>>

\* The client goes away: the generator releases its signal, but one cancelled
\* while it attaches has none to release yet, and leaves it behind.
Disconnect(c) ==
    /\ st[c].pc \in {"attach", "read", "drain", "wait"}
    /\ IF st[c].pc = "attach"
         THEN /\ fans' = [fans EXCEPT ![st[c].fan].signals = @ \ {c}, 
                                      ![st[c].fan].leaked = fans[st[c].fan].task # "ended"]
              /\ st' = [st EXCEPT ![c] = Closed(@)]
         ELSE detach(c)
    /\ UNCHANGED <<store, unpushed, current, unheard, bounds>>

-----------------------------------------------------------------------------
(* list_pending, the request-and-wait endpoint *)

Answerable == \E n \in Ids : Pending(n)

\* The first read answers at once when there is something.
Request(c) ==
    /\ st[c].pc = "closed" /\ opens > 0 /\ ~Answerable
    /\ opens' = opens - 1
    /\ st' = [st EXCEPT ![c].pc = "subscribe"]
    /\ UNCHANGED <<store, unpushed, fanout, unheard, failures, deliveries>>

Subscribe(c) ==
    /\ st[c].pc = "subscribe"
    /\ st' = [st EXCEPT ![c].pc = "reread"]
    /\ UNCHANGED <<store, unpushed, fanout, unheard, bounds>>

\* A read answers, or the wait goes on; the last one answers 204 instead.
Reread(c) ==
    /\ st[c].pc \in {"reread", "nudged", "final"}
    /\ st' = [st EXCEPT ![c] = IF Answerable \/ @.pc = "final" THEN Closed(@) ELSE [@ EXCEPT !.pc = "poll"]]
    /\ UNCHANGED <<store, unpushed, fanout, unheard, bounds>>

Nudged(c) ==
    /\ st[c].pc = "poll" /\ st[c].wake
    /\ st' = [st EXCEPT ![c].pc = "nudged", ![c].wake = FALSE]
    /\ UNCHANGED <<store, unpushed, fanout, unheard, bounds>>

\* The deadline passes, or the channel is lost.
StopWaiting(c) ==
    /\ \/ st[c].pc = "poll" /\ ~st[c].wake /\ UNCHANGED failures
       \/ st[c].pc \in {"subscribe", "poll"} /\ failures > 0 /\ failures' = failures - 1
    /\ st' = [st EXCEPT ![c].pc = "final", ![c].wake = FALSE]
    /\ UNCHANGED <<store, unpushed, fanout, unheard, opens, deliveries>>

-----------------------------------------------------------------------------
StreamStep(c) == Ready(c) \/ Drain(c) \/ Yield(c) \/ Drained(c) \/ Woken(c) \/ Idle(c) \/ Detached(c)

PollStep(c) == Subscribe(c) \/ Reread(c) \/ Nudged(c) \/ StopWaiting(c)

Next ==
    \/ \E n \in Ids : Handle(n) \/ Acknowledge(n)
    \/ Push \/ PushFails
    \/ \E f \in Fans : PumpSubscribes(f) \/ PumpNudges(f) \/ PumpFails(f)
    \/ \E c \in Clients : Open(c) \/ StreamStep(c) \/ Disconnect(c) \/ Request(c) \/ PollStep(c)

Spec == Init /\ [][Next]_vars

\* The loops of the process run and timeouts elapse; nothing is assumed of the
\* clients, the channel's failures or the pusher's success.
FairSpec ==
    /\ Spec
    /\ \A c \in Clients : WF_vars(StreamStep(c)) /\ WF_vars(PollStep(c))
    /\ \A f \in Fans : WF_vars(PumpSubscribes(f))

-----------------------------------------------------------------------------
(* Properties *)

\* The rows, the fan-outs and the streams have their types, and a stream that
\* waits holds a signal of the fan-out it knows.
TypeOK ==
    /\ rows \in NotificationModel
    /\ fans \in [Fans -> HouseholdFanout] /\ current \in Fans \cup {NoFan}
    /\ \A c \in Clients :
        /\ st[c].pc = "wait" => st[c].fan # NoFan /\ c \in fans[st[c].fan].signals
        /\ st[c].cursor \in Ids \cup {0} /\ st[c].got \subseteq Ids

\* At most one unread reminder of a guarded type and plant.
OneUnreadPerPlant == guarded => Cardinality({n \in Ids : Pending(n)}) <= 1

\* One channel subscription for the household, however streams attach, detach,
\* are cancelled and lose their signal.
OneSubscription ==
    LET Pumps == {f \in Fans : fans[f].task \in {"subscribing", "open"}}
        Dying == {f \in Fans : fans[f].dying}
    IN Cardinality(Pumps) + Cardinality(Dying) <= 1

\* No lost wake-up: a request that waits while something is unread has its nudge
\* in hand or on its way, unless the channel failed.
PollHearsOfIt ==
    \A c \in Clients :
        (st[c].pc = "poll" /\ ~st[c].wake)
          => \A n \in Ids : Pending(n) => n \in Range(unpushed) \cup unheard

\* The same of an open stream and what its cursor has not passed; here a nudge
\* is also unheard while the pump of one of the streams is not subscribed.
StreamHearsOfIt ==
    \A c \in Clients :
        (st[c].pc = "wait" /\ ~st[c].wake /\ ~fans[st[c].fan].inbox)
          => \A n \in Ids : (Pending(n) /\ n > st[c].cursor /\ n \notin st[c].got)
                              => n \in Range(unpushed) \cup unheard

Served(c) ==
    \/ st[c].pc \in {"closed", "detaching"} \cup PollPc
    \/ \A n \in Ids : (Pending(n) /\ n > st[c].cursor) => n \in st[c].got

\* A stream that stays open delivers every unread notification its cursor has
\* not passed, whether or not its nudges arrive.
DeliveredUnlessPassed == \A c \in Clients : []<>Served(c)

\* The last stream out closes the subscription, unless a stream that was
\* cancelled while it attached left its signal in the fan-out.
SubscriptionReleased ==
    \A f \in Fans :
        []<>(\/ fans[f].signals # {} \/ fans[f].leaked
             \/ fans[f].task \in {"none", "ended"} /\ ~fans[f].dying)

\* Every read of a stream picks up all that is unread and that its client has
\* not received ("a reconnect receives what it missed").
NothingPassedOver ==
    [][\A c \in Clients :
         (st[c].pc = "read" /\ st'[c].pc = "drain")
           => \A n \in Ids : Pending(n) => n \in st[c].got \cup st'[c].batch]_vars

\* A wait is never for nothing: neither a long poll nor a stream sleeps over an
\* unread notification without a nudge that will wake it.
NoLostWakeUp == TypeOK /\ PollHearsOfIt /\ StreamHearsOfIt

\* What must be there once is there once: the reminder of a plant, however its
\* event is redelivered, and the subscription of a household, however streams
\* come and go.
OneOfEach == OneUnreadPerPlant /\ OneSubscription

\* The last stream out always closes the subscription: stream.py:291-294 says
\* "Closing the generator - a client that disconnected, a process that is stopping -
\* releases this stream's share of the subscription".  attach adds the signal to
\* the fan-out before it waits for the subscription to open, and releases it only
\* when the channel fails: a stream closed while it waits leaves its signal behind,
\* and the household's subscription is never closed.
ShareReleased ==
    \A f \in Fans :
        []<>(\/ fans[f].signals # {}
             \/ fans[f].task \in {"none", "ended"} /\ ~fans[f].dying)
=============================================================================
