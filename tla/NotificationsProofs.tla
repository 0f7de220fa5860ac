------------------------- MODULE NotificationsProofs -------------------------
(***************************************************************************)
(* Proofs about Notifications for every set of events, clients and         *)
(* fan-outs and every bound.                                               *)
(***************************************************************************)
EXTENDS Notifications, FiniteSetTheorems, TLAPS

Live == {"subscribing", "open"}
Reading == {"attach", "read", "drain", "wait"}

\* The rows, the fan-outs, the streams and what is on its way have their types.
TypeInv ==
    /\ guarded \in BOOLEAN /\ rows \in NotificationModel
    /\ unpushed \in Seq(Ids) /\ unheard \subseteq Ids
    /\ fans \in [Fans -> HouseholdFanout] /\ current \in Fans \cup {NoFan}
    /\ st \in [Clients -> Stream]

\* Unread rows of a guarded type are one row.
UnreadInv == guarded => \A n, k \in Ids : Pending(n) /\ Pending(k) => n = k

\* Only the household's current fan-out has a pump or waits for one to end, never
\* both, and only an open subscription has something in its inbox; a fan-out that
\* failed is not the current one.
FanInv ==
    \A f \in Fans :
        /\ fans[f].task \in Live \/ fans[f].dying => f = current
        /\ fans[f].task \in Live => ~fans[f].dying
        /\ fans[f].inbox => fans[f].task = "open"
        /\ fans[f].failed => f # current

\* A stream that reads holds a signal of the fan-out it knows; it has none only
\* on its last read.
SignalFor(c) ==
    /\ st[c].pc \in Reading /\ st[c].fan # NoFan => c \in fans[st[c].fan].signals
    /\ st[c].pc \in Reading /\ ~st[c].last => st[c].fan # NoFan
    /\ st[c].pc = "attach" => ~st[c].last
    /\ st[c].pc = "detaching" => st[c].fan # NoFan
    /\ st[c].pc = "wait" => ~st[c].last /\ st[c].batch = {}
SignalInv == \A c \in Clients : SignalFor(c)

OnTheWay(n) == n \in Range(unpushed) \cup unheard

\* What a stream that has read and has no nudge will not hear of, it has received
\* or is about to, or its cursor has passed it, now and after every frame of the
\* batch.
HearFor(c) ==
    st[c].pc \in {"drain", "wait"} /\ ~st[c].last /\ ~st[c].wake /\ ~fans[st[c].fan].inbox
      => \A n \in Ids :
           Pending(n) /\ n \notin st[c].got \cup st[c].batch /\ ~OnTheWay(n)
             => n <= st[c].cursor /\ \A b \in st[c].batch : n < b
HearInv == \A c \in Clients : HearFor(c)

\* A long poll that sleeps has nothing to hear of but what is on its way.
PollFor(c) == st[c].pc = "poll" /\ ~st[c].wake => \A n \in Ids : Pending(n) => OnTheWay(n)
PollInv == \A c \in Clients : PollFor(c)

IInv == TypeInv /\ UnreadInv /\ FanInv /\ SignalInv /\ HearInv /\ PollInv

-----------------------------------------------------------------------------
\* The steps of the specification, for the case analyses below.
LEMMA Cases ==
  ASSUME [Next]_vars, NEW P,
         \A n \in Ids : Handle(n) => P,
         \A n \in Ids : Acknowledge(n) => P,
         Push => P,
         PushFails => P,
         \A f \in Fans : PumpSubscribes(f) => P,
         \A f \in Fans : PumpNudges(f) => P,
         \A f \in Fans : PumpFails(f) => P,
         \A c \in Clients : Open(c) => P,
         \A c \in Clients : Ready(c) => P,
         \A c \in Clients : Drain(c) => P,
         \A c \in Clients : Yield(c) => P,
         \A c \in Clients : Drained(c) => P,
         \A c \in Clients : Woken(c) => P,
         \A c \in Clients : Idle(c) => P,
         \A c \in Clients : Detached(c) => P,
         \A c \in Clients : Disconnect(c) => P,
         \A c \in Clients : Request(c) => P,
         \A c \in Clients : PollStep(c) => P,
         UNCHANGED vars => P
  PROVE  P
  BY DEF Next, StreamStep

\* No fan-out has the identity that stands for none, and cursors are compared as
\* numbers.
LEMMA Numbers == NoFan \notin Fans /\ Ids \subseteq Nat /\ (Ids \cup {0}) \subseteq Nat
  BY ConstantsAssumption DEF NoFan

\* What is in a queue after an arrival and after a departure.
LEMMA Queue ==
  ASSUME NEW u \in Seq(Ids)
  PROVE  /\ \A n \in Ids : Append(u, n) \in Seq(Ids) /\ Range(Append(u, n)) = Range(u) \cup {n}
         /\ u # <<>> => /\ Head(u) \in Ids /\ Tail(u) \in Seq(Ids)
                        /\ Range(u) \subseteq Range(Tail(u)) \cup {Head(u)}
<1>1. ASSUME NEW n \in Ids PROVE Append(u, n) \in Seq(Ids) /\ Range(Append(u, n)) = Range(u) \cup {n}
  <2>1. /\ Append(u, n) \in Seq(Ids) /\ DOMAIN Append(u, n) = 1 .. Len(u) + 1 /\ DOMAIN u = 1 .. Len(u)
        /\ \A i \in 1 .. Len(u) : Append(u, n)[i] = u[i]
        /\ Append(u, n)[Len(u) + 1] = n /\ Len(u) \in Nat
    OBVIOUS
  <2>2. Range(Append(u, n)) \subseteq Range(u) \cup {n}
    BY <2>1 DEF Range
  <2>3. Range(u) \cup {n} \subseteq Range(Append(u, n))
    BY <2>1 DEF Range
  <2> QED
    BY <2>1, <2>2, <2>3
<1>2. ASSUME u # <<>> PROVE Head(u) \in Ids /\ Tail(u) \in Seq(Ids) /\ Range(u) \subseteq Range(Tail(u)) \cup {Head(u)}
  <2>1. /\ Head(u) = u[1] /\ Tail(u) \in Seq(Ids) /\ DOMAIN u = 1 .. Len(u) /\ Len(u) \in Nat \ {0}
        /\ DOMAIN Tail(u) = 1 .. Len(u) - 1 /\ \A i \in 1 .. Len(u) - 1 : Tail(u)[i] = u[i + 1]
    BY <1>2
  <2>2. ASSUME NEW i \in 1 .. Len(u), i # 1 PROVE u[i] \in Range(Tail(u))
    <3>1. i - 1 \in 1 .. Len(u) - 1 /\ u[i] = Tail(u)[i - 1]
      BY <2>1, <2>2
    <3> QED
      BY <2>1, <3>1 DEF Range
  <2> QED
    BY <2>1, <2>2 DEF Range
<1> QED
  BY <1>1, <1>2

-----------------------------------------------------------------------------
(* Types *)

\* A stream that closes keeps its cursor and what its client received.
LEMMA ClosedIs ==
  ASSUME NEW s \in Stream
  PROVE  /\ Closed(s) \in Stream /\ Closed(s).pc = "closed" /\ Closed(s).fan = NoFan
         /\ \A f \in Fans : /\ [Closed(s) EXCEPT !.pc = "detaching", !.fan = f] \in Stream
                            /\ [Closed(s) EXCEPT !.pc = "detaching", !.fan = f].pc = "detaching"
                            /\ [Closed(s) EXCEPT !.pc = "detaching", !.fan = f].fan = f
  BY DEF Closed, Stream

\* What leaving does: the stream gives its signal back and is closed, or waits
\* for the pump it cancelled.
LEMMA DetachIs ==
  ASSUME TypeInv, NEW c \in Clients, detach(c)
  PROVE  /\ fans' \in [Fans -> HouseholdFanout] /\ st' \in [Clients -> Stream]
         /\ \A d \in Clients \ {c} : st'[d] = st[d]
         /\ st'[c].pc \in {"closed", "detaching"} /\ (st'[c].pc = "detaching" => st'[c].fan = st[c].fan /\ st[c].fan \in Fans)
         /\ \A f \in Fans \ {st[c].fan} : fans'[f] = fans[f]
         /\ st[c].fan \in Fans =>
              LET f == st[c].fan IN
              /\ fans'[f].signals = fans[f].signals \ {c} /\ fans'[f].failed = fans[f].failed
              /\ \/ fans'[f].task = fans[f].task /\ fans'[f].dying = fans[f].dying /\ fans'[f].inbox = fans[f].inbox
                 \/ /\ fans[f].task \in Live /\ fans[f].signals = {c}
                    /\ fans'[f].task = "none" /\ fans'[f].dying /\ ~fans'[f].inbox
                 \/ /\ fans[f].task \notin Live /\ fans[f].signals = {c}
                    /\ fans'[f].task = "none" /\ fans'[f].dying = fans[f].dying /\ fans'[f].inbox = fans[f].inbox
<1> USE Numbers
<1>1. st[c] \in Stream /\ st[c].fan \in Fans \cup {NoFan}
  BY DEF TypeInv, Stream
<1>2. CASE st[c].fan = NoFan
  <2>1. st' = [st EXCEPT ![c] = Closed(st[c])] /\ fans' = fans
    BY <1>2 DEF detach
  <2> QED
    BY <1>1, <1>2, <2>1, ClosedIs DEF TypeInv
<1>3. CASE st[c].fan \in Fans
  <2> DEFINE f == st[c].fan
  <2>1. fans[f] \in HouseholdFanout
    BY <1>3 DEF TypeInv
  <2>2. CASE LastOut(c) /\ fans[f].task \in Live
    <3>1. /\ fans' = [fans EXCEPT ![f] = [fans[f] EXCEPT !.signals = {}, !.task = "none", !.dying = TRUE, !.inbox = FALSE]]
          /\ st' = [st EXCEPT ![c] = [Closed(st[c]) EXCEPT !.pc = "detaching", !.fan = f]]
      BY <1>3, <2>2 DEF detach, Live, TypeInv
    <3>2. fans[f].signals = {c}
      BY <2>2 DEF LastOut
    <3> DEFINE new == [fans[f] EXCEPT !.signals = {}, !.task = "none", !.dying = TRUE, !.inbox = FALSE]
               stream == [Closed(st[c]) EXCEPT !.pc = "detaching", !.fan = f]
    <3>3. /\ new \in HouseholdFanout /\ new.signals = {} /\ new.task = "none" /\ new.dying /\ ~new.inbox
          /\ new.failed = fans[f].failed
      BY <2>1 DEF HouseholdFanout
    <3>4. stream \in Stream /\ stream.pc = "detaching" /\ stream.fan = f
      BY <1>1, <1>3, ClosedIs
    <3>5. /\ fans' = [fans EXCEPT ![f] = new] /\ fans'[f] = new
          /\ st' = [st EXCEPT ![c] = stream] /\ st'[c] = stream
      BY <1>3, <3>1 DEF TypeInv
    <3> HIDE DEF new, stream
    <3> QED
      BY <1>3, <2>2, <3>2, <3>3, <3>4, <3>5 DEF TypeInv
  <2>3. CASE ~(LastOut(c) /\ fans[f].task \in Live)
    <3>1. /\ fans' = [fans EXCEPT ![f] = [fans[f] EXCEPT !.signals = @ \ {c},
                                              !.task = IF LastOut(c) THEN "none" ELSE @]]
          /\ st' = [st EXCEPT ![c] = Closed(st[c])]
      BY <1>3, <2>3 DEF detach, Live, TypeInv
    <3>2. LastOut(c) => fans[f].signals = {c}
      BY DEF LastOut
    <3>3. [fans[f] EXCEPT !.signals = @ \ {c}, !.task = IF LastOut(c) THEN "none" ELSE @] \in HouseholdFanout
      BY <2>1 DEF HouseholdFanout
    <3> QED
      BY <1>1, <1>3, <2>1, <2>3, <3>1, <3>2, <3>3, ClosedIs DEF TypeInv, HouseholdFanout
  <2> QED
    BY <2>2, <2>3
<1> QED
  BY <1>1, <1>2, <1>3

\* What joining does: the household's fan-out, or an unused one in its place, has
\* one more signal.
LEMMA AttachIs ==
  ASSUME TypeInv, NEW c \in Clients, attach(c)
  PROVE  \E f \in Fans :
           LET fan == IF current = NoFan THEN NewFan ELSE fans[f] IN
           /\ current' = f /\ ((current = NoFan /\ Unused(f)) \/ current = f)
           /\ fan \in HouseholdFanout /\ fans' = [fans EXCEPT ![f] = fans'[f]] /\ fans'[f] \in HouseholdFanout
           /\ fans'[f].signals = fan.signals \cup {c} /\ fans'[f].dying = fan.dying /\ fans'[f].failed = fan.failed
           /\ IF fan.task = "none" /\ ~fan.dying
                THEN fans'[f].task = "subscribing" /\ ~fans'[f].inbox
                ELSE fans'[f].task = fan.task /\ fans'[f].inbox = fan.inbox
           /\ st' = [st EXCEPT ![c] = st'[c]] /\ st'[c] \in Stream
           /\ st'[c].pc = "attach" /\ st'[c].fan = f /\ ~st'[c].last
<1> USE Numbers
<1>1. PICK f \in Fans :
        /\ FanoutFor(f)
        /\ LET fan == IF current = NoFan THEN NewFan ELSE fans[f]
           IN fans' = [fans EXCEPT ![f] = [fan EXCEPT !.signals = @ \cup {c},
                                             !.task = IF needs_pump(fan) THEN "subscribing" ELSE @,
                                             !.inbox = @ /\ ~needs_pump(fan)]]
        /\ current' = f
        /\ st' = [st EXCEPT ![c].pc = "attach", ![c].fan = f, ![c].wake = FALSE,
                            ![c].lost = FALSE, ![c].last = FALSE]
  BY DEF attach
<1> DEFINE fan == IF current = NoFan THEN NewFan ELSE fans[f]
           new == [fan EXCEPT !.signals = @ \cup {c},
                              !.task = IF needs_pump(fan) THEN "subscribing" ELSE @,
                              !.inbox = @ /\ ~needs_pump(fan)]
           stream == [st[c] EXCEPT !.pc = "attach", !.fan = f, !.wake = FALSE, !.lost = FALSE, !.last = FALSE]
<1>2. fan \in HouseholdFanout
  BY DEF TypeInv, NewFan, HouseholdFanout
<1>3. /\ new \in HouseholdFanout /\ new.signals = fan.signals \cup {c} /\ new.dying = fan.dying /\ new.failed = fan.failed
      /\ IF fan.task = "none" /\ ~fan.dying THEN new.task = "subscribing" /\ ~new.inbox
                                            ELSE new.task = fan.task /\ new.inbox = fan.inbox
  BY <1>2 DEF HouseholdFanout, needs_pump
<1>4. fans' = [fans EXCEPT ![f] = new] /\ fans'[f] = new
  BY <1>1 DEF TypeInv
<1>5. st[c] \in Stream
  BY DEF TypeInv
<1>6. stream \in Stream /\ stream.pc = "attach" /\ stream.fan = f /\ ~stream.last
  BY <1>5 DEF Stream
<1>7. st' = [st EXCEPT ![c] = stream] /\ st'[c] = stream
  BY <1>1 DEF TypeInv
<1>8. (current = NoFan /\ Unused(f)) \/ current = f
  BY <1>1 DEF FanoutFor
<1> HIDE DEF new, stream
<1> QED
  BY <1>1, <1>2, <1>3, <1>4, <1>6, <1>7, <1>8

-----------------------------------------------------------------------------
(* What a step may change of what a client is waiting for *)

\* What is unread is on its way, or was unread and not on its way before.
NoNews == \A n \in Ids : Pending(n)' => OnTheWay(n)' \/ (Pending(n) /\ ~OnTheWay(n))

\* A client that is not woken keeps its place.
SameClient(c) ==
    /\ st'[c].pc = st[c].pc /\ st'[c].fan = st[c].fan /\ st'[c].last = st[c].last
    /\ st'[c].batch = st[c].batch /\ st'[c].cursor = st[c].cursor /\ (st[c].wake => st'[c].wake)
    /\ \A n \in Ids : Pending(n)' /\ n \in st[c].got => n \in st'[c].got

\* Its fan-out keeps its signal and what is in its inbox, unless it is woken.
SameFan(c) ==
    st[c].fan \in Fans =>
      LET f == st[c].fan IN
      /\ c \in fans[f].signals => c \in fans'[f].signals
      /\ fans[f].inbox /\ c \in fans[f].signals => fans'[f].inbox \/ st'[c].wake

\* A client that keeps its place hears what it heard.
LEMMA Kept ==
  ASSUME IInv, NEW c \in Clients, NoNews, SameClient(c), SameFan(c)
  PROVE  SignalFor(c)' /\ HearFor(c)' /\ PollFor(c)'
<1>1. st[c] \in Stream /\ st[c].fan \in Fans \cup {NoFan} /\ SignalFor(c) /\ HearFor(c) /\ PollFor(c)
  BY DEF IInv, TypeInv, Stream, SignalInv, HearInv, PollInv
<1>2. SignalFor(c)'
  BY <1>1 DEF SameClient, SameFan, SignalFor
<1>3. HearFor(c)'
  <2> SUFFICES ASSUME st'[c].pc \in {"drain", "wait"}, ~st'[c].last, ~st'[c].wake, ~fans'[st'[c].fan].inbox,
                      NEW n \in Ids, Pending(n)', n \notin st'[c].got \cup st'[c].batch, ~OnTheWay(n)'
               PROVE  n <= st'[c].cursor /\ \A b \in st'[c].batch : n < b
    BY DEF HearFor
  <2>1. st[c].fan \in Fans /\ c \in fans[st[c].fan].signals
    BY <1>1 DEF SameClient, SignalFor, Reading
  <2>2. ~st[c].wake /\ ~fans[st[c].fan].inbox
    BY <2>1 DEF SameClient, SameFan
  <2>3. Pending(n) /\ ~OnTheWay(n) /\ n \notin st[c].got \cup st[c].batch
    BY DEF NoNews, SameClient
  <2> QED
    BY <1>1, <2>2, <2>3 DEF HearFor, SameClient
<1>4. PollFor(c)'
  BY <1>1 DEF PollFor, SameClient, NoNews
<1> QED
  BY <1>2, <1>3, <1>4

\* One client moves, the others keep their places.
LEMMA OneMoves ==
  ASSUME IInv, NEW c \in Clients, UNCHANGED <<rows, unpushed, unheard>>,
         \A d \in Clients \ {c} : st'[d] = st[d] /\ SameFan(d),
         SignalFor(c)', HearFor(c)', PollFor(c)'
  PROVE  SignalInv' /\ HearInv' /\ PollInv'
<1>1. NoNews
  BY DEF NoNews, OnTheWay, Pending
<1>2. ASSUME NEW d \in Clients \ {c} PROVE SignalFor(d)' /\ HearFor(d)' /\ PollFor(d)'
  <2>1. SameClient(d)
    BY <1>2 DEF SameClient
  <2> QED
    BY <1>1, <1>2, <2>1, Kept
<1> QED
  BY <1>2 DEF SignalInv, HearInv, PollInv

\* A client that neither waits nor has read has nothing to hear of.
LEMMA NotListening ==
  ASSUME NEW c \in Clients, st'[c].pc \notin {"drain", "wait", "poll"}
  PROVE  HearFor(c)' /\ PollFor(c)'
  BY DEF HearFor, PollFor

-----------------------------------------------------------------------------
(* The notifications consumer, the acknowledgement and the pusher *)

\* A reminder is stored when none of its guard is unread, and queued with it.
LEMMA HandleKeeps == ASSUME IInv, NEW n \in Ids, Handle(n) PROVE IInv'
<1>1. /\ rows' = [rows EXCEPT ![n] = "unread"] /\ unpushed' = Append(unpushed, n)
      /\ ~has_unread(n) /\ UNCHANGED <<guarded, fans, current, st, unheard>>
  BY DEF Handle, _store, create, fanout
<1>2. unpushed' \in Seq(Ids) /\ Range(unpushed') = Range(unpushed) \cup {n}
  BY <1>1, Queue DEF IInv, TypeInv
<1>3. \A k \in Ids : Pending(k)' <=> Pending(k) \/ k = n
  BY <1>1 DEF IInv, TypeInv, NotificationModel, Pending
<1>4. TypeInv' /\ FanInv'
  BY <1>1, <1>2 DEF IInv, TypeInv, NotificationModel, FanInv
<1>5. UnreadInv'
  BY <1>1, <1>3 DEF UnreadInv, has_unread
<1>6. NoNews
  BY <1>1, <1>2, <1>3 DEF NoNews, OnTheWay
<1>7. ASSUME NEW c \in Clients PROVE SignalFor(c)' /\ HearFor(c)' /\ PollFor(c)'
  BY <1>1, <1>6, Kept DEF SameClient, SameFan
<1> QED
  BY <1>4, <1>5, <1>7 DEF IInv, SignalInv, HearInv, PollInv

\* A reminder that is read is nobody's to hear of.
LEMMA AcknowledgeKeeps == ASSUME IInv, NEW n \in Ids, Acknowledge(n) PROVE IInv'
<1>1. /\ rows' = [rows EXCEPT ![n] = "read"] /\ unheard' = unheard \ {n}
      /\ st' = [c \in Clients |-> [st[c] EXCEPT !.got = @ \ {n}]]
      /\ UNCHANGED <<guarded, unpushed, fans, current>>
  BY DEF Acknowledge, mark_read, fanout
<1>2. \A k \in Ids : Pending(k)' <=> Pending(k) /\ k # n
  BY <1>1 DEF IInv, TypeInv, NotificationModel, Pending
<1>3. ASSUME NEW c \in Clients
      PROVE  /\ st'[c] \in Stream /\ st'[c].got = st[c].got \ {n} /\ st'[c].wake = st[c].wake
             /\ st'[c].pc = st[c].pc /\ st'[c].fan = st[c].fan /\ st'[c].last = st[c].last
             /\ st'[c].batch = st[c].batch /\ st'[c].cursor = st[c].cursor
  BY <1>1 DEF IInv, TypeInv, Stream
<1>4. TypeInv' /\ FanInv'
  BY <1>1, <1>3 DEF IInv, TypeInv, NotificationModel, FanInv
<1>5. UnreadInv'
  BY <1>1, <1>2 DEF IInv, UnreadInv
<1>6. NoNews
  BY <1>1, <1>2 DEF NoNews, OnTheWay
<1>7. ASSUME NEW c \in Clients PROVE SignalFor(c)' /\ HearFor(c)' /\ PollFor(c)'
  <2>1. SameClient(c) /\ SameFan(c)
    BY <1>1, <1>2, <1>3 DEF SameClient, SameFan
  <2> QED
    BY <1>6, <2>1, Kept
<1> QED
  BY <1>4, <1>5, <1>7 DEF IInv, SignalInv, HearInv, PollInv

\* A nudge reaches whoever is subscribed; if a stream's pump is not, it is unheard.
LEMMA PushKeeps == ASSUME IInv, Push PROVE IInv'
<1> DEFINE h == Head(unpushed)
<1>1. /\ unpushed # <<>> /\ unpushed' = Tail(unpushed) /\ UNCHANGED <<guarded, rows, current>>
      /\ unheard' = IF Deaf = {} THEN unheard ELSE unheard \cup {n \in {h} : Pending(n)}
      /\ fans' = [f \in Fans |-> [fans[f] EXCEPT !.inbox = @ \/ Subscribed(f)]]
      /\ st' = [c \in Clients |-> [st[c] EXCEPT !.wake = @ \/ PollSubscribed(c)]]
  BY DEF Push, publish, store
<1>2. h \in Ids /\ Tail(unpushed) \in Seq(Ids) /\ Range(unpushed) \subseteq Range(Tail(unpushed)) \cup {h}
  BY <1>1, Queue DEF IInv, TypeInv
<1>3. ASSUME NEW c \in Clients
      PROVE  /\ st'[c] \in Stream /\ st'[c].wake = (st[c].wake \/ PollSubscribed(c)) /\ st'[c].got = st[c].got
             /\ st'[c].pc = st[c].pc /\ st'[c].fan = st[c].fan /\ st'[c].last = st[c].last
             /\ st'[c].batch = st[c].batch /\ st'[c].cursor = st[c].cursor
  BY <1>1 DEF IInv, TypeInv, Stream, PollSubscribed
<1>4. ASSUME NEW f \in Fans
      PROVE  /\ fans'[f] \in HouseholdFanout /\ fans'[f].inbox = (fans[f].inbox \/ Subscribed(f))
             /\ fans'[f].task = fans[f].task /\ fans'[f].dying = fans[f].dying /\ fans'[f].signals = fans[f].signals
             /\ fans'[f].failed = fans[f].failed
  BY <1>1 DEF IInv, TypeInv, HouseholdFanout, Subscribed
<1>5. TypeInv'
  BY <1>1, <1>2, <1>3, <1>4 DEF IInv, TypeInv
<1>6. FanInv'
  BY <1>1, <1>4 DEF IInv, FanInv, Subscribed
<1>7. UnreadInv'
  BY <1>1 DEF IInv, UnreadInv, Pending
<1>8. ASSUME NEW c \in Clients PROVE SignalFor(c)' /\ HearFor(c)' /\ PollFor(c)'
  <2>1. SameClient(c) /\ SameFan(c)
    BY <1>3, <1>4 DEF SameClient, SameFan
  <2>2. CASE Deaf # {}
    <3>1. NoNews
      BY <1>1, <1>2, <2>2 DEF NoNews, OnTheWay, Pending
    <3> QED
      BY <2>1, <3>1, Kept
  <2>3. CASE Deaf = {}
    <3>1. st[c] \in Stream /\ st[c].fan \in Fans \cup {NoFan} /\ SignalFor(c)
      BY DEF IInv, TypeInv, Stream, SignalInv
    <3>2. SignalFor(c)'
      BY <2>1, <3>1 DEF SameClient, SameFan, SignalFor
    <3>3. PollFor(c)'
      BY <1>3 DEF PollFor, PollSubscribed
    <3>4. ASSUME st[c].pc \in {"drain", "wait"}, ~st[c].last PROVE fans'[st'[c].fan].inbox
      <4>1. st[c].fan \in Fans /\ c \in fans[st[c].fan].signals
        BY <3>1, <3>4 DEF SignalFor, Reading
      <4>2. Subscribed(st[c].fan)
        BY <2>3, <4>1 DEF Deaf, AttachedTo
      <4> QED
        BY <1>3, <1>4, <4>1, <4>2
    <3> QED
      BY <1>3, <3>2, <3>3, <3>4 DEF HearFor
  <2> QED
    BY <2>2, <2>3
<1> QED
  BY <1>5, <1>6, <1>7, <1>8 DEF IInv, SignalInv, HearInv, PollInv

\* A nudge that fails is unheard.
LEMMA PushFailsKeeps == ASSUME IInv, PushFails PROVE IInv'
<1> DEFINE h == Head(unpushed)
<1>1. /\ unpushed # <<>> /\ unpushed' = Tail(unpushed) /\ UNCHANGED <<guarded, rows, fans, current, st>>
      /\ unheard' = unheard \cup {n \in {h} : Pending(n)}
  BY DEF PushFails, store, fanout
<1>2. h \in Ids /\ Tail(unpushed) \in Seq(Ids) /\ Range(unpushed) \subseteq Range(Tail(unpushed)) \cup {h}
  BY <1>1, Queue DEF IInv, TypeInv
<1>3. TypeInv' /\ FanInv' /\ UnreadInv'
  BY <1>1, <1>2 DEF IInv, TypeInv, FanInv, UnreadInv, Pending
<1>4. NoNews
  BY <1>1, <1>2 DEF NoNews, OnTheWay, Pending
<1>5. ASSUME NEW c \in Clients PROVE SignalFor(c)' /\ HearFor(c)' /\ PollFor(c)'
  BY <1>1, <1>4, Kept DEF SameClient, SameFan
<1> QED
  BY <1>3, <1>5 DEF IInv, SignalInv, HearInv, PollInv

-----------------------------------------------------------------------------
(* The pump *)

\* The pump's subscription opens.
LEMMA PumpSubscribesKeeps == ASSUME IInv, NEW f \in Fans, PumpSubscribes(f) PROVE IInv'
<1>1. /\ fans[f].task = "subscribing" /\ UNCHANGED <<guarded, rows, unpushed, current, st, unheard>>
      /\ fans' = [fans EXCEPT ![f].task = "open", ![f].ready = TRUE]
  BY DEF PumpSubscribes, store
<1>2. ASSUME NEW g \in Fans
      PROVE  /\ fans'[g] \in HouseholdFanout /\ fans'[g].inbox = fans[g].inbox
             /\ fans'[g].dying = fans[g].dying /\ fans'[g].signals = fans[g].signals
             /\ fans'[g].task = (IF g = f THEN "open" ELSE fans[g].task)
             /\ fans'[g].failed = fans[g].failed
  BY <1>1 DEF IInv, TypeInv, HouseholdFanout
<1>3. TypeInv' /\ UnreadInv'
  BY <1>1, <1>2 DEF IInv, TypeInv, UnreadInv, Pending
<1>4. FanInv'
  BY <1>1, <1>2 DEF IInv, FanInv, Live
<1>5. NoNews
  BY <1>1 DEF NoNews, OnTheWay, Pending
<1>6. ASSUME NEW c \in Clients PROVE SignalFor(c)' /\ HearFor(c)' /\ PollFor(c)'
  <2>1. SameClient(c) /\ SameFan(c)
    BY <1>1, <1>2 DEF SameClient, SameFan
  <2> QED
    BY <1>5, <2>1, Kept
<1> QED
  BY <1>3, <1>4, <1>6 DEF IInv, SignalInv, HearInv, PollInv

\* The pump hands the nudge on, or fails: whoever holds a signal is woken.
LEMMA PumpWakes ==
  ASSUME IInv, NEW f \in Fans, UNCHANGED <<guarded, rows, unpushed, unheard>>,
         \A g \in Fans \ {f} : fans'[g] = fans[g],
         fans'[f] \in HouseholdFanout, fans'[f].signals = fans[f].signals,
         st' \in [Clients -> Stream],
         \A c \in Clients :
            /\ st'[c].wake = (st[c].wake \/ c \in fans[f].signals) /\ st'[c].got = st[c].got
            /\ st'[c].pc = st[c].pc /\ st'[c].fan = st[c].fan /\ st'[c].last = st[c].last
            /\ st'[c].batch = st[c].batch /\ st'[c].cursor = st[c].cursor
  PROVE  SignalInv' /\ HearInv' /\ PollInv' /\ UnreadInv'
<1>1. NoNews /\ UnreadInv'
  BY DEF IInv, NoNews, OnTheWay, Pending, UnreadInv
<1>2. ASSUME NEW c \in Clients PROVE SignalFor(c)' /\ HearFor(c)' /\ PollFor(c)'
  <2>1. SameClient(c) /\ SameFan(c)
    BY <1>2 DEF SameClient, SameFan
  <2> QED
    BY <1>1, <2>1, Kept
<1> QED
  BY <1>1, <1>2 DEF SignalInv, HearInv, PollInv

\* The pump empties its inbox and wakes every stream that holds a signal.
LEMMA PumpNudgesKeeps == ASSUME IInv, NEW f \in Fans, PumpNudges(f) PROVE IInv'
<1>1. /\ UNCHANGED <<guarded, rows, unpushed, current, unheard>>
      /\ fans' = [fans EXCEPT ![f].inbox = FALSE]
      /\ st' = [c \in Clients |-> [st[c] EXCEPT !.wake = @ \/ c \in fans[f].signals]]
  BY DEF PumpNudges, store
<1>2. /\ \A g \in Fans \ {f} : fans'[g] = fans[g]
      /\ fans'[f] \in HouseholdFanout /\ fans'[f].signals = fans[f].signals
      /\ fans'[f].task = fans[f].task /\ fans'[f].dying = fans[f].dying /\ ~fans'[f].inbox
      /\ fans'[f].failed = fans[f].failed
  BY <1>1 DEF IInv, TypeInv, HouseholdFanout
<1>3. ASSUME NEW c \in Clients
      PROVE  /\ st'[c] \in Stream
             /\ st'[c].wake = (st[c].wake \/ c \in fans[f].signals) /\ st'[c].got = st[c].got
             /\ st'[c].pc = st[c].pc /\ st'[c].fan = st[c].fan /\ st'[c].last = st[c].last
             /\ st'[c].batch = st[c].batch /\ st'[c].cursor = st[c].cursor
  BY <1>1 DEF IInv, TypeInv, Stream
<1>4. st' \in [Clients -> Stream]
  BY <1>1, <1>3
<1>5. fans' \in [Fans -> HouseholdFanout]
  BY <1>1, <1>2 DEF IInv, TypeInv
<1>6. TypeInv'
  BY <1>1, <1>4, <1>5 DEF IInv, TypeInv
<1>7. FanInv'
  BY <1>1, <1>2 DEF IInv, FanInv
<1> QED
  BY <1>1, <1>2, <1>3, <1>4, <1>6, <1>7, PumpWakes DEF IInv

\* A pump that fails leaves the household: its streams read once more, and the
\* next client gets a new fan-out.
LEMMA PumpFailsKeeps == ASSUME IInv, NEW f \in Fans, PumpFails(f) PROVE IInv'
<1>1. /\ UNCHANGED <<guarded, rows, unpushed, unheard>> /\ fans[f].task \in Live
      /\ fans' = [fans EXCEPT ![f].task = "ended", ![f].ready = TRUE, ![f].failed = TRUE,
                              ![f].inbox = FALSE, ![f].leaked = FALSE]
      /\ current' = IF current = f THEN NoFan ELSE current
      /\ st' = [c \in Clients |-> [st[c] EXCEPT !.wake = @ \/ c \in fans[f].signals,
                                                !.lost = @ \/ c \in fans[f].signals]]
  BY DEF PumpFails, store, Live
<1>2. /\ \A g \in Fans \ {f} : fans'[g] = fans[g]
      /\ fans'[f] \in HouseholdFanout /\ fans'[f].signals = fans[f].signals
      /\ fans'[f].task = "ended" /\ fans'[f].dying = fans[f].dying /\ ~fans'[f].inbox
  <2> DEFINE new == [fans[f] EXCEPT !.task = "ended", !.ready = TRUE, !.failed = TRUE, !.inbox = FALSE, !.leaked = FALSE]
  <2>1. fans' = [fans EXCEPT ![f] = new] /\ fans[f] \in HouseholdFanout
    BY <1>1 DEF IInv, TypeInv
  <2>2. /\ new \in HouseholdFanout /\ new.signals = fans[f].signals
        /\ new.task = "ended" /\ new.dying = fans[f].dying /\ ~new.inbox
    BY <2>1 DEF HouseholdFanout
  <2> HIDE DEF new
  <2> QED
    BY <2>1, <2>2 DEF IInv, TypeInv
<1>3. ASSUME NEW c \in Clients
      PROVE  /\ st'[c] \in Stream
             /\ st'[c].wake = (st[c].wake \/ c \in fans[f].signals) /\ st'[c].got = st[c].got
             /\ st'[c].pc = st[c].pc /\ st'[c].fan = st[c].fan /\ st'[c].last = st[c].last
             /\ st'[c].batch = st[c].batch /\ st'[c].cursor = st[c].cursor
  BY <1>1 DEF IInv, TypeInv, Stream
<1>4. st' \in [Clients -> Stream]
  BY <1>1, <1>3
<1>5. fans' \in [Fans -> HouseholdFanout]
  BY <1>1, <1>2 DEF IInv, TypeInv
<1>6. TypeInv'
  BY <1>1, <1>4, <1>5 DEF IInv, TypeInv
<1>7. FanInv'
  <2>1. current = f /\ ~fans[f].dying /\ \A g \in Fans \ {f} : fans[g].task \notin Live /\ ~fans[g].dying
    BY <1>1 DEF IInv, FanInv
  <2> QED
    BY <1>1, <1>2, <2>1, Numbers DEF IInv, FanInv, Live
<1> QED
  BY <1>1, <1>2, <1>3, <1>4, <1>6, <1>7, PumpWakes DEF IInv

-----------------------------------------------------------------------------
(* The streams *)

\* One client moves and the fan-outs stay as they are.
LEMMA StreamMoves ==
  ASSUME IInv, NEW c \in Clients, NEW s \in Stream, st' = [st EXCEPT ![c] = s],
         UNCHANGED <<guarded, rows, unpushed, fans, current, unheard>>,
         SignalFor(c)', HearFor(c)', PollFor(c)'
  PROVE  IInv'
<1>1. TypeInv' /\ UnreadInv' /\ FanInv'
  BY DEF IInv, TypeInv, UnreadInv, Pending, FanInv
<1>2. \A d \in Clients \ {c} : st'[d] = st[d] /\ SameFan(d)
  BY DEF IInv, TypeInv, SameFan
<1> QED
  BY <1>1, <1>2, OneMoves DEF IInv

\* A stream joins.
LEMMA OpenKeeps == ASSUME IInv, NEW c \in Clients, Open(c) PROVE IInv'
<1> USE Numbers
<1>1. UNCHANGED <<guarded, rows, unpushed, unheard>> /\ attach(c)
  BY DEF Open, store
<1>2. TypeInv
  BY DEF IInv
<1>3. PICK f \in Fans :
           LET fan == IF current = NoFan THEN NewFan ELSE fans[f] IN
           /\ current' = f /\ ((current = NoFan /\ Unused(f)) \/ current = f)
           /\ fan \in HouseholdFanout /\ fans' = [fans EXCEPT ![f] = fans'[f]] /\ fans'[f] \in HouseholdFanout
           /\ fans'[f].signals = fan.signals \cup {c} /\ fans'[f].dying = fan.dying /\ fans'[f].failed = fan.failed
           /\ IF fan.task = "none" /\ ~fan.dying
                THEN fans'[f].task = "subscribing" /\ ~fans'[f].inbox
                ELSE fans'[f].task = fan.task /\ fans'[f].inbox = fan.inbox
           /\ st' = [st EXCEPT ![c] = st'[c]] /\ st'[c] \in Stream
           /\ st'[c].pc = "attach" /\ st'[c].fan = f /\ ~st'[c].last
  BY <1>1, <1>2, AttachIs
<1> DEFINE fan == IF current = NoFan THEN NewFan ELSE fans[f]
<1>4. TypeInv' /\ UnreadInv'
  <2>1. fans' \in [Fans -> HouseholdFanout] /\ st' \in [Clients -> Stream] /\ current' \in Fans
    BY <1>2, <1>3 DEF TypeInv
  <2> QED
    BY <1>1, <2>1 DEF IInv, TypeInv, UnreadInv, Pending
<1>5. \A g \in Fans \ {f} : fans'[g] = fans[g]
  BY <1>2, <1>3 DEF TypeInv
<1>6. FanInv'
  <2>1. \A g \in Fans \ {f} : fans[g].task \notin Live /\ ~fans[g].dying
    BY <1>3 DEF IInv, FanInv
  <2>2. fan.task \in Live => ~fan.dying
    BY DEF IInv, FanInv, NewFan, Live
  <2>3. fan.inbox => fan.task = "open"
    BY DEF IInv, FanInv, NewFan
  <2>4. ~fan.failed
    BY <1>3 DEF IInv, FanInv, NewFan
  <2>5. /\ fans'[f].task \in Live => ~fans'[f].dying
        /\ fans'[f].inbox => fans'[f].task = "open"
        /\ ~fans'[f].failed
    BY <1>3, <2>2, <2>3, <2>4
  <2> QED
    BY <1>3, <1>5, <2>1, <2>5, Numbers DEF IInv, FanInv
<1>7. ASSUME NEW d \in Clients \ {c} PROVE st'[d] = st[d] /\ SameFan(d)
  <2>1. st'[d] = st[d]
    BY <1>2, <1>3 DEF TypeInv
  <2>2. ASSUME st[d].fan = f, d \in fans[f].signals
        PROVE  d \in fans'[f].signals /\ (fans[f].inbox => fans'[f].inbox)
    <3>1. current = f
      BY <1>3, <2>2 DEF Unused
    <3>2. fans[f].inbox => fans[f].task = "open"
      BY DEF IInv, FanInv
    <3> QED
      BY <1>3, <2>2, <3>1, <3>2
  <2> QED
    BY <1>5, <2>1, <2>2 DEF SameFan
<1>8. SignalFor(c)' /\ HearFor(c)' /\ PollFor(c)'
  <2>1. SignalFor(c)'
    BY <1>3 DEF SignalFor
  <2> QED
    BY <1>3, <2>1, NotListening
<1> QED
  BY <1>1, <1>4, <1>6, <1>7, <1>8, OneMoves DEF IInv

\* A stream gives its signal back: the others keep theirs, and a pump nobody
\* needs is cancelled.
LEMMA LeavingKeeps ==
  ASSUME IInv, NEW c \in Clients, st[c].fan \in Fans => c \in fans[st[c].fan].signals,
         UNCHANGED <<guarded, rows, unpushed, current, unheard>>,
         fans' \in [Fans -> HouseholdFanout], st' \in [Clients -> Stream],
         \A d \in Clients \ {c} : st'[d] = st[d],
         \A f \in Fans \ {st[c].fan} : fans'[f] = fans[f],
         st[c].fan \in Fans =>
           LET f == st[c].fan IN
           /\ fans'[f].signals = fans[f].signals \ {c} /\ fans'[f].failed = fans[f].failed
           /\ \/ fans'[f].task = fans[f].task /\ fans'[f].dying = fans[f].dying /\ fans'[f].inbox = fans[f].inbox
              \/ /\ fans[f].task \in Live /\ fans[f].signals = {c}
                 /\ fans'[f].task = "none" /\ fans'[f].dying /\ ~fans'[f].inbox
              \/ /\ fans[f].task \notin Live /\ fans[f].signals = {c}
                 /\ fans'[f].task = "none" /\ fans'[f].dying = fans[f].dying /\ fans'[f].inbox = fans[f].inbox,
         SignalFor(c)', HearFor(c)', PollFor(c)'
  PROVE  IInv'
<1>1. TypeInv' /\ UnreadInv'
  BY DEF IInv, TypeInv, UnreadInv, Pending
<1>2. ASSUME NEW f \in Fans
      PROVE  /\ fans'[f].task \in Live \/ fans'[f].dying => f = current'
             /\ fans'[f].task \in Live => ~fans'[f].dying
             /\ fans'[f].inbox => fans'[f].task = "open"
             /\ fans'[f].failed => f # current'
  <2>1. /\ fans[f].task \in Live \/ fans[f].dying => f = current
        /\ fans[f].task \in Live => ~fans[f].dying
        /\ fans[f].inbox => fans[f].task = "open"
        /\ fans[f].failed => f # current
    BY DEF IInv, FanInv
  <2>2. CASE f # st[c].fan
    BY <2>1, <2>2
  <2>3. CASE f = st[c].fan
    BY <2>1, <2>3 DEF Live
  <2> QED
    BY <2>2, <2>3
<1>3. FanInv'
  BY <1>2 DEF FanInv
<1>4. ASSUME NEW d \in Clients \ {c} PROVE st'[d] = st[d] /\ SameFan(d)
  <2>1. CASE st[d].fan = st[c].fan /\ st[c].fan \in Fans /\ d \in fans[st[c].fan].signals
    BY <2>1 DEF SameFan
  <2>2. CASE ~(st[d].fan = st[c].fan /\ st[c].fan \in Fans /\ d \in fans[st[c].fan].signals)
    BY <2>2 DEF SameFan
  <2> QED
    BY <2>1, <2>2
<1> QED
  BY <1>1, <1>3, <1>4, OneMoves DEF IInv

\* detach, for a stream that reads.
LEMMA DetachKeeps ==
  ASSUME IInv, NEW c \in Clients, st[c].pc \in Reading, detach(c),
         UNCHANGED <<guarded, rows, unpushed, current, unheard>>
  PROVE  IInv'
<1> USE Numbers
<1>1. TypeInv /\ SignalFor(c)
  BY DEF IInv, SignalInv
<1>2. st[c].fan \in Fans => c \in fans[st[c].fan].signals
  BY <1>1 DEF SignalFor
<1>3. st'[c].pc \in {"closed", "detaching"} /\ (st'[c].pc = "detaching" => st'[c].fan = st[c].fan /\ st[c].fan \in Fans)
  BY <1>1, DetachIs
<1>4. SignalFor(c)'
  BY <1>3 DEF SignalFor, Reading
<1>5. HearFor(c)' /\ PollFor(c)'
  BY <1>3, NotListening
<1> QED
  BY <1>1, <1>2, <1>4, <1>5, DetachIs, LeavingKeeps

\* Whoever waited for the pump to end is closed, and the pump forgotten.
LEMMA DetachedKeeps == ASSUME IInv, NEW c \in Clients, Detached(c) PROVE IInv'
<1> USE Numbers
<1> DEFINE f == st[c].fan
<1>1. /\ st[c].pc = "detaching" /\ UNCHANGED <<guarded, rows, unpushed, current, unheard>>
      /\ fans' = [fans EXCEPT ![f].dying = FALSE] /\ st' = [st EXCEPT ![c] = Closed(st[c])]
  BY DEF Detached, store
<1>2. f \in Fans /\ st[c] \in Stream
  BY <1>1 DEF IInv, TypeInv, Stream, SignalInv, SignalFor
<1>3. ASSUME NEW g \in Fans
      PROVE  /\ fans'[g] \in HouseholdFanout /\ fans'[g].inbox = fans[g].inbox /\ fans'[g].failed = fans[g].failed
             /\ (fans'[g].dying => fans[g].dying) /\ fans'[g].signals = fans[g].signals
             /\ fans'[g].task = fans[g].task
  BY <1>1, <1>2 DEF IInv, TypeInv, HouseholdFanout
<1>4. /\ st' \in [Clients -> Stream] /\ st'[c].pc = "closed"
      /\ \A d \in Clients \ {c} : st'[d] = st[d]
  BY <1>1, <1>2, ClosedIs DEF IInv, TypeInv
<1>5. TypeInv' /\ UnreadInv'
  BY <1>1, <1>3, <1>4 DEF IInv, TypeInv, UnreadInv, Pending
<1>6. FanInv'
  BY <1>1, <1>3 DEF IInv, FanInv
<1>7. \A d \in Clients \ {c} : st'[d] = st[d] /\ SameFan(d)
  BY <1>3, <1>4 DEF SameFan
<1>8. SignalFor(c)' /\ HearFor(c)' /\ PollFor(c)'
  <2>1. SignalFor(c)'
    BY <1>4 DEF SignalFor, Reading
  <2> QED
    BY <1>4, <2>1, NotListening
<1> QED
  BY <1>1, <1>5, <1>6, <1>7, <1>8, OneMoves DEF IInv

\* A stream that knows its subscription is open reads; one that learns that it
\* failed reads once, without a signal.
LEMMA ReadyKeeps == ASSUME IInv, NEW c \in Clients, Ready(c) PROVE IInv'
<1> USE Numbers
<1> DEFINE f == st[c].fan
<1>1. st[c].pc = "attach" /\ UNCHANGED <<guarded, rows, unpushed, current, unheard>>
  BY DEF Ready, store
<1>2. st[c] \in Stream /\ f \in Fans /\ c \in fans[f].signals /\ ~st[c].last /\ SignalFor(c)
  BY <1>1 DEF IInv, TypeInv, Stream, SignalInv, SignalFor, Reading
<1>3. CASE fans[f].failed
  <2> DEFINE new == [fans[f] EXCEPT !.signals = @ \ {c}, !.task = IF LastOut(c) THEN "none" ELSE @]
             stream == [st[c] EXCEPT !.pc = "read", !.fan = NoFan, !.last = TRUE]
  <2>1. fans' = [fans EXCEPT ![f] = new] /\ st' = [st EXCEPT ![c] = stream]
    BY <1>3 DEF Ready, IInv, TypeInv
  <2>2. stream \in Stream /\ stream.pc = "read" /\ stream.fan = NoFan /\ stream.last
    BY <1>2 DEF Stream
  <2>3. fans[f] \in HouseholdFanout /\ (LastOut(c) => fans[f].signals = {c}) /\ fans[f].task \notin Live
    BY <1>2, <1>3 DEF IInv, TypeInv, LastOut, FanInv
  <2>4. /\ new \in HouseholdFanout /\ new.signals = fans[f].signals \ {c} /\ new.failed = fans[f].failed
        /\ new.dying = fans[f].dying /\ new.inbox = fans[f].inbox
        /\ new.task = IF LastOut(c) THEN "none" ELSE fans[f].task
    BY <2>3 DEF HouseholdFanout
  <2> HIDE DEF new, stream
  <2>5. /\ fans' \in [Fans -> HouseholdFanout] /\ st' \in [Clients -> Stream]
        /\ \A d \in Clients \ {c} : st'[d] = st[d]
        /\ \A g \in Fans \ {f} : fans'[g] = fans[g]
        /\ fans'[f] = new /\ st'[c] = stream
    BY <1>2, <2>1, <2>2, <2>4 DEF IInv, TypeInv
  <2>6. SignalFor(c)'
    BY <2>2, <2>5 DEF SignalFor
  <2>7. HearFor(c)' /\ PollFor(c)'
    BY <2>2, <2>5, NotListening
  <2> QED
    BY <1>1, <1>2, <2>3, <2>4, <2>5, <2>6, <2>7, LeavingKeeps
<1>4. CASE ~fans[f].failed
  <2> DEFINE stream == [st[c] EXCEPT !.pc = "read"]
  <2>1. fans' = fans /\ st' = [st EXCEPT ![c] = stream]
    BY <1>4 DEF Ready, IInv, TypeInv
  <2>2. stream \in Stream /\ stream.pc = "read" /\ stream.fan = f /\ stream.last = st[c].last
    BY <1>2 DEF Stream
  <2> HIDE DEF stream
  <2>3. st'[c] = stream
    BY <2>1 DEF IInv, TypeInv
  <2>4. SignalFor(c)'
    BY <1>2, <2>1, <2>2, <2>3 DEF SignalFor
  <2>5. HearFor(c)' /\ PollFor(c)'
    BY <2>2, <2>3, NotListening
  <2> QED
    BY <1>1, <2>1, <2>2, <2>4, <2>5, StreamMoves
<1> QED
  BY <1>3, <1>4

\* A read takes everything unread after the cursor.
LEMMA DrainKeeps == ASSUME IInv, NEW c \in Clients, Drain(c) PROVE IInv'
<1> USE Numbers
<1> DEFINE stream == [st[c] EXCEPT !.pc = "drain", !.batch = pending_since(st[c].cursor)]
<1>1. /\ st[c].pc = "read" /\ UNCHANGED <<guarded, rows, unpushed, fans, current, unheard>>
      /\ st' = [st EXCEPT ![c] = stream]
  BY DEF Drain, store, fanout, IInv, TypeInv
<1>2. st[c] \in Stream /\ SignalFor(c) /\ st[c].cursor \in Nat
  BY DEF IInv, TypeInv, Stream, SignalInv
<1>3. /\ stream \in Stream /\ stream.pc = "drain" /\ stream.fan = st[c].fan /\ stream.last = st[c].last
      /\ stream.cursor = st[c].cursor /\ stream.batch = pending_since(st[c].cursor)
  BY <1>2 DEF Stream, pending_since
<1> HIDE DEF stream
<1>4. st'[c] = stream
  BY <1>1 DEF IInv, TypeInv
<1>5. SignalFor(c)'
  BY <1>1, <1>2, <1>3, <1>4 DEF SignalFor, Reading
<1>6. HearFor(c)'
  <2> SUFFICES ASSUME NEW n \in Ids, Pending(n)', n \notin st'[c].batch
               PROVE  n <= st'[c].cursor /\ \A b \in st'[c].batch : n < b
    BY DEF HearFor
  <2>1. n <= st[c].cursor
    BY <1>1, <1>2, <1>3, <1>4 DEF pending_since, Pending
  <2>2. \A b \in pending_since(st[c].cursor) : b \in Nat /\ b > st[c].cursor
    BY DEF pending_since
  <2>3. n \in Nat /\ \A b \in pending_since(st[c].cursor) : n < b
    BY <1>2, <2>1, <2>2
  <2> QED
    BY <1>3, <1>4, <2>1, <2>3
<1>7. PollFor(c)'
  BY <1>3, <1>4 DEF PollFor
<1> QED
  BY <1>1, <1>3, <1>5, <1>6, <1>7, StreamMoves

\* A frame moves the cursor to a member of the batch, which is beyond everything
\* the stream passed over.
LEMMA YieldKeeps == ASSUME IInv, NEW c \in Clients, Yield(c) PROVE IInv'
<1> USE Numbers
<1>1. PICK n \in Ids :
        /\ OldestOf(st[c].batch, n)
        /\ st' = [st EXCEPT ![c].batch = @ \ {n}, ![c].cursor = n, ![c].got = @ \cup {n}]
  BY DEF Yield
<1> DEFINE stream == [st[c] EXCEPT !.batch = @ \ {n}, !.cursor = n, !.got = @ \cup {n}]
<1>2. /\ st[c].pc = "drain" /\ UNCHANGED <<guarded, rows, unpushed, fans, current, unheard>>
      /\ st' = [st EXCEPT ![c] = stream]
  BY <1>1 DEF Yield, store, fanout, IInv, TypeInv
<1>3. st[c] \in Stream /\ SignalFor(c) /\ HearFor(c) /\ n \in st[c].batch
  BY <1>1 DEF IInv, TypeInv, SignalInv, HearInv, OldestOf
<1>4. /\ stream \in Stream /\ stream.pc = "drain" /\ stream.fan = st[c].fan /\ stream.last = st[c].last
      /\ stream.cursor = n /\ stream.batch = st[c].batch \ {n} /\ stream.got = st[c].got \cup {n}
      /\ stream.wake = st[c].wake
  BY <1>2, <1>3 DEF Stream
<1> HIDE DEF stream
<1>5. st'[c] = stream
  BY <1>2 DEF IInv, TypeInv
<1>6. SignalFor(c)'
  BY <1>2, <1>3, <1>4, <1>5 DEF SignalFor, Reading
<1>7. HearFor(c)'
  <2> SUFFICES ASSUME ~st'[c].last, ~st'[c].wake, ~fans'[st'[c].fan].inbox,
                      NEW k \in Ids, Pending(k)', k \notin st'[c].got \cup st'[c].batch, ~OnTheWay(k)'
               PROVE  k <= st'[c].cursor /\ \A b \in st'[c].batch : k < b
    BY DEF HearFor
  <2>1. Pending(k) /\ k \notin st[c].got \cup st[c].batch /\ ~OnTheWay(k)
    BY <1>2, <1>4, <1>5 DEF Pending, OnTheWay
  <2>2. ~st[c].last /\ ~st[c].wake /\ ~fans[st[c].fan].inbox
    BY <1>2, <1>4, <1>5
  <2>3. \A b \in st[c].batch : k < b
    BY <1>2, <1>3, <2>1, <2>2 DEF HearFor
  <2> QED
    BY <1>3, <1>4, <1>5, <2>3
<1>8. PollFor(c)'
  BY <1>4, <1>5 DEF PollFor
<1> QED
  BY <1>2, <1>4, <1>6, <1>7, <1>8, StreamMoves

\* The batch is out: the last read ends the stream, another one waits.
LEMMA DrainedKeeps == ASSUME IInv, NEW c \in Clients, Drained(c) PROVE IInv'
<1>1. st[c].pc = "drain" /\ st[c].batch = {} /\ UNCHANGED <<guarded, rows, unpushed, current, unheard>>
  BY DEF Drained, store
<1>2. CASE st[c].last
  BY <1>1, <1>2, DetachKeeps DEF Drained, Reading
<1>3. CASE ~st[c].last
  <2> DEFINE stream == [st[c] EXCEPT !.pc = "wait"]
  <2>1. fans' = fans /\ st' = [st EXCEPT ![c] = stream]
    BY <1>3 DEF Drained, IInv, TypeInv
  <2>2. st[c] \in Stream /\ SignalFor(c) /\ HearFor(c)
    BY DEF IInv, TypeInv, SignalInv, HearInv
  <2>3. /\ stream \in Stream /\ stream.pc = "wait" /\ stream.fan = st[c].fan /\ stream.last = st[c].last
        /\ stream.cursor = st[c].cursor /\ stream.batch = st[c].batch /\ stream.got = st[c].got
        /\ stream.wake = st[c].wake
    BY <2>2 DEF Stream
  <2> HIDE DEF stream
  <2>4. st'[c] = stream
    BY <2>1 DEF IInv, TypeInv
  <2>5. SignalFor(c)'
    BY <1>1, <1>3, <2>1, <2>2, <2>3, <2>4 DEF SignalFor, Reading
  <2>6. HearFor(c)'
    BY <1>1, <2>1, <2>2, <2>3, <2>4 DEF HearFor, Pending, OnTheWay
  <2>7. PollFor(c)'
    BY <2>3, <2>4 DEF PollFor
  <2> QED
    BY <1>1, <2>1, <2>3, <2>5, <2>6, <2>7, StreamMoves
<1> QED
  BY <1>2, <1>3

\* A nudge, a lost signal or a keep-alive: the stream reads again.
LEMMA WokenOrIdleKeeps == ASSUME IInv, NEW c \in Clients, Woken(c) \/ Idle(c) PROVE IInv'
<1>1. /\ st[c].pc = "wait" /\ UNCHANGED <<guarded, rows, unpushed, fans, current, unheard>>
      /\ st[c] \in Stream /\ SignalFor(c)
  BY DEF Woken, Idle, store, fanout, IInv, TypeInv, SignalInv
<1>2. PICK s \in Stream : st' = [st EXCEPT ![c] = s] /\ s.pc = "read" /\ s.fan = st[c].fan
  <2>1. CASE Woken(c)
    <3> DEFINE s == [st[c] EXCEPT !.pc = "read", !.wake = FALSE, !.last = st[c].lost]
    <3>1. s \in Stream /\ s.pc = "read" /\ s.fan = st[c].fan /\ st' = [st EXCEPT ![c] = s]
      BY <1>1, <2>1 DEF Woken, Stream, IInv, TypeInv
    <3> QED
      BY <3>1
  <2>2. CASE Idle(c)
    <3> DEFINE s == [st[c] EXCEPT !.pc = "read"]
    <3>1. s \in Stream /\ s.pc = "read" /\ s.fan = st[c].fan /\ st' = [st EXCEPT ![c] = s]
      BY <1>1, <2>2 DEF Idle, Stream, IInv, TypeInv
    <3> QED
      BY <3>1
  <2> QED
    BY <2>1, <2>2
<1>3. st'[c] = s
  BY <1>2 DEF IInv, TypeInv
<1>4. SignalFor(c)'
  BY <1>1, <1>2, <1>3 DEF SignalFor, Reading
<1>5. HearFor(c)' /\ PollFor(c)'
  BY <1>2, <1>3, NotListening
<1> QED
  BY <1>1, <1>2, <1>4, <1>5, StreamMoves

\* A client that goes away leaves; one cancelled while it attaches takes its
\* signal with it, and its place in the count of signals stays.
LEMMA DisconnectKeeps == ASSUME IInv, NEW c \in Clients, Disconnect(c) PROVE IInv'
<1> USE Numbers
<1>1. st[c].pc \in Reading /\ UNCHANGED <<guarded, rows, unpushed, current, unheard>>
  BY DEF Disconnect, store, Reading
<1>2. CASE st[c].pc # "attach"
  BY <1>1, <1>2, DetachKeeps DEF Disconnect
<1>3. CASE st[c].pc = "attach"
  <2> DEFINE f == st[c].fan
             new == [fans[f] EXCEPT !.signals = @ \ {c}, !.leaked = fans[f].task # "ended"]
  <2>1. st[c] \in Stream /\ f \in Fans /\ c \in fans[f].signals
    BY <1>3 DEF IInv, TypeInv, Stream, SignalInv, SignalFor, Reading
  <2>2. fans' = [fans EXCEPT ![f] = new] /\ st' = [st EXCEPT ![c] = Closed(st[c])]
    BY <1>3 DEF Disconnect, IInv, TypeInv
  <2>3. fans[f] \in HouseholdFanout
    BY <2>1 DEF IInv, TypeInv
  <2>4. /\ new \in HouseholdFanout /\ new.signals = fans[f].signals \ {c} /\ new.failed = fans[f].failed
        /\ new.dying = fans[f].dying /\ new.inbox = fans[f].inbox /\ new.task = fans[f].task
    BY <2>3 DEF HouseholdFanout
  <2> HIDE DEF new
  <2>5. /\ fans' \in [Fans -> HouseholdFanout] /\ st' \in [Clients -> Stream]
        /\ \A d \in Clients \ {c} : st'[d] = st[d]
        /\ \A g \in Fans \ {f} : fans'[g] = fans[g]
        /\ fans'[f] = new /\ st'[c].pc = "closed"
    BY <2>1, <2>2, <2>4, ClosedIs DEF IInv, TypeInv
  <2>6. SignalFor(c)'
    BY <2>5 DEF SignalFor, Reading
  <2>7. HearFor(c)' /\ PollFor(c)'
    BY <2>5, NotListening
  <2> QED
    BY <1>1, <2>1, <2>4, <2>5, <2>6, <2>7, LeavingKeeps
<1> QED
  BY <1>2, <1>3

-----------------------------------------------------------------------------
(* The long poll *)

\* A request moves on; it waits only when a read after its subscription found
\* nothing.
LEMMA PollKeeps == ASSUME IInv, NEW c \in Clients, Request(c) \/ PollStep(c) PROVE IInv'
<1> USE Numbers
<1>1. UNCHANGED <<guarded, rows, unpushed, fans, current, unheard>> /\ st[c] \in Stream
  BY
     DEF Request, PollStep, Subscribe, Reread, Nudged, StopWaiting, store, fanout,
         bounds, IInv, TypeInv
<1>2. PICK s \in Stream : /\ st' = [st EXCEPT ![c] = s]
                          /\ s.pc \in {"subscribe", "reread", "nudged", "final", "closed"}
                               \/ (s.pc = "poll" /\ ~Answerable)
  <2>1. CASE Request(c)
    <3>1. [st[c] EXCEPT !.pc = "subscribe"] \in Stream /\ st' = [st EXCEPT ![c] = [st[c] EXCEPT !.pc = "subscribe"]]
      BY <1>1, <2>1 DEF Request, Stream, PollPc, IInv, TypeInv
    <3> QED
      BY <1>1, <3>1 DEF Stream
  <2>2. CASE Subscribe(c)
    <3>1. [st[c] EXCEPT !.pc = "reread"] \in Stream /\ st' = [st EXCEPT ![c] = [st[c] EXCEPT !.pc = "reread"]]
      BY <1>1, <2>2 DEF Subscribe, Stream, PollPc, IInv, TypeInv
    <3> QED
      BY <1>1, <3>1 DEF Stream
  <2>3. CASE Reread(c) /\ (Answerable \/ st[c].pc = "final")
    <3>1. st' = [st EXCEPT ![c] = Closed(st[c])]
      BY <2>3 DEF Reread
    <3> QED
      BY <1>1, <3>1, ClosedIs
  <2>4. CASE Reread(c) /\ ~(Answerable \/ st[c].pc = "final")
    <3>1. [st[c] EXCEPT !.pc = "poll"] \in Stream /\ st' = [st EXCEPT ![c] = [st[c] EXCEPT !.pc = "poll"]]
      BY <1>1, <2>4 DEF Reread, Stream, PollPc
    <3> QED
      BY <1>1, <2>4, <3>1 DEF Stream
  <2>5. CASE Nudged(c)
    <3> DEFINE s == [st[c] EXCEPT !.pc = "nudged", !.wake = FALSE]
    <3>1. s \in Stream /\ s.pc = "nudged" /\ st' = [st EXCEPT ![c] = s]
      BY <1>1, <2>5 DEF Nudged, Stream, PollPc, IInv, TypeInv
    <3> QED
      BY <3>1
  <2>6. CASE StopWaiting(c)
    <3> DEFINE s == [st[c] EXCEPT !.pc = "final", !.wake = FALSE]
    <3>1. s \in Stream /\ s.pc = "final" /\ st' = [st EXCEPT ![c] = s]
      BY <1>1, <2>6 DEF StopWaiting, Stream, PollPc, IInv, TypeInv
    <3> QED
      BY <3>1
  <2> QED
    BY <2>1, <2>2, <2>3, <2>4, <2>5, <2>6 DEF PollStep
<1>3. st'[c] = s
  BY <1>2 DEF IInv, TypeInv
<1>4. SignalFor(c)'
  BY <1>2, <1>3 DEF SignalFor, Reading
<1>5. HearFor(c)'
  BY <1>2, <1>3 DEF HearFor
<1>6. PollFor(c)'
  BY <1>1, <1>2, <1>3 DEF PollFor, Answerable, Pending
<1> QED
  BY <1>1, <1>2, <1>4, <1>5, <1>6, StreamMoves

-----------------------------------------------------------------------------
\* Nothing is stored, subscribed or awaited at first.
LEMMA InitInv == Init => IInv
<1> SUFFICES ASSUME Init PROVE IInv
  OBVIOUS
<1> USE Numbers
<1>1. NewFan \in HouseholdFanout /\ NewFan.task = "none" /\ ~NewFan.dying /\ ~NewFan.inbox /\ ~NewFan.failed
  BY DEF NewFan, HouseholdFanout
<1>2. NewStream \in Stream /\ NewStream.pc = "closed"
  BY DEF NewStream, Stream
<1>3. \A n \in Ids : ~Pending(n)
  BY DEF Init, Pending
<1>4. TypeInv
  BY <1>1, <1>2 DEF Init, TypeInv, NotificationModel
<1>5. UnreadInv /\ FanInv
  BY <1>1, <1>3 DEF Init, UnreadInv, FanInv, Live
<1>6. SignalInv /\ HearInv /\ PollInv
  BY <1>2 DEF Init, SignalInv, SignalFor, HearInv, HearFor, PollInv, PollFor, Reading
<1> QED
  BY <1>4, <1>5, <1>6 DEF IInv

\* Every step keeps the invariant.
LEMMA StepInv == IInv /\ [Next]_vars => IInv'
<1> SUFFICES ASSUME IInv, [Next]_vars PROVE IInv'
  OBVIOUS
<1>1. ASSUME UNCHANGED vars PROVE IInv'
  <2>1. UNCHANGED <<guarded, rows, unpushed, fans, current, st, unheard>>
    BY <1>1 DEF vars, store, fanout
  <2>2. TypeInv' /\ UnreadInv' /\ FanInv'
    BY <2>1 DEF IInv, TypeInv, UnreadInv, FanInv, Pending
  <2>3. ASSUME NEW c \in Clients PROVE SignalFor(c)' /\ HearFor(c)' /\ PollFor(c)'
    <3>1. NoNews /\ SameClient(c) /\ SameFan(c)
      BY <2>1 DEF NoNews, OnTheWay, Pending, SameClient, SameFan
    <3> QED
      BY <3>1, Kept
  <2> QED
    BY <2>2, <2>3 DEF IInv, SignalInv, HearInv, PollInv
<1>2. ASSUME NEW c \in Clients, Woken(c) \/ Idle(c) \/ Request(c) \/ PollStep(c) PROVE IInv'
  BY <1>2, WokenOrIdleKeeps, PollKeeps
<1> QED
  BY <1>1, <1>2, Cases, HandleKeeps, AcknowledgeKeeps, PushKeeps, PushFailsKeeps,
     PumpSubscribesKeeps, PumpNudgesKeeps,
     PumpFailsKeeps, OpenKeeps, ReadyKeeps, DrainKeeps, YieldKeeps, DrainedKeeps, DetachedKeeps, DisconnectKeeps

\* The inductive invariant holds, for every instance.
THEOREM Inductive == Spec => []IInv
  BY InitInv, StepInv, PTL DEF Spec

\* Neither a long poll nor a stream sleeps over an unread notification without a
\* nudge that will wake it, unless the channel failed or its pump was not
\* subscribed when the nudge came.
THEOREM WakeUpsKept == Spec => []NoLostWakeUp
<1>1. IInv => NoLostWakeUp
  <2> SUFFICES ASSUME IInv PROVE NoLostWakeUp
    OBVIOUS
  <2> USE Numbers
  <2>1. \A c \in Clients : st[c] \in Stream /\ SignalFor(c) /\ HearFor(c) /\ PollFor(c)
    BY DEF IInv, TypeInv, SignalInv, HearInv, PollInv
  <2>2. TypeOK
    <3>1. \A c \in Clients : st[c].cursor \in Ids \cup {0} /\ st[c].got \subseteq Ids
      BY <2>1 DEF Stream
    <3>2. \A c \in Clients : st[c].pc = "wait" => st[c].fan # NoFan /\ c \in fans[st[c].fan].signals
      BY <2>1 DEF SignalFor, Reading
    <3> QED
      BY <3>1, <3>2 DEF IInv, TypeInv, TypeOK
  <2>3. PollHearsOfIt
    BY <2>1 DEF PollFor, OnTheWay, PollHearsOfIt
  <2>4. StreamHearsOfIt
    <3> SUFFICES ASSUME NEW c \in Clients, st[c].pc = "wait", ~st[c].wake, ~fans[st[c].fan].inbox,
                        NEW n \in Ids, Pending(n), n > st[c].cursor, n \notin st[c].got, ~OnTheWay(n)
                 PROVE  FALSE
      BY DEF StreamHearsOfIt, OnTheWay
    <3>1. ~st[c].last /\ st[c].batch = {}
      BY <2>1 DEF SignalFor
    <3>2. n <= st[c].cursor
      BY <2>1, <3>1 DEF HearFor
    <3>3. n \in Nat /\ st[c].cursor \in Nat
      BY <2>1 DEF Stream
    <3> QED
      BY <3>2, <3>3
  <2> QED
    BY <2>2, <2>3, <2>4 DEF NoLostWakeUp
<1> QED
  BY <1>1, Inductive, PTL

\* One unread reminder of a guarded type and plant, and one subscription for the
\* household.
THEOREM OnlyOne == Spec => []OneOfEach
<1>1. IInv => OneOfEach
  <2> SUFFICES ASSUME IInv PROVE OneOfEach
    OBVIOUS
  <2>1. OneUnreadPerPlant
    <3> DEFINE unread == {n \in Ids : Pending(n)}
    <3> SUFFICES ASSUME guarded PROVE Cardinality(unread) <= 1
      BY DEF OneUnreadPerPlant
    <3>1. CASE unread = {}
      BY <3>1, FS_EmptySet
    <3>2. CASE unread # {}
      <4>1. PICK n \in unread : TRUE
        BY <3>2
      <4>2. unread = {n}
        BY <4>1 DEF IInv, UnreadInv
      <4> QED
        BY <4>2, FS_Singleton
    <3> QED
      BY <3>1, <3>2
  <2>2. OneSubscription
    <3> DEFINE Pumps == {f \in Fans : fans[f].task \in {"subscribing", "open"}}
               Dying == {f \in Fans : fans[f].dying}
    <3>1. Pumps \subseteq {current} /\ Dying \subseteq {current} /\ (Pumps = {} \/ Dying = {})
      BY DEF IInv, FanInv, Live
    <3>2. Cardinality({}) = 0 /\ Cardinality({current}) = 1
      BY FS_EmptySet, FS_Singleton
    <3>3. Cardinality(Pumps) + Cardinality(Dying) <= 1
      <4>1. (Pumps = {} \/ Pumps = {current}) /\ (Dying = {} \/ Dying = {current})
        BY <3>1
      <4> HIDE DEF Pumps, Dying
      <4> QED
        BY <3>1, <3>2, <4>1
    <3> QED
      BY <3>3 DEF OneSubscription
  <2> QED
    BY <2>1, <2>2 DEF OneOfEach
<1> QED
  BY <1>1, Inductive, PTL
=============================================================================
