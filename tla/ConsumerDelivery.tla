-------------------------- MODULE ConsumerDelivery --------------------------
(***************************************************************************)
(* One consumer group on one partition: the failure policy a delivery runs *)
(* under, the processed_events ledger that makes it handled once, and the  *)
(* dead-letter topic it is moved aside to and replayed from.               *)
(*                                                                         *)
(* A member of the group takes the delivery at the committed offset,       *)
(* claims it in the ledger, runs the handler and commits both in one       *)
(* transaction, retrying a failure up to a budget and moving the delivery  *)
(* aside when the budget is spent or a domain rule is broken.  The offset  *)
(* moves only when the handler returned.  The two subscriber sets differ   *)
(* in the move-aside: a worker claims, publishes the copy and commits; a   *)
(* Django projection publishes the copy and then claims.                   *)
(*                                                                         *)
(* A delivery that triggers a saga commits its claim in the middle of the  *)
(* handler, with SagaStarted: what fails after that is not handled again,  *)
(* it is the saga's own to retry (SagaRecovery).                           *)
(*                                                                         *)
(* The broker may hand a delivery to a second member while the first still *)
(* works on it (a rebalance), a member may die at any point, a commit or a *)
(* publish may fail or succeed unseen, and an operator may replay what is  *)
(* on the dead-letter topic.                                               *)
(***************************************************************************)
EXTENDS Integers, Sequences

CONSTANTS
    Sides,                \* "write": workers/consumers.py; "read": admin/projections
    Members,              \* processes of the group
    Events,               \* the deliveries this group handles
    RuleBreakers,         \* those whose handler raises a DomainError
    Triggers,             \* those that start a saga, where the group is a saga's
    Foreign,              \* deliveries of the topic that are not this group's
    InitialTopic,         \* the partition's log at the start
    ConsumerMaxAttempts,  \* settings.consumer_max_attempts
    MaxDeliveryFaults,    \* bound: transient failures
    MaxMemberCrashes,     \* bound: members that die
    MaxReplays            \* bound: how often an operator replays one delivery's copy

ASSUME DeliveryAssumption ==
    /\ Sides \subseteq {"write", "read"}
    /\ RuleBreakers \subseteq Events
    /\ Triggers \subseteq Events
    /\ Foreign \cap Events = {}
    /\ InitialTopic \in Seq(Events \cup Foreign)
    /\ ConsumerMaxAttempts \in Nat \ {0}
    /\ MaxDeliveryFaults \in Nat
    /\ MaxMemberCrashes \in Nat
    /\ MaxReplays \in Nat

VARIABLES
    side,       \* the subscriber set this group belongs to
    topic,      \* the partition's log
    offset,     \* the group's committed offset: the next position to deliver
    ledger,     \* processed_events rows of this group
    applied,    \* history: how often the handler's writes, or its SagaStarted, were committed
    copies,     \* copies on the dead-letter topic
    failures,   \* history: attempts at a delivery that failed transiently
    phase,      \* where each member is in its delivery
    position,   \* the delivery each member holds
    attempt,    \* run_with_failure_policy's counter
    replaying,  \* the copy whose claim the operator's command has cleared
    deliveryFaults, memberCrashes,  \* what is left of the bounds
    replays     \* history: how often the operator cleared each claim

store == <<ledger, applied>>
member == <<phase, position, attempt>>
deliveryBounds == <<deliveryFaults, memberCrashes, replays>>
deliveryVars == <<side, topic, offset, store, copies, failures, member, replaying, deliveryBounds>>

NoEvent == "none"
Delivery(m) == topic[position[m]]

\* handle_event of a saga: its steps run after the claim is committed.
Starts(m) == side = "write" /\ Delivery(m) \in Triggers

\* Members whose open transaction has inserted a ledger row.
Claiming == IF side = "write"
            THEN {"handle", "commit", "copy", "asideCommit"}
            ELSE {"handle", "commit"}

DeliveryInit ==
    /\ side \in Sides
    /\ topic = InitialTopic
    /\ offset = 1
    /\ ledger = {}
    /\ applied = [e \in Events |-> 0]
    /\ copies = [e \in Events |-> 0]
    /\ failures = [e \in Events |-> 0]
    /\ phase = [m \in Members |-> "idle"]
    /\ position = [m \in Members |-> 0]
    /\ attempt = [m \in Members |-> 0]
    /\ replaying = NoEvent
    /\ deliveryFaults = MaxDeliveryFaults /\ memberCrashes = MaxMemberCrashes
    /\ replays = [e \in Events |-> 0]

Goto(m, p) == phase' = [phase EXCEPT ![m] = p]

\* Mutant: the ledger is looked up before the handler runs, without a lock.
ClaimUnlocked(m, e) == TRUE

\* The insert of a ledger row waits for another transaction's insert of it.
ClaimFree(m, e) ==
    \A n \in Members \ {m} : phase[n] \in Claiming => Delivery(n) # e

-----------------------------------------------------------------------------
(* One delivery, under the failure policy. *)

\* The delivery decodes into an event of a type the group handles.
Decodes(delivery) == delivery \in Events

\* Any other delivery is acknowledged without a transaction.
Deliver(m) ==
    /\ phase[m] = "idle" /\ offset <= Len(topic)
    /\ position' = [position EXCEPT ![m] = offset]
    /\ attempt' = [attempt EXCEPT ![m] = 1]
    /\ Goto(m, IF Decodes(topic[offset]) THEN "claim" ELSE "ack")
    /\ UNCHANGED <<topic, offset, store, copies, failures, replaying, deliveryBounds>>

Claim(m) ==
    /\ phase[m] = "claim" /\ ClaimFree(m, Delivery(m))
    /\ Goto(m, IF Delivery(m) \in ledger THEN "ack" ELSE "handle")
    /\ UNCHANGED <<topic, offset, store, copies, failures, position, attempt,
                   replaying, deliveryBounds>>

Handle(m) ==
    /\ phase[m] = "handle" /\ ~Starts(m)
    /\ Goto(m, "commit")
    /\ UNCHANGED <<topic, offset, store, copies, failures, position, attempt,
                   replaying, deliveryBounds>>

\* A handler that is not a saga raises with its claim uncommitted; the steps of
\* a saga raise with the claim in the ledger, where the move-aside finds it.
Raises(m) ==
    /\ phase[m] \in {"handle", "run"} /\ Delivery(m) \in RuleBreakers
    /\ phase[m] = "run" <=> Starts(m)

\* Mutant: a broken rule is retried without a budget.
HandleBreaksRuleRetried(m) ==
    /\ Raises(m)
    /\ Goto(m, "claim")
    /\ UNCHANGED <<topic, offset, store, copies, failures, position, attempt,
                   replaying, deliveryBounds>>

HandleBreaksRule(m) ==
    /\ Raises(m)
    /\ Goto(m, "aside")
    /\ UNCHANGED <<topic, offset, store, copies, failures, position, attempt,
                   replaying, deliveryBounds>>

\* Mutant: one attempt less than the budget.
AttemptFailedOneLess(m) ==
    /\ failures' = [failures EXCEPT ![Delivery(m)] = @ + 1]
    /\ IF attempt[m] + 1 >= ConsumerMaxAttempts
       THEN Goto(m, "aside") /\ UNCHANGED attempt
       ELSE Goto(m, "claim") /\ attempt' = [attempt EXCEPT ![m] = @ + 1]

\* The except branch of the policy, for anything but a DomainError.
AttemptFailed(m) ==
    /\ failures' = [failures EXCEPT ![Delivery(m)] = @ + 1]
    /\ IF attempt[m] >= ConsumerMaxAttempts
       THEN Goto(m, "aside") /\ UNCHANGED attempt
       ELSE Goto(m, "claim") /\ attempt' = [attempt EXCEPT ![m] = @ + 1]

Fault == deliveryFaults > 0 /\ deliveryFaults' = deliveryFaults - 1

HandleFails(m) ==
    /\ phase[m] = "handle" /\ Fault
    /\ AttemptFailed(m)
    /\ UNCHANGED <<topic, offset, store, copies, position, replaying, memberCrashes, replays>>

Store(m) ==
    /\ ledger' = ledger \cup {Delivery(m)}
    /\ applied' = [applied EXCEPT ![Delivery(m)] = @ + 1]

Commit(m) ==
    /\ phase[m] = "commit"
    /\ Store(m)
    /\ Goto(m, "ack")
    /\ UNCHANGED <<topic, offset, copies, failures, position, attempt, replaying, deliveryBounds>>

CommitFails(m) ==
    /\ phase[m] = "commit" /\ Fault
    /\ AttemptFailed(m)
    /\ UNCHANGED <<topic, offset, store, copies, position, replaying, memberCrashes, replays>>

\* SagaStarted is committed before the engine opens its run, and the claim of the
\* delivery with it.
StartsSaga(m) ==
    /\ phase[m] = "handle" /\ Starts(m)
    /\ Store(m)
    /\ Goto(m, "run")
    /\ UNCHANGED <<topic, offset, copies, failures, position, attempt, replaying, deliveryBounds>>

RunEnds(m) ==
    /\ phase[m] = "run"
    /\ Goto(m, "ack")
    /\ UNCHANGED <<topic, offset, store, copies, failures, position, attempt,
                   replaying, deliveryBounds>>

\* Recorded as SagaFailed, compensated and raised again: the attempt that follows
\* stops at the claim.
RunFails(m) ==
    /\ phase[m] = "run" /\ Fault
    /\ AttemptFailed(m)
    /\ UNCHANGED <<topic, offset, store, copies, position, replaying, memberCrashes, replays>>

\* The database commits and the connection is lost before it says so.
CommitUnseen(m) ==
    /\ phase[m] = "commit" \/ (phase[m] = "handle" /\ Starts(m))
    /\ Fault
    /\ Store(m)
    /\ AttemptFailed(m)
    /\ UNCHANGED <<topic, offset, copies, position, replaying, memberCrashes, replays>>

-----------------------------------------------------------------------------
(* move_aside, of either side.  What it raises leaves the handler: the broker *)
(* seeks back and offers the delivery again.                                 *)

AsideClaim(m) ==
    /\ phase[m] = "aside"
    /\ IF side = "write"
       THEN /\ ClaimFree(m, Delivery(m))
            /\ Goto(m, IF Delivery(m) \in ledger THEN "ack" ELSE "copy")
       ELSE Goto(m, "copy")
    /\ UNCHANGED <<topic, offset, store, copies, failures, position, attempt,
                   replaying, deliveryBounds>>

StoreCopy(m) == copies' = [copies EXCEPT ![Delivery(m)] = @ + 1]

PublishCopy(m) ==
    /\ phase[m] = "copy"
    /\ StoreCopy(m)
    /\ Goto(m, "asideCommit")
    /\ UNCHANGED <<topic, offset, store, failures, position, attempt, replaying, deliveryBounds>>

\* Mutant: a copy the broker refused is logged and the delivery acknowledged.
PublishCopyFailureSwallowed(m) ==
    /\ phase[m] = "copy" /\ Fault
    /\ Goto(m, "ack")
    /\ UNCHANGED <<topic, offset, store, copies, failures, position, attempt, replaying,
                   memberCrashes, replays>>

PublishCopyFails(m) ==
    /\ phase[m] = "copy" /\ Fault
    /\ StoreCopy(m) \/ UNCHANGED copies
    /\ Goto(m, "idle")
    /\ UNCHANGED <<topic, offset, store, failures, position, attempt, replaying,
                   memberCrashes, replays>>

AsideCommit(m) ==
    /\ phase[m] = "asideCommit" /\ ClaimFree(m, Delivery(m))
    /\ ledger' = ledger \cup {Delivery(m)}
    /\ Goto(m, "ack")
    /\ UNCHANGED <<topic, offset, applied, copies, failures, position, attempt,
                   replaying, deliveryBounds>>

AsideCommitFails(m) ==
    /\ phase[m] = "asideCommit" /\ ClaimFree(m, Delivery(m)) /\ Fault
    /\ ledger' \in {ledger, ledger \cup {Delivery(m)}}
    /\ Goto(m, "idle")
    /\ UNCHANGED <<topic, offset, applied, copies, failures, position, attempt,
                   replaying, memberCrashes, replays>>

-----------------------------------------------------------------------------
(* The broker, the processes and the operator. *)

\* The offset of a returned handler.  A member that lost the partition commits
\* nothing the group has not already passed.
Ack(m) ==
    /\ phase[m] = "ack"
    /\ offset' = IF offset = position[m] THEN offset + 1 ELSE offset
    /\ Goto(m, "idle")
    /\ UNCHANGED <<topic, store, copies, failures, position, attempt, replaying, deliveryBounds>>

MemberCrash(m) ==
    /\ phase[m] # "idle" /\ memberCrashes > 0
    /\ memberCrashes' = memberCrashes - 1
    /\ Goto(m, "idle")
    /\ UNCHANGED <<topic, offset, store, copies, failures, position, attempt,
                   replaying, deliveryFaults, replays>>

\* What a run of tools/dlq.py reads and may select: the whole topic, since it
\* commits no offset and so offers a copy that was replayed before again.
Selectable == {e \in Events : copies[e] > 0}

\* The replay of one copy: clear_claim, then the publish.
ReplayClearsClaim(e) ==
    /\ replaying = NoEvent /\ e \in Selectable /\ replays[e] < MaxReplays
    /\ replays' = [replays EXCEPT ![e] = @ + 1]
    /\ ledger' = ledger \ {e}
    /\ replaying' = e
    /\ UNCHANGED <<topic, offset, applied, copies, failures, member, deliveryFaults, memberCrashes>>

ReplayPublishes ==
    /\ replaying # NoEvent
    /\ topic' = Append(topic, replaying)
    /\ replaying' = NoEvent
    /\ UNCHANGED <<offset, store, copies, failures, member, deliveryBounds>>

ReplayDies ==
    /\ replaying # NoEvent /\ memberCrashes > 0
    /\ memberCrashes' = memberCrashes - 1
    /\ replaying' = NoEvent
    /\ UNCHANGED <<topic, offset, store, copies, failures, member, deliveryFaults, replays>>

-----------------------------------------------------------------------------
Attempt(m) ==
    \/ Deliver(m) \/ Claim(m)
    \/ Handle(m) \/ HandleBreaksRule(m) \/ HandleFails(m)
    \/ Commit(m) \/ CommitFails(m) \/ CommitUnseen(m)
    \/ StartsSaga(m) \/ RunEnds(m) \/ RunFails(m)

MoveAside(m) ==
    \/ AsideClaim(m)
    \/ PublishCopy(m) \/ PublishCopyFails(m)
    \/ AsideCommit(m) \/ AsideCommitFails(m)

MemberStep(m) == Attempt(m) \/ MoveAside(m) \/ Ack(m)

Operator == (\E e \in Events : ReplayClearsClaim(e)) \/ ReplayPublishes \/ ReplayDies

DeliveryNext ==
    /\ (\E m \in Members : MemberStep(m) \/ MemberCrash(m)) \/ Operator
    /\ UNCHANGED side

DeliverySpec == DeliveryInit /\ [][DeliveryNext]_deliveryVars

(***************************************************************************)
(* Fairness.  A live member keeps working and the broker offers what is    *)
(* not acknowledged; nothing obliges the operator to replay.               *)
(***************************************************************************)
DeliveryFairSpec == DeliverySpec /\ \A m \in Members : WF_deliveryVars(MemberStep(m) /\ UNCHANGED side)

-----------------------------------------------------------------------------
Phases == {"idle", "claim", "handle", "run", "commit", "aside", "copy", "asideCommit", "ack"}

(* Every column and counter holds what the code can put there, and a member at
   work holds a delivery of the log that, unless it is only acknowledging it,
   is one its group handles. *)
DeliveryTypeOK ==
    /\ topic \in Seq(Events \cup Foreign)
    /\ offset \in 1..(Len(topic) + 1)
    /\ ledger \subseteq Events
    /\ applied \in [Events -> Nat]
    /\ copies \in [Events -> Nat]
    /\ failures \in [Events -> Nat]
    /\ phase \in [Members -> Phases]
    /\ position \in [Members -> 0..Len(topic)]
    /\ attempt \in [Members -> 0..ConsumerMaxAttempts]
    /\ replaying \in Events \cup {NoEvent}
    /\ deliveryFaults \in 0..MaxDeliveryFaults /\ memberCrashes \in 0..MaxMemberCrashes
    /\ replays \in [Events -> 0..MaxReplays]
    /\ \A m \in Members :
         phase[m] # "idle" =>
           /\ position[m] \in 1..Len(topic)
           /\ phase[m] # "ack" => Delivery(m) \in Events

(* A delivery is handled once, and once more for each time an operator cleared
   its claim: redeliveries, rebalances, lost acknowledgements and crashes never
   commit the handler's writes, or a saga's start, a second time. *)
AppliedOnce == \A e \in Events : applied[e] <= 1 + replays[e]

(* Nothing is dropped silently: a ledger row says that the delivery was handled,
   that its saga was started, or that its copy is on the dead-letter topic. *)
ClaimMeansDecided == \A e \in ledger : applied[e] > 0 \/ copies[e] > 0

(* The partition never moves past a delivery of this group that was neither
   handled (its saga started, where it triggers one) nor copied aside. *)
NothingSkipped ==
    \A p \in 1..(offset - 1) :
      topic[p] \in Events => applied[topic[p]] > 0 \/ copies[topic[p]] > 0

(* A delivery that breaks no domain rule is moved aside only after a full
   budget of failed attempts. *)
AsideOnlyAfterBudget ==
    \A e \in Events \ RuleBreakers : copies[e] > 0 => failures[e] >= ConsumerMaxAttempts

(* The policy never blocks the partition: every delivery of the log is
   eventually acknowledged, whatever it does to its handler. *)
PartitionMovesOn == <>[](offset > Len(topic))

(* A delivery leaves the partition handled or copied aside: a ledger row is
   never a claim on work that was not done, and the offset never passes a
   delivery that is neither. *)
NothingDroppedOrSkipped == ClaimMeansDecided /\ NothingSkipped

(* A delivery is handled once.  docs/adr/0011-consumer-failure-policy.md:43-44
   gives the claim to a delivery that was moved aside "so it is neither retried
   forever nor handled twice", and :106 says "a delivery is handled once or it is
   somewhere an operator can see".  replay_copy clears the claim of any copy it
   is asked to replay, and a copy says nothing of what became of its delivery:
   one the broker stored although the publish failed stands for a delivery that
   was then redelivered and handled, and one replayed before is offered again. *)
NeverHandledTwice == \A e \in Events : applied[e] <= 1
=============================================================================
