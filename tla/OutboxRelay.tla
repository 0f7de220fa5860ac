----------------------------- MODULE OutboxRelay -----------------------------
(***************************************************************************)
(* The transactional outbox and the relay that empties it into Kafka.      *)
(*                                                                         *)
(* Writers append rows inside their own transaction and commit them with   *)
(* the state change that produced them (persistence/uow.py,                *)
(* persistence/repositories/outbox.py).  Several relays poll the table,    *)
(* claim rows under a lease, publish each one, record the outcome and      *)
(* commit it (messaging/relay.py).  The row id is drawn from an identity   *)
(* sequence when the insert is flushed, before the transaction commits, so *)
(* id order and commit order are different orders.                         *)
(*                                                                         *)
(* The broker may refuse a message, or accept it and lose the              *)
(* acknowledgement.  A relay may die, or its database call may fail, at    *)
(* any point; both close the session and roll the open transaction back.   *)
(***************************************************************************)
EXTENDS Integers, Sequences, FiniteSets

CONSTANTS
    Relays,                     \* relay processes (several during a deploy)
    Writers,                    \* write-side transactions
    LockingWriters,             \* the ones that hold the aggregate's row lock
                                \* (get_for_update); plants.get and the missed-care
                                \* tick's list_due_without_pending_window take none
    Keys,                       \* partition keys
    Refused,                    \* keys whose topic refuses every publish
    RefusedDlq,                 \* keys whose dead-letter copy, with its added headers, is refused
    MaxRows,                    \* bound: ids the identity sequence hands out
    BatchSize,                  \* settings.outbox_batch_size
    PUBLISH_ATTEMPTS_PER_CYCLE, \* tries inside one poll
    MaxAttempts,                \* settings.outbox_max_attempts
    AttemptsLimit,              \* largest value of the smallint column
    MaxFaults,                  \* bound: transient broker errors
    MaxCrashes,                 \* bound: relay deaths
    MaxLapses                   \* bound: leases that run out under a live relay

Rows == 1 .. MaxRows
NoRow == 0

ASSUME ConstantsAssumption ==
    /\ MaxRows \in Nat
    /\ BatchSize \in Nat \ {0}
    /\ PUBLISH_ATTEMPTS_PER_CYCLE \in Nat \ {0}
    /\ MaxAttempts \in Nat \ {0}
    /\ AttemptsLimit \in Nat
    /\ MaxAttempts =< AttemptsLimit
    /\ MaxFaults \in Nat
    /\ MaxCrashes \in Nat
    /\ MaxLapses \in Nat
    /\ LockingWriters \subseteq Writers
    /\ Refused \subseteq Keys
    /\ RefusedDlq \subseteq Keys
    /\ Keys # {}
    /\ Writers # {}

VARIABLES
    \* the table write_shared.outbox
    nextId,         \* the identity sequence
    owner,          \* the transaction that inserted the row
    partitionKey,   \* the row's partition_key column
    vis,            \* "none", "staged" (flushed), "committed", "aborted"
    overlapping,    \* history: pairs of rows of one key, the first staged by
                    \* another transaction when the second drew its id
    publishedAt,    \* published_at IS NOT NULL
    deadLetteredAt, \* dead_lettered_at IS NOT NULL
    attempts,       \* the attempts column
    claimedAt,      \* "null", "leased", "lapsed" (older than the lease)
    \* the broker
    log,            \* rows accepted by their topic, in order of acceptance
    dlq,            \* rows accepted by the dead-letter topic
    \* each relay's run_once
    pc,             \* where it is
    batch,          \* rows it claimed and has not recorded an outcome for
    cur,            \* the row being delivered
    snap,           \* OutboxMessage.attempts, as read when the row was claimed
    locked,         \* the claiming transaction is still open
    tries,          \* tenacity's attempt counter
    \* what is left of the bounds
    faults, crashes, lapses

table == <<nextId, owner, partitionKey, vis, overlapping>>
outcome == <<publishedAt, deadLetteredAt, attempts>>
broker == <<log, dlq>>
relay == <<pc, batch, cur, snap, locked, tries>>
bounds == <<faults, crashes, lapses>>
vars == <<table, outcome, claimedAt, broker, relay, bounds>>

PCs == {"idle", "claimed", "publish", "published",
        "failed", "abandoned", "dlq_failed"}

\* Every column and every local of run_once holds what the code can put there;
\* in particular the retry counter never passes PUBLISH_ATTEMPTS_PER_CYCLE and
\* the attempts column never passes what a smallint holds.
TypeOK ==
    /\ nextId \in 1 .. MaxRows + 1
    /\ owner \in [Rows -> Writers]
    /\ partitionKey \in [Rows -> Keys]
    /\ vis \in [Rows -> {"none", "staged", "committed", "aborted"}]
    /\ overlapping \subseteq Rows \X Rows
    /\ publishedAt \in [Rows -> BOOLEAN]
    /\ deadLetteredAt \in [Rows -> BOOLEAN]
    /\ attempts \in [Rows -> 0 .. AttemptsLimit]
    /\ claimedAt \in [Rows -> {"null", "leased", "lapsed"}]
    /\ log \in Seq(Rows)
    /\ dlq \in SUBSET Rows
    /\ pc \in [Relays -> PCs]
    /\ batch \in [Relays -> SUBSET Rows]
    /\ cur \in [Relays -> Rows \cup {NoRow}]
    /\ snap \in [Relays -> [Rows -> 0 .. AttemptsLimit]]
    /\ locked \in [Relays -> BOOLEAN]
    /\ tries \in [Relays -> 0 .. PUBLISH_ATTEMPTS_PER_CYCLE]
    /\ faults \in 0 .. MaxFaults
    /\ crashes \in 0 .. MaxCrashes
    /\ lapses \in 0 .. MaxLapses

Init ==
    /\ nextId = 1
    /\ owner = [i \in Rows |-> CHOOSE w \in Writers : TRUE]
    /\ partitionKey = [i \in Rows |-> CHOOSE k \in Keys : TRUE]
    /\ vis = [i \in Rows |-> "none"]
    /\ overlapping = {}
    /\ publishedAt = [i \in Rows |-> FALSE]
    /\ deadLetteredAt = [i \in Rows |-> FALSE]
    /\ attempts = [i \in Rows |-> 0]
    /\ claimedAt = [i \in Rows |-> "null"]
    /\ log = << >>
    /\ dlq = {}
    /\ pc = [r \in Relays |-> "idle"]
    /\ batch = [r \in Relays |-> {}]
    /\ cur = [r \in Relays |-> NoRow]
    /\ snap = [r \in Relays |-> [i \in Rows |-> 0]]
    /\ locked = [r \in Relays |-> FALSE]
    /\ tries = [r \in Relays |-> 0]
    /\ faults = 0
    /\ crashes = 0
    /\ lapses = 0

-----------------------------------------------------------------------------
(***************************************************************************)
(* The write side.                                                         *)
(***************************************************************************)

\* Another transaction holds the row lock of the aggregate k identifies.  A
\* writer that took the lock keeps it until it commits or rolls back.
LockedByAnother(w, k) ==
    \E i \in Rows : /\ vis[i] = "staged"
                    /\ partitionKey[i] = k
                    /\ owner[i] \in LockingWriters \ {w}

\* Rows of k that transactions other than w have flushed and not committed.
StagedBeside(w, k) ==
    {i \in Rows : vis[i] = "staged" /\ partitionKey[i] = k /\ owner[i] # w}

\* SqlAlchemyOutboxRepository.append, flushed: the row takes the next id and is
\* invisible to everyone else until w commits.
AppendRow(w, k) ==
    /\ nextId \in Rows
    /\ w \in LockingWriters => ~LockedByAnother(w, k)
    /\ owner' = [owner EXCEPT ![nextId] = w]
    /\ partitionKey' = [partitionKey EXCEPT ![nextId] = k]
    /\ vis' = [vis EXCEPT ![nextId] = "staged"]
    /\ nextId' = nextId + 1
    /\ overlapping' = overlapping \cup (StagedBeside(w, k) \X {nextId})
    /\ UNCHANGED <<outcome, claimedAt, broker, relay, bounds>>

StagedBy(w) == {i \in Rows : vis[i] = "staged" /\ owner[i] = w}

EndTx(w, v) ==
    /\ StagedBy(w) # {}
    /\ vis' = [i \in Rows |-> IF i \in StagedBy(w) THEN v ELSE vis[i]]
    /\ UNCHANGED <<nextId, owner, partitionKey, overlapping, outcome, claimedAt,
                   broker, relay, bounds>>

\* SqlAlchemyUnitOfWork.commit reaches the database.
CommitTx(w) == EndTx(w, "committed")

\* ... or the transaction is rolled back; the ids it drew are never reused.
RollbackTx(w) == EndTx(w, "aborted")

-----------------------------------------------------------------------------
(***************************************************************************)
(* fetch_unpublished.                                                      *)
(***************************************************************************)

Pending(i) == vis[i] = "committed" /\ ~publishedAt[i] /\ ~deadLetteredAt[i]

\* Mutant: a lease that is never taken over.
LeaseOnlyNull(i) == claimedAt[i] = "null"

LeaseExpired(i) == claimedAt[i] # "leased"

\* Mutant: a predecessor that failed once no longer holds its key back.
BlockedByUntried(i) ==
    \E h \in Rows : /\ h < i /\ partitionKey[h] = partitionKey[i]
                    /\ Pending(h) /\ attempts[h] = 0

\* An older row with the same key still needs publishing.  A row another
\* transaction has staged is not seen.
Blocked(i) ==
    \E h \in Rows : h < i /\ partitionKey[h] = partitionKey[i] /\ Pending(h)

\* Row locks of a claiming transaction that has not committed yet.
RowLocked(i, r) == \E q \in Relays \ {r} : locked[q] /\ i \in batch[q]

\* Mutant: SELECT without FOR UPDATE SKIP LOCKED.
ClaimableUnlocked(i, r) ==
    /\ Pending(i)
    /\ ~Blocked(i)
    /\ LeaseExpired(i)

Claimable(i, r) ==
    /\ Pending(i)
    /\ ~Blocked(i)
    /\ LeaseExpired(i)
    /\ ~RowLocked(i, r)      \* FOR UPDATE SKIP LOCKED

\* ORDER BY id LIMIT n
Oldest(S, n) == {i \in S : Cardinality({h \in S : h < i}) < n}

ClaimableRows(r) == {i \in Rows : Claimable(i, r)}

\* The claim is written by this transaction and visible with its first commit;
\* until then the row locks are what keeps the other relays off the rows.
Fetch(r) ==
    /\ pc[r] = "idle"
    /\ ClaimableRows(r) # {}
    /\ LET rows == Oldest(ClaimableRows(r), BatchSize)
       IN /\ batch' = [batch EXCEPT ![r] = rows]
          /\ snap' = [snap EXCEPT ![r] =
                         [i \in Rows |-> IF i \in rows THEN attempts[i] ELSE 0]]
    /\ locked' = [locked EXCEPT ![r] = TRUE]
    /\ pc' = [pc EXCEPT ![r] = "claimed"]
    /\ UNCHANGED <<table, outcome, claimedAt, broker, cur, tries, bounds>>

\* The next message of run_once's loop.  UPDATE ... RETURNING promises no order.
Take(r) ==
    /\ pc[r] = "claimed"
    /\ \E i \in batch[r] : cur' = [cur EXCEPT ![r] = i]
    /\ pc' = [pc EXCEPT ![r] = "publish"]
    /\ tries' = [tries EXCEPT ![r] = 0]
    /\ UNCHANGED <<table, outcome, claimedAt, broker, batch, snap, locked, bounds>>

-----------------------------------------------------------------------------
(***************************************************************************)
(* _publish_with_retry and the dead-letter copy.                           *)
(***************************************************************************)

\* Kafka acknowledges the message.
PublishAck(r) ==
    /\ pc[r] = "publish"
    /\ partitionKey[cur[r]] \notin Refused
    /\ log' = Append(log, cur[r])
    /\ pc' = [pc EXCEPT ![r] = "published"]
    /\ UNCHANGED <<table, outcome, claimedAt, dlq, batch, cur, snap, locked,
                   tries, bounds>>

\* One try has failed: tenacity tries again or re-raises.
TryFailed(r) ==
    /\ tries' = [tries EXCEPT ![r] = tries[r] + 1]
    /\ pc' = [pc EXCEPT ![r] = IF tries[r] + 1 < PUBLISH_ATTEMPTS_PER_CYCLE
                               THEN "publish" ELSE "failed"]
    /\ UNCHANGED <<table, outcome, claimedAt, dlq, batch, cur, snap, locked,
                   crashes, lapses>>

\* The message is written to the topic and the acknowledgement is lost.
PublishLostAck(r) ==
    /\ pc[r] = "publish"
    /\ faults < MaxFaults
    /\ partitionKey[cur[r]] \notin Refused
    /\ log' = Append(log, cur[r])
    /\ faults' = faults + 1
    /\ TryFailed(r)

PublishRefused(r) ==
    /\ pc[r] = "publish"
    /\ \/ faults < MaxFaults /\ faults' = faults + 1
       \/ partitionKey[cur[r]] \in Refused /\ faults' = faults
    /\ log' = log
    /\ TryFailed(r)

\* Mutant: the failed poll is counted twice against the budget.
BudgetLeftOneLess(r) == snap[r][cur[r]] + 2 < MaxAttempts

\* message.attempts + 1 < outbox_max_attempts, on the value read at the claim.
BudgetLeft(r) == snap[r][cur[r]] + 1 < MaxAttempts

DeadLetterAck(r) ==
    /\ pc[r] = "failed" /\ ~BudgetLeft(r)
    /\ partitionKey[cur[r]] \notin RefusedDlq
    /\ dlq' = dlq \cup {cur[r]}
    /\ pc' = [pc EXCEPT ![r] = "abandoned"]
    /\ UNCHANGED <<table, outcome, claimedAt, log, batch, cur, snap, locked,
                   tries, bounds>>

\* Mutant: a failed copy is treated as a copy.
DeadLetterFailureIgnored(r) ==
    /\ pc[r] = "failed" /\ ~BudgetLeft(r)
    /\ faults < MaxFaults /\ faults' = faults + 1
    /\ pc' = [pc EXCEPT ![r] = "abandoned"]
    /\ UNCHANGED <<table, outcome, claimedAt, log, dlq, batch, cur, snap,
                   locked, tries, crashes, lapses>>

\* publish_dead_letter raises; the copy may have been written all the same.
DeadLetterFailed(r) ==
    /\ pc[r] = "failed" /\ ~BudgetLeft(r)
    /\ \/ /\ faults < MaxFaults /\ faults' = faults + 1
          /\ \/ dlq' = dlq
             \/ /\ partitionKey[cur[r]] \notin RefusedDlq
                /\ dlq' = dlq \cup {cur[r]}
       \/ partitionKey[cur[r]] \in RefusedDlq /\ UNCHANGED <<faults, dlq>>
    /\ pc' = [pc EXCEPT ![r] = "dlq_failed"]
    /\ UNCHANGED <<table, outcome, claimedAt, log, batch, cur, snap, locked,
                   tries, crashes, lapses>>

-----------------------------------------------------------------------------
(***************************************************************************)
(* The end of deliver: the outcome, release_claim and the commit are one   *)
(* transaction.  The first commit of a batch also makes its claims visible *)
(* and drops its row locks.  None of the updates checks who holds the      *)
(* lease; an update of a row another relay has locked waits.               *)
(***************************************************************************)

ReleaseAndCommit(r) ==
    /\ ~RowLocked(cur[r], r)
    /\ claimedAt' = [i \in Rows |->
                        IF i = cur[r] THEN "null"
                        ELSE IF locked[r] /\ i \in batch[r] THEN "leased"
                        ELSE claimedAt[i]]
    /\ batch' = [batch EXCEPT ![r] = batch[r] \ {cur[r]}]
    /\ snap' = [snap EXCEPT ![r] = [snap[r] EXCEPT ![cur[r]] = 0]]
    /\ cur' = [cur EXCEPT ![r] = NoRow]
    /\ locked' = [locked EXCEPT ![r] = FALSE]
    /\ tries' = [tries EXCEPT ![r] = 0]
    /\ pc' = [pc EXCEPT ![r] = IF batch[r] \ {cur[r]} = {} THEN "idle"
                               ELSE "claimed"]
    /\ UNCHANGED <<table, broker, bounds>>

MarkPublished(r) ==
    /\ pc[r] = "published"
    /\ publishedAt' = [publishedAt EXCEPT ![cur[r]] = TRUE]
    /\ UNCHANGED <<deadLetteredAt, attempts>>
    /\ ReleaseAndCommit(r)

DeadLetter(r) ==
    /\ pc[r] = "abandoned"
    /\ deadLetteredAt' = [deadLetteredAt EXCEPT ![cur[r]] = TRUE]
    /\ UNCHANGED <<publishedAt, attempts>>
    /\ ReleaseAndCommit(r)

\* The poll ends in record_failure: under budget, or the copy failed too.
CountsFailure(r) ==
    \/ pc[r] = "failed" /\ BudgetLeft(r)
    \/ pc[r] = "dlq_failed"

RecordFailure(r) ==
    /\ CountsFailure(r)
    /\ attempts[cur[r]] < AttemptsLimit
    /\ attempts' = [attempts EXCEPT ![cur[r]] = attempts[cur[r]] + 1]
    /\ UNCHANGED <<publishedAt, deadLetteredAt>>
    /\ ReleaseAndCommit(r)

\* The relay's session is closed with its transaction open.  A claim that was
\* never committed goes with it; a committed one stays until its lease runs out.
CloseSession(r) ==
    /\ batch' = [batch EXCEPT ![r] = {}]
    /\ snap' = [snap EXCEPT ![r] = [i \in Rows |-> 0]]
    /\ cur' = [cur EXCEPT ![r] = NoRow]
    /\ locked' = [locked EXCEPT ![r] = FALSE]
    /\ tries' = [tries EXCEPT ![r] = 0]
    /\ pc' = [pc EXCEPT ![r] = "idle"]
    /\ UNCHANGED <<table, outcome, claimedAt, broker, faults, lapses>>

\* attempts + 1 does not fit the smallint column: the update raises, and the
\* poll ends with it ("one bad poll must not kill the relay").
AttemptsOverflow(r) ==
    /\ CountsFailure(r)
    /\ attempts[cur[r]] = AttemptsLimit
    /\ ~RowLocked(cur[r], r)
    /\ CloseSession(r)
    /\ UNCHANGED crashes

Crash(r) ==
    /\ pc[r] # "idle"
    /\ crashes < MaxCrashes
    /\ crashes' = crashes + 1
    /\ CloseSession(r)

InHand(i) == \E r \in Relays : i \in batch[r]

\* Time: a lease becomes older than outbox_claim_lease_seconds.  The bound is on
\* leases that run out under a relay still at work; an orphan's always may.
Lapse(i) ==
    /\ claimedAt[i] = "leased"
    /\ \/ ~InHand(i) /\ lapses' = lapses
       \/ InHand(i) /\ lapses < MaxLapses /\ lapses' = lapses + 1
    /\ claimedAt' = [claimedAt EXCEPT ![i] = "lapsed"]
    /\ UNCHANGED <<table, outcome, broker, relay, faults, crashes>>

-----------------------------------------------------------------------------

WriterStep(w) ==
    \/ \E k \in Keys : AppendRow(w, k)
    \/ CommitTx(w)
    \/ RollbackTx(w)

RelayStep(r) ==
    \/ Fetch(r)
    \/ Take(r)
    \/ PublishAck(r)
    \/ PublishLostAck(r)
    \/ PublishRefused(r)
    \/ DeadLetterAck(r)
    \/ DeadLetterFailed(r)
    \/ MarkPublished(r)
    \/ DeadLetter(r)
    \/ RecordFailure(r)
    \/ AttemptsOverflow(r)

Next ==
    \/ \E w \in Writers : WriterStep(w)
    \/ \E r \in Relays : RelayStep(r)
    \/ \E r \in Relays : Crash(r)
    \/ \E i \in Rows : Lapse(i)

Spec == Init /\ [][Next]_vars

\* The relay loop polls for ever and waits a bounded time between polls, and a
\* lease that is not released runs out.  Nothing is assumed of the writers.
Fairness ==
    /\ \A r \in Relays : WF_vars(RelayStep(r))
    /\ \A i \in Rows : WF_vars(Lapse(i))

FairSpec == Spec /\ Fairness

-----------------------------------------------------------------------------
(***************************************************************************)
(* Properties.                                                             *)
(***************************************************************************)

InLog(i) == \E n \in 1 .. Len(log) : log[n] = i

\* A row leaves the pending set only with its message in Kafka: published_at
\* means the topic has it, dead_lettered_at means the dead-letter topic has it,
\* whatever the crashes, lost acknowledgements and stale relays in between.
NeverDroppedSilently ==
    \A i \in Rows : /\ publishedAt[i] => InLog(i)
                    /\ deadLetteredAt[i] => i \in dlq

\* Only what a transaction committed is ever published, to either topic: a
\* rolled-back change is never announced.
OnlyCommittedPublished ==
    \A i \in Rows : InLog(i) \/ i \in dlq => vis[i] = "committed"

\* i comes before log[n], or was abandoned.
InTurn(i, n) == deadLetteredAt[i] \/ \E m \in 1 .. n - 1 : log[m] = i

Older(i, n) ==
    /\ i < log[n]
    /\ partitionKey[i] = partitionKey[log[n]]
    /\ vis[i] = "committed"

\* Order within a partition key: before a row's first appearance in the topic
\* every older committed row with its key has appeared there, or was abandoned.
\* The exception is a pair of rows that two transactions had flushed at once,
\* and one of those two takes no lock on the aggregate.
KeyOrder ==
    /\ \A n \in 1 .. Len(log) : \A i \in Rows :
           Older(i, n) /\ <<i, log[n]>> \notin overlapping => InTurn(i, n)
    /\ \A p \in overlapping : ~({owner[p[1]], owner[p[2]]} \subseteq LockingWriters)

\* "Order within a partition key - a row is only publishable when no older row
\* with the same key is still waiting" (outbox.py), "every event of one plant
\* ... stays in order" (topics.py): the same without the exception.
PublishedInOrder ==
    \A n \in 1 .. Len(log) : \A i \in Rows : Older(i, n) => InTurn(i, n)

\* One publisher per row: two relays have the same row in hand only after a
\* lease ran out under a relay that was still working on it.
OnePublisherPerRow ==
    lapses = 0 => \A q, r \in Relays : q # r => batch[q] \cap batch[r] = {}

\* A message is abandoned only after outbox_max_attempts failed polls: the last
\* one is not counted in the column, every earlier one is, even when several
\* relays with different readings of the counter worked on the row.
AbandonedOnlyAfterBudget ==
    \A i \in Rows : deadLetteredAt[i] => attempts[i] >= MaxAttempts - 1

\* Every committed event reaches its topic or the dead-letter topic, except the
\* ones on a key both topics refuse; one stuck key delays no other key for ever.
EventuallySettled ==
    \A i \in Rows :
        vis[i] = "committed" /\ partitionKey[i] \notin Refused \cap RefusedDlq
            ~> publishedAt[i] \/ deadLetteredAt[i]

\* The promise of the outbox: what the relay settles is in Kafka and what is in
\* Kafka was committed, so no event is lost and none is invented.
NothingLostOrInvented == NeverDroppedSilently /\ OnlyCommittedPublished
=============================================================================
