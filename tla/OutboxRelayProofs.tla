-------------------------- MODULE OutboxRelayProofs --------------------------
(***************************************************************************)
(* Proofs about OutboxRelay for every number of relays, writers, keys and  *)
(* rows, and for every bound.  The inductive invariant is the conjunction  *)
(* of the named parts below; each part is proved with the parts before it. *)
(* The other end of the broker follows: ConsumerDelivery, for either side, *)
(* every group size, every log and every bound.                            *)
(***************************************************************************)
EXTENDS OutboxRelay, ConsumerDelivery, TLAPS

\* A relay that delivers has its row in hand and a try left while it publishes;
\* an idle one has nothing.
InHandOK ==
    \A r \in Relays :
        /\ pc[r] \notin {"idle", "claimed"} => cur[r] \in batch[r]
        /\ pc[r] = "idle" => batch[r] = {}
        /\ pc[r] = "publish" => tries[r] < PUBLISH_ATTEMPTS_PER_CYCLE

\* Ids that were not handed out are unused; rows in hand are committed.
RowsOK ==
    /\ \A i \in Rows : i >= nextId => vis[i] = "none"
    /\ \A r \in Relays : \A i \in batch[r] : vis[i] = "committed"

\* Between the broker's acknowledgement and the commit the message is there.
AcknowledgedOK ==
    \A r \in Relays : /\ pc[r] = "published" => InLog(cur[r])
                      /\ pc[r] = "abandoned" => cur[r] \in dlq

\* The attempts a relay read when it claimed a row are at most the column's.
BudgetOK ==
    \A r \in Relays :
        /\ \A i \in batch[r] : snap[r][i] =< attempts[i]
        /\ pc[r] = "abandoned" => attempts[cur[r]] >= MaxAttempts - 1

\* While no lease ran out under a live relay, a row in hand is either locked by
\* the claiming transaction or visibly leased.
LeaseOK ==
    lapses = 0 => \A r \in Relays : \A i \in batch[r] :
                      locked[r] \/ claimedAt[i] = "leased"

\* Rows of one key that did not overlap are committed in the order of their ids:
\* while the older one is staged the younger is too, by the same transaction.
CommitOrderOK ==
    \A i, j \in Rows :
        /\ i < j
        /\ partitionKey[i] = partitionKey[j]
        /\ <<i, j>> \notin overlapping
        /\ vis[i] = "staged"
        => /\ vis[j] = "staged" => owner[i] = owner[j]
           /\ vis[j] # "committed"

\* Rows overlap only when one of their transactions took no lock.
OverlapOK ==
    \A p \in overlapping :
        /\ vis[p[1]] # "none" /\ vis[p[2]] # "none"
        /\ ~({owner[p[1]], owner[p[2]]} \subseteq LockingWriters)

\* What the ordering barrier gives: nothing older waits behind a row in hand.
BarrierOK ==
    \A r \in Relays : \A i \in batch[r] : \A h \in Rows :
        /\ h < i
        /\ partitionKey[h] = partitionKey[i]
        /\ <<h, i>> \notin overlapping
        /\ vis[h] = "committed"
        => publishedAt[h] \/ deadLetteredAt[h]

-----------------------------------------------------------------------------

\* The rows fetch_unpublished takes are claimable ones.
LEMMA OldestSubset == \A S, n : Oldest(S, n) \subseteq S
  BY DEF Oldest

\* Init establishes the type invariant.
LEMMA TypeInit == Init => TypeOK
  BY ConstantsAssumption DEF Init, TypeOK, Rows, PCs, NoRow

\* Every step of every writer and relay keeps the type invariant: no counter
\* leaves its range and the attempts column never overflows.
LEMMA TypeStep == TypeOK /\ InHandOK /\ [Next]_vars => TypeOK'
<1> SUFFICES ASSUME TypeOK, InHandOK, [Next]_vars PROVE TypeOK'
  OBVIOUS
<1> USE ConstantsAssumption
<1>1. ASSUME NEW w \in Writers, NEW k \in Keys, AppendRow(w, k) PROVE TypeOK'
  <2>1. overlapping' \subseteq Rows \X Rows
    BY <1>1 DEF TypeOK, AppendRow, StagedBeside
  <2> QED
    BY <1>1, <2>1 DEF TypeOK, AppendRow, Rows, outcome, broker, relay, bounds
<1>2. ASSUME NEW w \in Writers, NEW v \in {"committed", "aborted"}, EndTx(w, v)
      PROVE  TypeOK'
  BY <1>2 DEF TypeOK, EndTx, outcome, broker, relay, bounds
<1>3. ASSUME NEW r \in Relays, Fetch(r) PROVE TypeOK'
  <2>1. Oldest(ClaimableRows(r), BatchSize) \subseteq Rows
    BY OldestSubset DEF ClaimableRows
  <2> QED
    BY <1>3, <2>1 DEF TypeOK, Fetch, PCs, table, outcome, broker, bounds
<1>4. ASSUME NEW r \in Relays, Take(r) PROVE TypeOK'
  BY <1>4 DEF TypeOK, Take, PCs, table, outcome, broker, bounds
<1>5. ASSUME NEW r \in Relays,
             PublishAck(r) \/ PublishLostAck(r) \/ PublishRefused(r)
      PROVE  TypeOK'
  <2>1. cur[r] \in Rows /\ tries[r] < PUBLISH_ATTEMPTS_PER_CYCLE
    BY <1>5 DEF TypeOK, InHandOK, PublishAck, PublishLostAck, PublishRefused
  <2>2. CASE PublishAck(r)
    BY <2>1, <2>2 DEF TypeOK, PublishAck, PCs, table, outcome, bounds
  <2>3. CASE PublishLostAck(r) \/ PublishRefused(r)
    <3>1. tries[r] + 1 \in 0 .. PUBLISH_ATTEMPTS_PER_CYCLE
      BY <2>1 DEF TypeOK
    <3>2. log' \in Seq(Rows) /\ faults' \in 0 .. MaxFaults
      <4>1. CASE PublishLostAck(r)
        BY <4>1, <2>1 DEF TypeOK, PublishLostAck
      <4>2. CASE PublishRefused(r)
        BY <4>2 DEF TypeOK, PublishRefused
      <4> QED
        BY <2>3, <4>1, <4>2
    <3>3. TryFailed(r)
      BY <2>3 DEF PublishLostAck, PublishRefused
    <3>4. /\ tries' \in [Relays -> 0 .. PUBLISH_ATTEMPTS_PER_CYCLE]
          /\ pc' \in [Relays -> PCs]
      BY <3>1, <3>3 DEF TypeOK, TryFailed, PCs
    <3> QED
      BY <3>2, <3>3, <3>4 DEF TypeOK, TryFailed, table, outcome
  <2> QED
    BY <1>5, <2>2, <2>3
<1>6. ASSUME NEW r \in Relays, DeadLetterAck(r) \/ DeadLetterFailed(r)
      PROVE  TypeOK'
  <2>1. cur[r] \in Rows
    BY <1>6 DEF TypeOK, InHandOK, DeadLetterAck, DeadLetterFailed
  <2>2. dlq' \in SUBSET Rows /\ faults' \in 0 .. MaxFaults
    BY <1>6, <2>1 DEF TypeOK, DeadLetterAck, DeadLetterFailed, bounds
  <2>3. pc' \in [Relays -> PCs]
    BY <1>6 DEF TypeOK, DeadLetterAck, DeadLetterFailed, PCs
  <2> QED
    BY <1>6, <2>2, <2>3 DEF TypeOK, DeadLetterAck, DeadLetterFailed, table,
       outcome, bounds
<1>7. ASSUME NEW r \in Relays, MarkPublished(r) \/ DeadLetter(r) \/ RecordFailure(r)
      PROVE  TypeOK'
  <2>1. cur[r] \in Rows
    BY <1>7 DEF TypeOK, InHandOK, MarkPublished, DeadLetter, RecordFailure,
       CountsFailure
  <2>2. ReleaseAndCommit(r)
    BY <1>7 DEF MarkPublished, DeadLetter, RecordFailure
  <2>3. /\ publishedAt' \in [Rows -> BOOLEAN]
        /\ deadLetteredAt' \in [Rows -> BOOLEAN]
        /\ attempts' \in [Rows -> 0 .. AttemptsLimit]
    <3>1. CASE MarkPublished(r)
      BY <3>1, <2>1 DEF TypeOK, MarkPublished
    <3>2. CASE DeadLetter(r)
      BY <3>2, <2>1 DEF TypeOK, DeadLetter
    <3>3. CASE RecordFailure(r)
      BY <3>3, <2>1 DEF TypeOK, RecordFailure
    <3> QED
      BY <1>7, <3>1, <3>2, <3>3
  <2>4. /\ claimedAt' \in [Rows -> {"null", "leased", "lapsed"}]
        /\ batch' \in [Relays -> SUBSET Rows]
        /\ cur' \in [Relays -> Rows \cup {NoRow}]
        /\ locked' \in [Relays -> BOOLEAN]
        /\ tries' \in [Relays -> 0 .. PUBLISH_ATTEMPTS_PER_CYCLE]
        /\ pc' \in [Relays -> PCs]
    BY <2>1, <2>2 DEF TypeOK, ReleaseAndCommit, PCs
  <2>5. snap' \in [Relays -> [Rows -> 0 .. AttemptsLimit]]
    BY <2>1, <2>2 DEF TypeOK, ReleaseAndCommit
  <2> QED
    BY <2>2, <2>3, <2>4, <2>5 DEF TypeOK, ReleaseAndCommit, table, broker, bounds
<1>8. ASSUME NEW r \in Relays, AttemptsOverflow(r) \/ Crash(r) PROVE TypeOK'
  <2>1. CloseSession(r) /\ crashes' \in 0 .. MaxCrashes
    BY <1>8 DEF TypeOK, AttemptsOverflow, Crash
  <2>2. [i \in Rows |-> 0] \in [Rows -> 0 .. AttemptsLimit]
    OBVIOUS
  <2>3. /\ batch' \in [Relays -> SUBSET Rows]
        /\ snap' \in [Relays -> [Rows -> 0 .. AttemptsLimit]]
        /\ cur' \in [Relays -> Rows \cup {NoRow}]
        /\ locked' \in [Relays -> BOOLEAN]
        /\ tries' \in [Relays -> 0 .. PUBLISH_ATTEMPTS_PER_CYCLE]
        /\ pc' \in [Relays -> PCs]
    BY <2>1, <2>2 DEF TypeOK, CloseSession, PCs
  <2> QED
    BY <2>1, <2>3 DEF TypeOK, CloseSession, table, outcome, broker
<1>9. ASSUME NEW i \in Rows, Lapse(i) PROVE TypeOK'
  BY <1>9 DEF TypeOK, Lapse, table, outcome, broker, relay
<1>10. CASE UNCHANGED vars
  BY <1>10 DEF TypeOK, vars, table, outcome, broker, relay, bounds
<1> QED
  BY <1>1, <1>2, <1>3, <1>4, <1>5, <1>6, <1>7, <1>8, <1>9, <1>10
  DEF Next, WriterStep, RelayStep, CommitTx, RollbackTx

\* A relay's program counter and the rows it has in hand stay in step.
LEMMA InHandStep == TypeOK /\ InHandOK /\ [Next]_vars => InHandOK'
<1> SUFFICES ASSUME TypeOK, InHandOK, [Next]_vars PROVE InHandOK'
  OBVIOUS
<1> USE ConstantsAssumption
<1>1. ASSUME NEW w \in Writers, NEW k \in Keys, AppendRow(w, k) PROVE InHandOK'
  BY <1>1 DEF InHandOK, AppendRow, relay
<1>2. ASSUME NEW w \in Writers, NEW v \in {"committed", "aborted"}, EndTx(w, v)
      PROVE  InHandOK'
  BY <1>2 DEF InHandOK, EndTx, relay
<1>3. ASSUME NEW r \in Relays, Fetch(r) PROVE InHandOK'
  BY <1>3 DEF TypeOK, InHandOK, Fetch
<1>4. ASSUME NEW r \in Relays, Take(r) PROVE InHandOK'
  BY <1>4 DEF TypeOK, InHandOK, Take
<1>5. ASSUME NEW r \in Relays,
             PublishAck(r) \/ PublishLostAck(r) \/ PublishRefused(r)
      PROVE  InHandOK'
  BY <1>5 DEF TypeOK, InHandOK, PublishAck, PublishLostAck, PublishRefused,
     TryFailed
<1>6. ASSUME NEW r \in Relays, DeadLetterAck(r) \/ DeadLetterFailed(r)
      PROVE  InHandOK'
  BY <1>6 DEF TypeOK, InHandOK, DeadLetterAck, DeadLetterFailed
<1>7. ASSUME NEW r \in Relays, MarkPublished(r) \/ DeadLetter(r) \/ RecordFailure(r)
      PROVE  InHandOK'
  <2>1. ReleaseAndCommit(r)
    BY <1>7 DEF MarkPublished, DeadLetter, RecordFailure
  <2> QED
    BY <2>1 DEF TypeOK, InHandOK, ReleaseAndCommit
<1>8. ASSUME NEW r \in Relays, AttemptsOverflow(r) \/ Crash(r) PROVE InHandOK'
  BY <1>8 DEF TypeOK, InHandOK, AttemptsOverflow, Crash, CloseSession
<1>9. ASSUME NEW i \in Rows, Lapse(i) PROVE InHandOK'
  BY <1>9 DEF InHandOK, Lapse, relay
<1>10. CASE UNCHANGED vars
  BY <1>10 DEF InHandOK, vars, relay
<1> QED
  BY <1>1, <1>2, <1>3, <1>4, <1>5, <1>6, <1>7, <1>8, <1>9, <1>10
  DEF Next, WriterStep, RelayStep, CommitTx, RollbackTx

\* The type invariant of the outbox and of every relay, for every instance.
THEOREM TypeCorrect == Spec => [](TypeOK /\ InHandOK)
<1>1. Init => TypeOK /\ InHandOK
  BY TypeInit, ConstantsAssumption DEF Init, InHandOK
<1>2. TypeOK /\ InHandOK /\ [Next]_vars => (TypeOK /\ InHandOK)'
  BY TypeStep, InHandStep
<1> QED
  BY <1>1, <1>2, PTL DEF Spec

-----------------------------------------------------------------------------
(***************************************************************************)
(* Nothing is dropped, nothing uncommitted is published.                   *)
(***************************************************************************)

TypeInv == TypeOK /\ InHandOK

\* What a publish adds to the log and what it leaves there.
LEMMA LogGrows ==
  ASSUME TypeInv, NEW r \in Relays, NEW i \in Rows,
         PublishAck(r) \/ PublishLostAck(r)
  PROVE  /\ cur[r] \in Rows
         /\ Len(log') = Len(log) + 1
         /\ Len(log) \in Nat
         /\ \A n \in 1 .. Len(log) : log'[n] = log[n]
         /\ log'[Len(log) + 1] = cur[r]
         /\ InLog(i)' <=> (InLog(i) \/ i = cur[r])
<1>1. cur[r] \in Rows /\ log \in Seq(Rows) /\ log' = Append(log, cur[r])
  BY DEF TypeInv, TypeOK, InHandOK, PublishAck, PublishLostAck
<1>2. /\ Len(log') = Len(log) + 1
      /\ Len(log) \in Nat
      /\ \A n \in 1 .. Len(log) : log'[n] = log[n]
      /\ log'[Len(log) + 1] = cur[r]
  BY <1>1
<1>3. InLog(i) => InLog(i)'
  BY <1>2 DEF InLog
<1>4. i = cur[r] => InLog(i)'
  BY <1>2 DEF InLog
<1>5. InLog(i)' => InLog(i) \/ i = cur[r]
  <2> SUFFICES ASSUME NEW n \in 1 .. Len(log'), log'[n] = i
               PROVE  InLog(i) \/ i = cur[r]
    BY DEF InLog
  <2>1. CASE n \in 1 .. Len(log)
    BY <2>1, <1>2 DEF InLog
  <2>2. CASE n = Len(log) + 1
    BY <2>2, <1>2
  <2> QED
    BY <2>1, <2>2, <1>2
<1> QED
  BY <1>1, <1>2, <1>3, <1>4, <1>5

\* Steps that leave the broker alone leave what is in the log.
LEMMA LogKept == ASSUME UNCHANGED log, NEW i PROVE InLog(i)' <=> InLog(i)
  BY DEF InLog

\* Rows in hand are committed, and a committed row stays committed.
LEMMA RowsStep == TypeInv /\ RowsOK /\ [Next]_vars => RowsOK'
<1> SUFFICES ASSUME TypeInv, RowsOK, [Next]_vars PROVE RowsOK'
  OBVIOUS
<1> USE ConstantsAssumption DEF TypeInv
<1>1. ASSUME NEW w \in Writers, NEW k \in Keys, AppendRow(w, k) PROVE RowsOK'
  <2>1. vis[nextId] = "none" /\ nextId \in Rows
    BY <1>1 DEF RowsOK, AppendRow, TypeOK
  <2> QED
    BY <1>1, <2>1 DEF RowsOK, AppendRow, TypeOK, Rows, relay
<1>2. ASSUME NEW w \in Writers, NEW v \in {"committed", "aborted"}, EndTx(w, v)
      PROVE  RowsOK'
  BY <1>2 DEF RowsOK, EndTx, StagedBy, TypeOK, relay
<1>3. ASSUME NEW r \in Relays, Fetch(r) PROVE RowsOK'
  <2>1. \A i \in Oldest(ClaimableRows(r), BatchSize) : vis[i] = "committed"
    BY OldestSubset DEF ClaimableRows, Claimable, Pending
  <2> QED
    BY <1>3, <2>1 DEF RowsOK, Fetch, TypeOK, table
<1>4. ASSUME NEW r \in Relays, Take(r) PROVE RowsOK'
  BY <1>4 DEF RowsOK, Take, table
<1>5. ASSUME NEW r \in Relays,
             PublishAck(r) \/ PublishLostAck(r) \/ PublishRefused(r)
      PROVE  RowsOK'
  BY <1>5 DEF RowsOK, PublishAck, PublishLostAck, PublishRefused, TryFailed, table
<1>6. ASSUME NEW r \in Relays, DeadLetterAck(r) \/ DeadLetterFailed(r)
      PROVE  RowsOK'
  BY <1>6 DEF RowsOK, DeadLetterAck, DeadLetterFailed, table
<1>7. ASSUME NEW r \in Relays, MarkPublished(r) \/ DeadLetter(r) \/ RecordFailure(r)
      PROVE  RowsOK'
  <2>1. ReleaseAndCommit(r)
    BY <1>7 DEF MarkPublished, DeadLetter, RecordFailure
  <2> QED
    BY <2>1 DEF TypeOK, RowsOK, ReleaseAndCommit, table
<1>8. ASSUME NEW r \in Relays, AttemptsOverflow(r) \/ Crash(r) PROVE RowsOK'
  <2>1. CloseSession(r)
    BY <1>8 DEF AttemptsOverflow, Crash
  <2> QED
    BY <2>1 DEF TypeOK, RowsOK, CloseSession, table
<1>9. ASSUME NEW i \in Rows, Lapse(i) PROVE RowsOK'
  BY <1>9 DEF RowsOK, Lapse, relay, table
<1>10. CASE UNCHANGED vars
  BY <1>10 DEF RowsOK, vars, relay, table
<1> QED
  BY <1>1, <1>2, <1>3, <1>4, <1>5, <1>6, <1>7, <1>8, <1>9, <1>10
  DEF Next, WriterStep, RelayStep, CommitTx, RollbackTx

DeliveryInv == AcknowledgedOK /\ NeverDroppedSilently /\ OnlyCommittedPublished

\* An outcome is recorded only after the broker accepted the message, and what
\* the broker accepted was committed.
LEMMA DeliveryStep ==
  TypeInv /\ RowsOK /\ DeliveryInv /\ [Next]_vars => DeliveryInv'
<1> SUFFICES ASSUME TypeInv, RowsOK, DeliveryInv, [Next]_vars PROVE DeliveryInv'
  OBVIOUS
<1> USE ConstantsAssumption
<1> USE DEF TypeInv, DeliveryInv, AcknowledgedOK, NeverDroppedSilently,
            OnlyCommittedPublished
<1>1. ASSUME NEW w \in Writers, NEW k \in Keys, AppendRow(w, k) PROVE DeliveryInv'
  <2>1. vis[nextId] = "none" /\ nextId \in Rows
    BY <1>1 DEF RowsOK, AppendRow, TypeOK
  <2> QED
    BY <1>1, <2>1, LogKept DEF AppendRow, TypeOK, relay, broker, outcome
<1>2. ASSUME NEW w \in Writers, NEW v \in {"committed", "aborted"}, EndTx(w, v)
      PROVE  DeliveryInv'
  BY <1>2, LogKept DEF EndTx, StagedBy, TypeOK, relay, broker, outcome
<1>3. ASSUME NEW r \in Relays, Fetch(r) PROVE DeliveryInv'
  BY <1>3, LogKept DEF Fetch, TypeOK, table, broker, outcome
<1>4. ASSUME NEW r \in Relays, Take(r) PROVE DeliveryInv'
  BY <1>4, LogKept DEF Take, TypeOK, table, broker, outcome
<1>5. ASSUME NEW r \in Relays, PublishAck(r) \/ PublishLostAck(r)
      PROVE  DeliveryInv'
  <2>1. cur[r] \in Rows /\ vis[cur[r]] = "committed"
    BY <1>5 DEF InHandOK, RowsOK, PublishAck, PublishLostAck, TypeOK
  <2>2. \A i \in Rows : InLog(i)' <=> (InLog(i) \/ i = cur[r])
    BY <1>5, LogGrows
  <2>3. UNCHANGED <<vis, dlq, publishedAt, deadLetteredAt, cur>>
    BY <1>5 DEF PublishAck, PublishLostAck, TryFailed, table, outcome
  <2>4. \A q \in Relays : /\ pc'[q] = "published" => pc[q] = "published" \/ q = r
                          /\ pc'[q] = "abandoned" => pc[q] = "abandoned"
    BY <1>5 DEF PublishAck, PublishLostAck, TryFailed, TypeOK
  <2>5. \A q \in Relays : pc[q] = "published" => cur[q] \in Rows
    BY DEF InHandOK, TypeOK
  <2> QED
    BY <2>1, <2>2, <2>3, <2>4, <2>5
<1>6. ASSUME NEW r \in Relays, PublishRefused(r) PROVE DeliveryInv'
  BY <1>6, LogKept DEF PublishRefused, TryFailed, TypeOK, table, outcome
<1>7. ASSUME NEW r \in Relays, DeadLetterAck(r) \/ DeadLetterFailed(r)
      PROVE  DeliveryInv'
  <2>1. cur[r] \in Rows /\ vis[cur[r]] = "committed"
    BY <1>7 DEF InHandOK, RowsOK, DeadLetterAck, DeadLetterFailed, TypeOK
  <2>2. UNCHANGED <<vis, log, publishedAt, deadLetteredAt, cur>>
    BY <1>7 DEF DeadLetterAck, DeadLetterFailed, table, outcome
  <2>3. dlq \subseteq dlq' /\ dlq' \subseteq dlq \cup {cur[r]}
    BY <1>7 DEF DeadLetterAck, DeadLetterFailed
  <2>4. \A q \in Relays : /\ pc'[q] = "published" => pc[q] = "published"
                          /\ pc'[q] = "abandoned" =>
                                pc[q] = "abandoned" \/ cur[q] \in dlq'
    BY <1>7 DEF DeadLetterAck, DeadLetterFailed, TypeOK
  <2> QED
    BY <2>1, <2>2, <2>3, <2>4, LogKept
<1>8. ASSUME NEW r \in Relays, MarkPublished(r) \/ DeadLetter(r) \/ RecordFailure(r)
      PROVE  DeliveryInv'
  <2>1. ReleaseAndCommit(r)
    BY <1>8 DEF MarkPublished, DeadLetter, RecordFailure
  <2>2. UNCHANGED <<vis, log, dlq>>
    BY <2>1 DEF ReleaseAndCommit, table, broker
  <2>3. \A q \in Relays : /\ pc'[q] \in {"published", "abandoned"} =>
                                pc'[q] = pc[q] /\ cur'[q] = cur[q]
    BY <2>1 DEF ReleaseAndCommit, TypeOK
  <2>4. cur[r] \in Rows
    BY <1>8 DEF TypeOK, InHandOK, MarkPublished, DeadLetter, RecordFailure,
       CountsFailure
  <2>5. /\ \A i \in Rows : publishedAt'[i] => publishedAt[i] \/ InLog(i)
        /\ \A i \in Rows : deadLetteredAt'[i] => deadLetteredAt[i] \/ i \in dlq
    <3>1. CASE MarkPublished(r)
      BY <3>1, <2>4 DEF MarkPublished, TypeOK
    <3>2. CASE DeadLetter(r)
      BY <3>2, <2>4 DEF DeadLetter, TypeOK
    <3>3. CASE RecordFailure(r)
      BY <3>3 DEF RecordFailure
    <3> QED
      BY <1>8, <3>1, <3>2, <3>3
  <2> QED
    BY <2>2, <2>3, <2>5, LogKept
<1>9. ASSUME NEW r \in Relays, AttemptsOverflow(r) \/ Crash(r) PROVE DeliveryInv'
  <2>1. CloseSession(r)
    BY <1>9 DEF AttemptsOverflow, Crash
  <2> QED
    BY <2>1, LogKept DEF TypeOK, CloseSession, table, broker, outcome
<1>10. ASSUME NEW i \in Rows, Lapse(i) PROVE DeliveryInv'
  BY <1>10, LogKept DEF Lapse, relay, table, broker, outcome
<1>11. CASE UNCHANGED vars
  BY <1>11, LogKept DEF vars, relay, table, broker, outcome
<1> QED
  BY <1>1, <1>2, <1>3, <1>4, <1>5, <1>6, <1>7, <1>8, <1>9, <1>10, <1>11
  DEF Next, WriterStep, RelayStep, CommitTx, RollbackTx

\* A message is never dropped silently and a rolled-back change is never
\* announced, for every number of relays, crashes, faults and lapsed leases.
THEOREM NothingLostNothingInvented == Spec => []NothingLostOrInvented
<1> DEFINE I == TypeInv /\ RowsOK /\ DeliveryInv
<1>1. Init => I
  <2> SUFFICES ASSUME Init PROVE I
    OBVIOUS
  <2>1. TypeInv
    BY TypeInit, ConstantsAssumption DEF Init, InHandOK, TypeInv
  <2>2. RowsOK
    BY DEF Init, RowsOK
  <2>3. DeliveryInv
    BY DEF Init, DeliveryInv, AcknowledgedOK, NeverDroppedSilently,
       OnlyCommittedPublished, InLog
  <2> QED
    BY <2>1, <2>2, <2>3
<1>2. I /\ [Next]_vars => I'
  BY TypeStep, InHandStep, RowsStep, DeliveryStep DEF TypeInv
<1>3. I => NothingLostOrInvented
  BY DEF DeliveryInv, NothingLostOrInvented
<1> QED
  BY <1>1, <1>2, <1>3, PTL DEF Spec

-----------------------------------------------------------------------------
(***************************************************************************)
(* The retry budget and the lease.                                         *)
(***************************************************************************)

BudgetInv == BudgetOK /\ AbandonedOnlyAfterBudget

\* The attempts column only grows, so a stale reading of it never abandons a
\* message early.
LEMMA BudgetStep == TypeInv /\ BudgetInv /\ [Next]_vars => BudgetInv'
<1> SUFFICES ASSUME TypeInv, BudgetInv, [Next]_vars PROVE BudgetInv'
  OBVIOUS
<1> USE ConstantsAssumption
<1> USE DEF TypeInv, BudgetInv, BudgetOK, AbandonedOnlyAfterBudget
<1>1. ASSUME NEW w \in Writers, NEW k \in Keys, AppendRow(w, k) PROVE BudgetInv'
  BY <1>1 DEF AppendRow, relay, outcome
<1>2. ASSUME NEW w \in Writers, NEW v \in {"committed", "aborted"}, EndTx(w, v)
      PROVE  BudgetInv'
  BY <1>2 DEF EndTx, relay, outcome
<1>3. ASSUME NEW r \in Relays, Fetch(r) PROVE BudgetInv'
  <2>1. Oldest(ClaimableRows(r), BatchSize) \subseteq Rows
    BY OldestSubset DEF ClaimableRows
  <2>2. \A q \in Relays : \A i \in batch'[q] : snap'[q][i] =< attempts[i]
    BY <1>3, <2>1 DEF Fetch, TypeOK
  <2> QED
    BY <1>3, <2>2 DEF Fetch, TypeOK, outcome
<1>4. ASSUME NEW r \in Relays, Take(r) PROVE BudgetInv'
  BY <1>4 DEF Take, TypeOK, outcome
<1>5. ASSUME NEW r \in Relays,
             PublishAck(r) \/ PublishLostAck(r) \/ PublishRefused(r)
      PROVE  BudgetInv'
  BY <1>5 DEF PublishAck, PublishLostAck, PublishRefused, TryFailed, TypeOK, outcome
<1>6. ASSUME NEW r \in Relays, DeadLetterAck(r) PROVE BudgetInv'
  <2>1. cur[r] \in batch[r] /\ cur[r] \in Rows
    BY <1>6 DEF InHandOK, DeadLetterAck, TypeOK
  <2>2. attempts[cur[r]] >= MaxAttempts - 1
    BY <1>6, <2>1 DEF DeadLetterAck, BudgetLeft, TypeOK
  <2> QED
    BY <1>6, <2>2 DEF DeadLetterAck, TypeOK, outcome
<1>7. ASSUME NEW r \in Relays, DeadLetterFailed(r) PROVE BudgetInv'
  BY <1>7 DEF DeadLetterFailed, TypeOK, outcome
<1>8. ASSUME NEW r \in Relays, MarkPublished(r) \/ DeadLetter(r) \/ RecordFailure(r)
      PROVE  BudgetInv'
  <2>1. ReleaseAndCommit(r)
    BY <1>8 DEF MarkPublished, DeadLetter, RecordFailure
  <2>2. cur[r] \in Rows
    BY <1>8 DEF TypeOK, InHandOK, MarkPublished, DeadLetter, RecordFailure,
       CountsFailure
  <2>3. \A i \in Rows : attempts'[i] >= attempts[i]
    <3>1. CASE RecordFailure(r)
      BY <3>1, <2>2 DEF RecordFailure, TypeOK
    <3>2. CASE MarkPublished(r) \/ DeadLetter(r)
      BY <3>2 DEF MarkPublished, DeadLetter, TypeOK
    <3> QED
      BY <1>8, <3>1, <3>2
  <2>4. attempts' \in [Rows -> Nat] /\ attempts \in [Rows -> Nat]
    <3>1. TypeOK'
      BY TypeStep
    <3> QED
      BY <3>1 DEF TypeOK
  <2>5. \A i \in Rows : deadLetteredAt'[i] =>
                            deadLetteredAt[i] \/ attempts[i] >= MaxAttempts - 1
    <3>1. CASE DeadLetter(r)
      BY <3>1, <2>2 DEF DeadLetter, TypeOK
    <3>2. CASE MarkPublished(r) \/ RecordFailure(r)
      BY <3>2 DEF MarkPublished, RecordFailure
    <3> QED
      BY <1>8, <3>1, <3>2
  <2>6. \A q \in Relays : /\ batch'[q] \subseteq batch[q]
                          /\ batch[q] \subseteq Rows
                          /\ \A i \in batch'[q] : snap'[q][i] = snap[q][i]
                          /\ \A i \in Rows : snap[q][i] \in Nat
    BY <2>1, <2>2 DEF ReleaseAndCommit, TypeOK
  <2>7. \A q \in Relays : pc'[q] = "abandoned" =>
                            pc[q] = "abandoned" /\ cur'[q] = cur[q] /\ cur[q] \in Rows
    BY <2>1 DEF ReleaseAndCommit, TypeOK, InHandOK
  <2>8. AbandonedOnlyAfterBudget'
    BY <2>3, <2>4, <2>5
  <2>9. BudgetOK'
    BY <2>3, <2>4, <2>6, <2>7
  <2> QED
    BY <2>8, <2>9
<1>9. ASSUME NEW r \in Relays, AttemptsOverflow(r) \/ Crash(r) PROVE BudgetInv'
  <2>1. CloseSession(r)
    BY <1>9 DEF AttemptsOverflow, Crash
  <2> QED
    BY <2>1 DEF TypeOK, CloseSession, outcome
<1>10. ASSUME NEW i \in Rows, Lapse(i) PROVE BudgetInv'
  BY <1>10 DEF Lapse, relay, outcome
<1>11. CASE UNCHANGED vars
  BY <1>11 DEF vars, relay, outcome
<1> QED
  BY <1>1, <1>2, <1>3, <1>4, <1>5, <1>6, <1>7, <1>8, <1>9, <1>10, <1>11
  DEF Next, WriterStep, RelayStep, CommitTx, RollbackTx

\* A message is abandoned only after outbox_max_attempts failed polls.
THEOREM BudgetSafe == Spec => []AbandonedOnlyAfterBudget
<1>1. Init => TypeInv /\ BudgetInv
  <2> SUFFICES ASSUME Init PROVE TypeInv /\ BudgetInv
    OBVIOUS
  <2>1. TypeInv
    BY TypeInit, ConstantsAssumption DEF Init, InHandOK, TypeInv
  <2> QED
    BY <2>1 DEF Init, BudgetInv, BudgetOK, AbandonedOnlyAfterBudget
<1>2. TypeInv /\ BudgetInv /\ [Next]_vars => (TypeInv /\ BudgetInv)'
  BY TypeStep, InHandStep, BudgetStep DEF TypeInv
<1> QED
  BY <1>1, <1>2, PTL DEF Spec, BudgetInv

LeaseInv == LeaseOK /\ OnePublisherPerRow

\* Row locks before the first commit of a batch, leases after it.
LEMMA LeaseStep == TypeInv /\ LeaseInv /\ [Next]_vars => LeaseInv'
<1> SUFFICES ASSUME TypeInv, LeaseInv, [Next]_vars PROVE LeaseInv'
  OBVIOUS
<1> USE ConstantsAssumption
<1> USE DEF TypeInv, LeaseInv, LeaseOK, OnePublisherPerRow
<1>1. ASSUME NEW w \in Writers, NEW k \in Keys, AppendRow(w, k) PROVE LeaseInv'
  BY <1>1 DEF AppendRow, relay, bounds
<1>2. ASSUME NEW w \in Writers, NEW v \in {"committed", "aborted"}, EndTx(w, v)
      PROVE  LeaseInv'
  BY <1>2 DEF EndTx, relay, bounds
<1>3. ASSUME NEW r \in Relays, Fetch(r) PROVE LeaseInv'
  <2>1. \A i \in Oldest(ClaimableRows(r), BatchSize) :
            i \in Rows /\ claimedAt[i] # "leased" /\ ~RowLocked(i, r)
    BY OldestSubset DEF ClaimableRows, Claimable, LeaseExpired
  <2>2. lapses = 0 => \A q \in Relays \ {r} :
            batch[q] \cap Oldest(ClaimableRows(r), BatchSize) = {}
    BY <2>1 DEF RowLocked
  <2> QED
    BY <1>3, <2>2 DEF Fetch, TypeOK, bounds
<1>4. ASSUME NEW r \in Relays, Take(r) PROVE LeaseInv'
  BY <1>4 DEF Take, bounds
<1>5. ASSUME NEW r \in Relays,
             PublishAck(r) \/ PublishLostAck(r) \/ PublishRefused(r)
      PROVE  LeaseInv'
  BY <1>5 DEF PublishAck, PublishLostAck, PublishRefused, TryFailed, bounds
<1>6. ASSUME NEW r \in Relays, DeadLetterAck(r) \/ DeadLetterFailed(r)
      PROVE  LeaseInv'
  BY <1>6 DEF DeadLetterAck, DeadLetterFailed, bounds
<1>7. ASSUME NEW r \in Relays, MarkPublished(r) \/ DeadLetter(r) \/ RecordFailure(r)
      PROVE  LeaseInv'
  <2>1. ReleaseAndCommit(r)
    BY <1>7 DEF MarkPublished, DeadLetter, RecordFailure
  <2>2. cur[r] \in batch[r]
    BY <1>7 DEF InHandOK, MarkPublished, DeadLetter, RecordFailure, CountsFailure
  <2>3. lapses' = lapses /\ \A q \in Relays : batch'[q] \subseteq batch[q]
    BY <2>1 DEF ReleaseAndCommit, TypeOK, bounds
  <2>4. lapses = 0 => cur[r] \notin batch'[r]
                      /\ \A q \in Relays \ {r} : cur[r] \notin batch[q]
    BY <2>1, <2>2 DEF ReleaseAndCommit, TypeOK
  <2>5. LeaseOK'
    <3> SUFFICES ASSUME lapses = 0, NEW q \in Relays, NEW i \in batch'[q]
                 PROVE  locked'[q] \/ claimedAt'[i] = "leased"
      BY <2>3
    <3>1. i # cur[r] /\ i \in Rows /\ i \in batch[q]
      BY <2>3, <2>4 DEF TypeOK
    <3>2. claimedAt[i] = "leased" => claimedAt'[i] = "leased"
      BY <2>1, <3>1 DEF ReleaseAndCommit
    <3>3. CASE q = r
      BY <2>1, <3>1, <3>2, <3>3 DEF ReleaseAndCommit, TypeOK
    <3>4. CASE q # r
      BY <2>1, <3>1, <3>2, <3>4 DEF ReleaseAndCommit, TypeOK
    <3> QED
      BY <3>3, <3>4
  <2> QED
    BY <2>3, <2>5
<1>8. ASSUME NEW r \in Relays, AttemptsOverflow(r) \/ Crash(r) PROVE LeaseInv'
  <2>1. CloseSession(r)
    BY <1>8 DEF AttemptsOverflow, Crash
  <2> QED
    BY <2>1 DEF TypeOK, CloseSession
<1>9. ASSUME NEW i \in Rows, Lapse(i) PROVE LeaseInv'
  <2>1. lapses' = 0 => lapses = 0 /\ ~InHand(i)
    BY <1>9 DEF Lapse, TypeOK
  <2> QED
    BY <1>9, <2>1 DEF Lapse, InHand, TypeOK, relay
<1>10. CASE UNCHANGED vars
  BY <1>10 DEF vars, relay, bounds
<1> QED
  BY <1>1, <1>2, <1>3, <1>4, <1>5, <1>6, <1>7, <1>8, <1>9, <1>10
  DEF Next, WriterStep, RelayStep, CommitTx, RollbackTx

\* One publisher per row, until a lease runs out under a relay still at work.
THEOREM OnePublisher == Spec => []OnePublisherPerRow
<1>1. Init => TypeInv /\ LeaseInv
  <2> SUFFICES ASSUME Init PROVE TypeInv /\ LeaseInv
    OBVIOUS
  <2>1. TypeInv
    BY TypeInit, ConstantsAssumption DEF Init, InHandOK, TypeInv
  <2> QED
    BY <2>1 DEF Init, LeaseInv, LeaseOK, OnePublisherPerRow
<1>2. TypeInv /\ LeaseInv /\ [Next]_vars => (TypeInv /\ LeaseInv)'
  BY TypeStep, InHandStep, LeaseStep DEF TypeInv
<1> QED
  BY <1>1, <1>2, PTL DEF Spec, LeaseInv

-----------------------------------------------------------------------------
(***************************************************************************)
(* Order within a partition key.  The barrier of fetch_unpublished is only *)
(* half of the argument: it orders rows by id.  The other half is that ids *)
(* of one key are committed in id order, which the aggregate's row lock    *)
(* gives: two rows of a key are staged at once only when one of the two    *)
(* transactions took no lock.                                              *)
(***************************************************************************)

OrderInv == CommitOrderOK /\ OverlapOK /\ BarrierOK /\ KeyOrder

\* What a step keeps when it leaves the table, the outcomes and the log alone
\* and puts no new row in hand.
LEMMA OrderKept ==
  ASSUME OrderInv, TypeInv,
         UNCHANGED <<owner, partitionKey, vis, overlapping, log>>,
         \A i \in Rows : publishedAt[i] => publishedAt'[i],
         \A i \in Rows : deadLetteredAt[i] => deadLetteredAt'[i],
         \A q \in Relays : batch'[q] \subseteq batch[q]
  PROVE  OrderInv'
<1>1. CommitOrderOK' /\ OverlapOK'
  BY DEF OrderInv, CommitOrderOK, OverlapOK
<1>2. BarrierOK'
  BY DEF OrderInv, BarrierOK
<1>3. KeyOrder'
  BY DEF OrderInv, KeyOrder, Older, InTurn
<1> QED
  BY <1>1, <1>2, <1>3 DEF OrderInv

\* Appending, committing, claiming and publishing keep the order of a key.
LEMMA OrderStep ==
  TypeInv /\ RowsOK /\ DeliveryInv /\ OrderInv /\ [Next]_vars => OrderInv'
<1> SUFFICES ASSUME TypeInv, RowsOK, DeliveryInv, OrderInv, [Next]_vars
             PROVE  OrderInv'
  OBVIOUS
<1> USE ConstantsAssumption DEF TypeInv
<1>l. /\ Len(log) \in Nat
      /\ \A n \in 1 .. Len(log) : log[n] \in Rows /\ vis[log[n]] = "committed"
  BY DEF TypeOK, DeliveryInv, OnlyCommittedPublished, InLog
<1>1. ASSUME NEW w \in Writers, NEW k \in Keys, AppendRow(w, k) PROVE OrderInv'
  <2>1. /\ vis[nextId] = "none" /\ nextId \in Rows
        /\ \A i \in Rows : vis[i] # "none" => i < nextId
    BY <1>1 DEF RowsOK, AppendRow, TypeOK, Rows
  <2>2. /\ UNCHANGED <<log, batch, publishedAt, deadLetteredAt>>
        /\ owner' = [owner EXCEPT ![nextId] = w]
        /\ partitionKey' = [partitionKey EXCEPT ![nextId] = k]
        /\ vis' = [vis EXCEPT ![nextId] = "staged"]
        /\ overlapping' = overlapping \cup (StagedBeside(w, k) \X {nextId})
    BY <1>1 DEF AppendRow, broker, relay, outcome
  <2>3. \A i \in Rows : /\ vis[i] = "staged" /\ partitionKey[i] = k
                        /\ <<i, nextId>> \notin overlapping'
                        => owner[i] = w
    BY <2>2 DEF StagedBeside
  <2>4. CommitOrderOK'
    <3> SUFFICES ASSUME NEW i \in Rows, NEW j \in Rows, i < j,
                        partitionKey'[i] = partitionKey'[j],
                        <<i, j>> \notin overlapping', vis'[i] = "staged"
                 PROVE  (vis'[j] = "staged" => owner'[i] = owner'[j]) /\ vis'[j] # "committed"
      BY DEF CommitOrderOK
    <3>1. CASE i = nextId
      BY <2>1, <2>2, <3>1 DEF TypeOK, Rows
    <3>2. CASE j = nextId
      BY <2>1, <2>2, <2>3, <3>2 DEF TypeOK, Rows
    <3>3. CASE i # nextId /\ j # nextId
      BY <2>1, <2>2, <3>3 DEF OrderInv, CommitOrderOK, TypeOK
    <3> QED
      BY <3>1, <3>2, <3>3
  <2>o. OverlapOK'
    <3> SUFFICES ASSUME NEW p \in overlapping'
                 PROVE  /\ vis'[p[1]] # "none" /\ vis'[p[2]] # "none"
                        /\ ~({owner'[p[1]], owner'[p[2]]} \subseteq LockingWriters)
      BY DEF OverlapOK
    <3>1. CASE p \in overlapping
      <4>1. p[1] \in Rows /\ p[2] \in Rows /\ vis[p[1]] # "none" /\ vis[p[2]] # "none"
        BY <3>1 DEF OrderInv, OverlapOK, TypeOK
      <4>2. p[1] # nextId /\ p[2] # nextId
        BY <2>1, <4>1
      <4> QED
        BY <2>2, <3>1, <4>1, <4>2 DEF OrderInv, OverlapOK, TypeOK
    <3>2. CASE p \in StagedBeside(w, k) \X {nextId}
      <4>1. p[1] \in StagedBeside(w, k) /\ p[2] = nextId
        BY <3>2
      <4>2. p[1] \in Rows /\ vis[p[1]] = "staged" /\ partitionKey[p[1]] = k /\ owner[p[1]] # w
        BY <4>1 DEF StagedBeside
      <4>3. p[1] # nextId
        BY <2>1, <4>2
      <4>4. ~(w \in LockingWriters /\ owner[p[1]] \in LockingWriters)
        BY <1>1, <4>2 DEF AppendRow, LockedByAnother
      <4> QED
        BY <2>1, <2>2, <4>1, <4>2, <4>3, <4>4 DEF TypeOK
    <3> QED
      BY <2>2, <3>1, <3>2
  <2>5. BarrierOK'
    <3>1. \A r \in Relays : nextId \notin batch[r]
      BY <2>1 DEF RowsOK
    <3> QED
      BY <2>1, <2>2, <3>1 DEF OrderInv, BarrierOK, TypeOK
  <2>6. KeyOrder'
    <3>1. \A n \in 1 .. Len(log) : log[n] # nextId
      BY <1>l, <2>1
    <3>2. \A n \in 1 .. Len(log) : \A i \in Rows :
            Older(i, n)' => Older(i, n) /\ (InTurn(i, n) => InTurn(i, n)')
      BY <1>l, <2>1, <2>2, <3>1 DEF Older, InTurn, TypeOK
    <3> QED
      BY <1>l, <2>2, <2>o, <3>2 DEF OrderInv, KeyOrder, OverlapOK
  <2> QED
    BY <2>4, <2>o, <2>5, <2>6 DEF OrderInv
<1>2. ASSUME NEW w \in Writers, NEW v \in {"committed", "aborted"}, EndTx(w, v)
      PROVE  OrderInv'
  <2>1. UNCHANGED <<owner, partitionKey, overlapping, log, batch, publishedAt, deadLetteredAt>>
    BY <1>2 DEF EndTx, broker, relay, outcome
  <2>2. /\ \A i \in Rows : vis'[i] = "staged" => vis[i] = "staged" /\ owner[i] # w
        /\ \A i \in Rows : vis'[i] = "committed" =>
                vis[i] = "committed" \/ (vis[i] = "staged" /\ owner[i] = w)
        /\ \A i \in Rows : vis[i] # "none" => vis'[i] # "none"
    BY <1>2 DEF EndTx, StagedBy, TypeOK
  <2>3. CommitOrderOK' /\ OverlapOK'
    BY <2>1, <2>2 DEF OrderInv, CommitOrderOK, OverlapOK, TypeOK
  <2>4. BarrierOK'
    <3> SUFFICES ASSUME NEW r \in Relays, NEW i \in batch[r], NEW h \in Rows,
                        h < i, partitionKey[h] = partitionKey[i],
                        <<h, i>> \notin overlapping, vis'[h] = "committed"
                 PROVE  publishedAt[h] \/ deadLetteredAt[h]
      BY <2>1 DEF BarrierOK
    <3>1. i \in Rows /\ vis[i] = "committed"
      BY DEF RowsOK, TypeOK
    <3>2. vis[h] # "staged"
      BY <3>1 DEF OrderInv, CommitOrderOK, Rows
    <3> QED
      BY <2>2, <3>2 DEF OrderInv, BarrierOK
  <2>5. KeyOrder'
    <3> SUFFICES ASSUME NEW n \in 1 .. Len(log), NEW i \in Rows,
                        i < log[n], partitionKey[i] = partitionKey[log[n]],
                        <<i, log[n]>> \notin overlapping, vis'[i] = "committed"
                 PROVE  InTurn(i, n)
      BY <2>1, <2>3 DEF KeyOrder, OverlapOK, Older, InTurn
    <3>1. vis[i] # "staged"
      BY <1>l DEF OrderInv, CommitOrderOK, Rows
    <3> QED
      BY <2>2, <3>1 DEF OrderInv, KeyOrder, Older
  <2> QED
    BY <2>3, <2>4, <2>5 DEF OrderInv
<1>3. ASSUME NEW r \in Relays, Fetch(r) PROVE OrderInv'
  <2>1. UNCHANGED <<owner, partitionKey, vis, overlapping, log, publishedAt, deadLetteredAt>>
    BY <1>3 DEF Fetch, table, broker, outcome
  <2>2. \A i \in Oldest(ClaimableRows(r), BatchSize) :
            i \in Rows /\ ~Blocked(i)
    BY OldestSubset DEF ClaimableRows, Claimable
  <2>3. BarrierOK'
    BY <1>3, <2>1, <2>2 DEF OrderInv, BarrierOK, Fetch, Blocked, Pending, TypeOK
  <2>4. CommitOrderOK' /\ OverlapOK' /\ KeyOrder'
    BY <2>1 DEF OrderInv, CommitOrderOK, OverlapOK, KeyOrder, Older, InTurn
  <2> QED
    BY <2>3, <2>4 DEF OrderInv
<1>4. ASSUME NEW r \in Relays, Take(r) PROVE OrderInv'
  BY <1>4, OrderKept DEF Take, table, broker, outcome
<1>5. ASSUME NEW r \in Relays, PublishAck(r) \/ PublishLostAck(r)
      PROVE  OrderInv'
  <2>1. UNCHANGED <<owner, partitionKey, vis, overlapping, batch, publishedAt, deadLetteredAt>>
    BY <1>5 DEF PublishAck, PublishLostAck, TryFailed, table, outcome
  <2>2. cur[r] \in batch[r]
    BY <1>5 DEF InHandOK, PublishAck, PublishLostAck
  <2>3. /\ Len(log') = Len(log) + 1
        /\ \A n \in 1 .. Len(log) : log'[n] = log[n]
        /\ log'[Len(log) + 1] = cur[r]
    <3> PICK i \in Rows : i = cur[r]
      BY <2>2 DEF TypeOK
    <3> QED
      BY <1>5, LogGrows
  <2>4. CommitOrderOK' /\ OverlapOK' /\ BarrierOK'
    BY <2>1 DEF OrderInv, CommitOrderOK, OverlapOK, BarrierOK
  <2>5. KeyOrder'
    <3> SUFFICES ASSUME NEW n \in 1 .. Len(log'), NEW i \in Rows,
                        i < log'[n], partitionKey[i] = partitionKey[log'[n]],
                        <<i, log'[n]>> \notin overlapping, vis[i] = "committed"
                 PROVE  deadLetteredAt[i] \/ \E m \in 1 .. n - 1 : log'[m] = i
      BY <2>1, <2>4 DEF KeyOrder, OverlapOK, Older, InTurn
    <3>1. CASE n \in 1 .. Len(log)
      <4>1. deadLetteredAt[i] \/ \E m \in 1 .. n - 1 : log[m] = i
        BY <2>3, <3>1 DEF OrderInv, KeyOrder, Older, InTurn
      <4> QED
        BY <4>1, <3>1, <2>3, <1>l
    <3>2. CASE n = Len(log) + 1
      <4>1. publishedAt[i] \/ deadLetteredAt[i]
        BY <2>2, <2>3, <3>2 DEF OrderInv, BarrierOK
      <4>2. publishedAt[i] => \E m \in 1 .. Len(log) : log[m] = i
        BY DEF DeliveryInv, NeverDroppedSilently, InLog
      <4> QED
        BY <4>1, <4>2, <3>2, <2>3, <1>l
    <3> QED
      BY <3>1, <3>2, <2>3, <1>l
  <2> QED
    BY <2>4, <2>5 DEF OrderInv
<1>6. ASSUME NEW r \in Relays, PublishRefused(r) PROVE OrderInv'
  BY <1>6, OrderKept DEF PublishRefused, TryFailed, table, outcome
<1>7. ASSUME NEW r \in Relays, DeadLetterAck(r) \/ DeadLetterFailed(r)
      PROVE  OrderInv'
  BY <1>7, OrderKept DEF DeadLetterAck, DeadLetterFailed, table, outcome
<1>8. ASSUME NEW r \in Relays, MarkPublished(r) \/ DeadLetter(r) \/ RecordFailure(r)
      PROVE  OrderInv'
  <2>1. ReleaseAndCommit(r)
    BY <1>8 DEF MarkPublished, DeadLetter, RecordFailure
  <2>2. \A q \in Relays : batch'[q] \subseteq batch[q]
    BY <2>1 DEF ReleaseAndCommit, TypeOK
  <2>3. /\ \A i \in Rows : publishedAt[i] => publishedAt'[i]
        /\ \A i \in Rows : deadLetteredAt[i] => deadLetteredAt'[i]
    BY <1>8 DEF MarkPublished, DeadLetter, RecordFailure, TypeOK
  <2> QED
    BY <2>1, <2>2, <2>3, OrderKept DEF ReleaseAndCommit, table, broker
<1>9. ASSUME NEW r \in Relays, AttemptsOverflow(r) \/ Crash(r) PROVE OrderInv'
  <2>1. CloseSession(r)
    BY <1>9 DEF AttemptsOverflow, Crash
  <2>2. \A q \in Relays : batch'[q] \subseteq batch[q]
    BY <2>1 DEF CloseSession, TypeOK
  <2> QED
    BY <2>1, <2>2, OrderKept DEF CloseSession, table, broker, outcome
<1>10. ASSUME NEW i \in Rows, Lapse(i) PROVE OrderInv'
  BY <1>10, OrderKept DEF Lapse, relay, table, broker, outcome
<1>11. CASE UNCHANGED vars
  BY <1>11, OrderKept DEF vars, relay, table, broker, outcome
<1> QED
  BY <1>1, <1>2, <1>3, <1>4, <1>5, <1>6, <1>7, <1>8, <1>9, <1>10, <1>11
  DEF Next, WriterStep, RelayStep, CommitTx, RollbackTx

\* Messages of one key first appear in id order, abandoned ones excepted, but for
\* two that were flushed at once by transactions of which one takes no lock;
\* crashes, lost acknowledgements, stale relays and republished messages do not
\* disturb it, and which writers lock is not assumed.
THEOREM OrderWithinKey == Spec => []KeyOrder
<1> DEFINE I == TypeInv /\ RowsOK /\ DeliveryInv /\ OrderInv
<1>1. Init => I
  <2> SUFFICES ASSUME Init PROVE I
    OBVIOUS
  <2>1. TypeInv
    BY TypeInit, ConstantsAssumption DEF Init, InHandOK, TypeInv
  <2>2. RowsOK
    BY DEF Init, RowsOK
  <2>3. DeliveryInv
    BY DEF Init, DeliveryInv, AcknowledgedOK, NeverDroppedSilently,
       OnlyCommittedPublished, InLog
  <2>4. OrderInv
    BY DEF Init, OrderInv, CommitOrderOK, OverlapOK, BarrierOK, KeyOrder
  <2> QED
    BY <2>1, <2>2, <2>3, <2>4
<1>2. I /\ [Next]_vars => I'
  BY TypeStep, InHandStep, RowsStep, DeliveryStep, OrderStep DEF TypeInv
<1>3. I => KeyOrder
  BY DEF OrderInv
<1> QED
  BY <1>1, <1>2, <1>3, PTL DEF Spec

-----------------------------------------------------------------------------
(***************************************************************************)
(* ConsumerDelivery: what the relay published is delivered.  The inductive *)
(* invariant is DeliveryTypeOK with the parts below; each part is proved   *)
(* with the parts it cites.                                                *)
(***************************************************************************)

Decided(e) == applied[e] > 0 \/ copies[e] > 0

\* A member that is about to acknowledge, or to record the claim of a copy, has
\* decided its delivery, and one that runs a saga's steps has started it.
DecidedBy(m) ==
    /\ phase[m] \in {"ack", "run"} /\ Delivery(m) \in Events => Decided(Delivery(m))
    /\ phase[m] = "asideCommit" => copies[Delivery(m)] > 0

DecisionOK == \A m \in Members : DecidedBy(m)

\* The attempt counter is what the failures recorded for the delivery justify.
AttemptsOK ==
    \A m \in Members :
        /\ phase[m] \in {"claim", "handle", "run", "commit"}
             => attempt[m] >= 1 /\ failures[Delivery(m)] >= attempt[m] - 1
        /\ phase[m] \in {"aside", "copy", "asideCommit"}
             => Delivery(m) \in RuleBreakers \/ failures[Delivery(m)] >= ConsumerMaxAttempts

\* Two open transactions never hold the claim of one delivery, and the claim of
\* a delivery in the ledger is not held.
ClaimOK ==
    /\ \A m, n \in Members :
         m # n /\ phase[m] \in Claiming /\ phase[n] \in Claiming
           => Delivery(m) # Delivery(n)
    /\ \A m \in Members : phase[m] \in Claiming => Delivery(m) \notin ledger

\* A delivery handled more often than its claim was cleared has its ledger row.
AppliedOK ==
    \A e \in Events :
        /\ applied[e] <= 1 + replays[e]
        /\ applied[e] = 1 + replays[e] => e \in ledger

-----------------------------------------------------------------------------
\* The delivery a member holds does not change while other members work.
LEMMA DeliveryStable ==
    ASSUME DeliveryTypeOK, NEW m \in Members, phase[m] # "idle",
           topic' = topic \/ ReplayPublishes, position'[m] = position[m]
    PROVE  topic'[position'[m]] = Delivery(m)
<1>1. position[m] \in 1..Len(topic)
  BY DEF DeliveryTypeOK
<1>2. CASE topic' = topic
  BY <1>2 DEF Delivery
<1>3. CASE ReplayPublishes
  <2>1. replaying \in Events /\ topic' = Append(topic, replaying)
    BY <1>3 DEF DeliveryTypeOK, ReplayPublishes
  <2>2. topic \in Seq(Events \cup Foreign)
    BY DEF DeliveryTypeOK
  <2> QED
    BY <1>1, <2>1, <2>2 DEF Delivery
<1> QED
  BY <1>2, <1>3

\* Init establishes the type invariant.
LEMMA DeliveryTypeInit == DeliveryInit => DeliveryTypeOK
  BY DeliveryAssumption DEF DeliveryInit, DeliveryTypeOK, Phases

\* No step of a member, of the broker or of the operator leaves the types.
LEMMA DeliveryTypeStep == DeliveryTypeOK /\ [DeliveryNext]_deliveryVars => DeliveryTypeOK'
<1> SUFFICES ASSUME DeliveryTypeOK, [DeliveryNext]_deliveryVars PROVE DeliveryTypeOK'
  OBVIOUS
<1> USE DeliveryAssumption
<1>1. ASSUME NEW m \in Members, Deliver(m) PROVE DeliveryTypeOK'
  <2>1. /\ UNCHANGED <<topic, offset, ledger, applied, copies, failures, replaying>>
        /\ UNCHANGED <<deliveryFaults, memberCrashes, replays>>
    BY <1>1 DEF Deliver, store, deliveryBounds
  <2>2. offset \in 1..Len(topic) /\ offset \in 0..Len(topic) /\ 1 \in 0..ConsumerMaxAttempts
    BY <1>1 DEF DeliveryTypeOK, Deliver
  <2>3. /\ position' \in [Members -> 0..Len(topic')]
        /\ attempt' \in [Members -> 0..ConsumerMaxAttempts]
        /\ phase' \in [Members -> Phases]
    BY <1>1, <2>1, <2>2 DEF DeliveryTypeOK, Deliver, Goto, Phases
  <2>4. ASSUME NEW n \in Members, phase'[n] # "idle"
        PROVE  /\ position'[n] \in 1..Len(topic')
               /\ phase'[n] # "ack" => topic'[position'[n]] \in Events
    <3>1. CASE n = m
      <4>1. position'[n] = offset
            /\ phase'[n] = (IF topic[offset] \in Events THEN "claim" ELSE "ack")
        BY <1>1, <3>1 DEF DeliveryTypeOK, Deliver, Decodes, Goto
      <4> QED
        BY <2>1, <2>2, <4>1
    <3>2. CASE n # m
      <4>1. position'[n] = position[n] /\ phase'[n] = phase[n]
        BY <1>1, <3>2 DEF DeliveryTypeOK, Deliver, Goto
      <4> QED
        BY <2>1, <2>4, <4>1 DEF DeliveryTypeOK, Delivery
    <3> QED
      BY <3>1, <3>2
  <2> QED
    BY <2>1, <2>3, <2>4 DEF DeliveryTypeOK, Delivery
<1>2. ASSUME NEW m \in Members, NEW p \in Phases, phase[m] # "idle", Goto(m, p),
             Delivery(m) \in Events, UNCHANGED <<topic, position>>
      PROVE  /\ phase' \in [Members -> Phases]
             /\ \A n \in Members : phase'[n] # "idle" =>
                  /\ position'[n] \in 1..Len(topic')
                  /\ phase'[n] # "ack" => Delivery(n)' \in Events
  BY <1>2 DEF DeliveryTypeOK, Goto, Delivery
<1>3. ASSUME NEW m \in Members, Claim(m) PROVE DeliveryTypeOK'
  <2>1. Delivery(m) \in Events
    BY <1>3 DEF DeliveryTypeOK, Claim
  <2> QED
    BY <1>3, <2>1, <1>2 DEF DeliveryTypeOK, Claim, Phases, store, deliveryBounds
<1>4. ASSUME NEW m \in Members, Handle(m) \/ HandleBreaksRule(m) \/ RunEnds(m)
      PROVE  DeliveryTypeOK'
  <2>1. Delivery(m) \in Events
    BY <1>4 DEF DeliveryTypeOK, Handle, HandleBreaksRule, Raises, RunEnds
  <2>2. phase[m] # "idle"
    BY <1>4 DEF Handle, HandleBreaksRule, Raises, RunEnds
  <2> QED
    BY <1>4, <2>1, <2>2, <1>2
       DEF DeliveryTypeOK, Handle, HandleBreaksRule, RunEnds, Phases, store, deliveryBounds
<1>5. ASSUME NEW m \in Members, AsideClaim(m) PROVE DeliveryTypeOK'
  <2>1. Delivery(m) \in Events
    BY <1>5 DEF DeliveryTypeOK, AsideClaim
  <2> QED
    BY <1>5, <2>1, <1>2 DEF DeliveryTypeOK, AsideClaim, Phases, store, deliveryBounds
<1>6. ASSUME NEW m \in Members, phase[m] \in {"handle", "run", "commit"}, Fault, AttemptFailed(m),
             UNCHANGED <<topic, offset, copies, position, replaying, memberCrashes, replays>>,
             UNCHANGED store \/ Store(m)
      PROVE  DeliveryTypeOK'
  <2>1. Delivery(m) \in Events
    BY <1>6 DEF DeliveryTypeOK
  <2>2. ledger' \subseteq Events /\ applied' \in [Events -> Nat]
    <3>1. CASE UNCHANGED store
      BY <3>1 DEF DeliveryTypeOK, store
    <3>2. CASE Store(m)
      <4>1. applied \in [Events -> Nat] /\ ledger \subseteq Events
        BY DEF DeliveryTypeOK
      <4> QED
        BY <3>2, <2>1, <4>1 DEF Store
    <3> QED
      BY <1>6, <3>1, <3>2
  <2>3. failures' \in [Events -> Nat] /\ deliveryFaults' \in 0..MaxDeliveryFaults
    BY <1>6, <2>1 DEF DeliveryTypeOK, AttemptFailed, Fault
  <2>4. attempt' \in [Members -> 0..ConsumerMaxAttempts]
    <3>1. CASE attempt[m] >= ConsumerMaxAttempts
      BY <1>6, <3>1 DEF DeliveryTypeOK, AttemptFailed
    <3>2. CASE ~(attempt[m] >= ConsumerMaxAttempts)
      <4>1. attempt[m] + 1 \in 0..ConsumerMaxAttempts
        BY <3>2 DEF DeliveryTypeOK
      <4>2. attempt' = [attempt EXCEPT ![m] = @ + 1]
        BY <1>6, <3>2 DEF AttemptFailed
      <4> QED
        BY <4>1, <4>2 DEF DeliveryTypeOK
    <3> QED
      BY <3>1, <3>2
  <2>5. Goto(m, "aside") \/ Goto(m, "claim")
    BY <1>6 DEF AttemptFailed
  <2> QED
    BY <1>6, <2>1, <2>2, <2>3, <2>4, <2>5, <1>2 DEF DeliveryTypeOK, Phases
<1>7. ASSUME NEW m \in Members,
             HandleFails(m) \/ CommitFails(m) \/ CommitUnseen(m) \/ RunFails(m)
      PROVE  DeliveryTypeOK'
  BY <1>7, <1>6 DEF HandleFails, CommitFails, CommitUnseen, RunFails
<1>14. ASSUME NEW m \in Members, Commit(m) \/ StartsSaga(m) PROVE DeliveryTypeOK'
  <2>1. Delivery(m) \in Events
    BY <1>14 DEF DeliveryTypeOK, Commit, StartsSaga
  <2>2. ledger' \subseteq Events /\ applied' \in [Events -> Nat]
    <3>1. applied \in [Events -> Nat] /\ ledger \subseteq Events
      BY DEF DeliveryTypeOK
    <3> QED
      BY <1>14, <2>1, <3>1 DEF Commit, StartsSaga, Store
  <2> QED
    BY <1>14, <2>1, <2>2, <1>2
       DEF DeliveryTypeOK, Commit, StartsSaga, Phases, deliveryBounds
<1>15. ASSUME NEW m \in Members, PublishCopy(m) \/ PublishCopyFails(m) PROVE DeliveryTypeOK'
  <2>1. Delivery(m) \in Events
    BY <1>15 DEF DeliveryTypeOK, PublishCopy, PublishCopyFails
  <2>2. copies' \in [Events -> Nat] /\ deliveryFaults' \in 0..MaxDeliveryFaults
    <3>1. StoreCopy(m) => copies' \in [Events -> Nat]
      BY <2>1 DEF DeliveryTypeOK, StoreCopy
    <3>2. StoreCopy(m) \/ UNCHANGED copies
      BY <1>15 DEF PublishCopy, PublishCopyFails
    <3>3. UNCHANGED deliveryFaults \/ Fault
      BY <1>15 DEF PublishCopy, PublishCopyFails, deliveryBounds
    <3>4. copies' \in [Events -> Nat]
      BY <3>1, <3>2 DEF DeliveryTypeOK
    <3>5. deliveryFaults' \in 0..MaxDeliveryFaults
      BY <3>3 DEF DeliveryTypeOK, Fault
    <3> QED
      BY <3>4, <3>5
  <2> QED
    BY <1>15, <2>1, <2>2, <1>2
       DEF DeliveryTypeOK, PublishCopy, PublishCopyFails, Phases, store, deliveryBounds
<1>8. ASSUME NEW m \in Members, AsideCommit(m) \/ AsideCommitFails(m) PROVE DeliveryTypeOK'
  <2>1. Delivery(m) \in Events
    BY <1>8 DEF DeliveryTypeOK, AsideCommit, AsideCommitFails
  <2>2. ledger' \subseteq Events
    BY <1>8, <2>1 DEF DeliveryTypeOK, AsideCommit, AsideCommitFails
  <2>3. UNCHANGED deliveryFaults \/ Fault
    BY <1>8 DEF AsideCommit, AsideCommitFails, deliveryBounds
  <2>4. deliveryFaults' \in 0..MaxDeliveryFaults
    BY <2>3 DEF DeliveryTypeOK, Fault
  <2> QED
    BY <1>8, <2>1, <2>2, <2>4, <1>2
       DEF DeliveryTypeOK, AsideCommit, AsideCommitFails, Phases, deliveryBounds
<1>9. ASSUME NEW m \in Members, Ack(m) \/ MemberCrash(m) PROVE DeliveryTypeOK'
  <2>1. /\ phase' \in [Members -> Phases]
        /\ \A n \in Members : phase'[n] # "idle" => n # m /\ phase'[n] = phase[n]
    BY <1>9 DEF DeliveryTypeOK, Ack, MemberCrash, Goto, Phases
  <2>2. CASE Ack(m)
    <3>1. offset' \in 1..(Len(topic) + 1)
      BY <2>2 DEF DeliveryTypeOK, Ack
    <3> QED
      BY <2>1, <2>2, <3>1 DEF DeliveryTypeOK, Ack, Delivery, store, deliveryBounds
  <2>3. CASE MemberCrash(m)
    BY <2>1, <2>3 DEF DeliveryTypeOK, MemberCrash, Delivery, store
  <2> QED
    BY <1>9, <2>2, <2>3
<1>10. ASSUME NEW e \in Events, ReplayClearsClaim(e) PROVE DeliveryTypeOK'
  BY <1>10 DEF DeliveryTypeOK, ReplayClearsClaim, Delivery, member
<1>11. CASE ReplayPublishes
  <2>1. replaying \in Events /\ topic \in Seq(Events \cup Foreign)
    BY <1>11 DEF DeliveryTypeOK, ReplayPublishes
  <2>2. topic' \in Seq(Events \cup Foreign) /\ Len(topic') = Len(topic) + 1
    BY <1>11, <2>1 DEF ReplayPublishes
  <2>3. \A n \in Members : phase[n] # "idle" => topic'[position'[n]] = Delivery(n)
    BY <1>11, DeliveryStable DEF ReplayPublishes, member
  <2> QED
    BY <1>11, <2>2, <2>3
       DEF DeliveryTypeOK, ReplayPublishes, Delivery, store, member, deliveryBounds
<1>12. CASE ReplayDies
  BY <1>12 DEF DeliveryTypeOK, ReplayDies, Delivery, store, member
<1>13. CASE UNCHANGED deliveryVars
  BY <1>13 DEF DeliveryTypeOK, Delivery, deliveryVars, store, member, deliveryBounds
<1> QED
  BY <1>1, <1>3, <1>4, <1>5, <1>7, <1>8, <1>9, <1>10, <1>11, <1>12, <1>13, <1>14, <1>15
     DEF DeliveryNext, MemberStep, Attempt, MoveAside, Operator

\* The type invariant of the delivery model holds.
THEOREM DeliveryTypeCorrect == DeliverySpec => []DeliveryTypeOK
  BY DeliveryTypeInit, DeliveryTypeStep, PTL DEF DeliverySpec

-----------------------------------------------------------------------------
\* What a step may do to a member that does not take it: nothing, and its
\* delivery stays the same entry of the log.
LEMMA OthersStay ==
    ASSUME DeliveryTypeOK, [DeliveryNext]_deliveryVars, NEW n \in Members, phase'[n] # "idle",
           phase'[n] = phase[n], position'[n] = position[n]
    PROVE  Delivery(n)' = Delivery(n)
<1>1. topic' = topic \/ ReplayPublishes
  BY DEF DeliveryNext, MemberStep, Attempt, MoveAside, Operator, Deliver, Claim, Handle,
     HandleBreaksRule, HandleFails, Commit, CommitFails, CommitUnseen,
     StartsSaga, RunEnds, RunFails, AsideClaim,
     PublishCopy, PublishCopyFails, AsideCommit, AsideCommitFails, Ack, MemberCrash,
     ReplayClearsClaim, ReplayDies, deliveryVars
<1> QED
  BY <1>1, DeliveryStable DEF Delivery

\* Decisions are only ever added to.
LEMMA DecisionsStay ==
    ASSUME DeliveryTypeOK, [DeliveryNext]_deliveryVars, NEW e \in Events
    PROVE  /\ applied[e] > 0 => applied'[e] > 0
           /\ copies[e] > 0 => copies'[e] > 0
           /\ failures'[e] >= failures[e]
<1> DEFINE P == /\ applied[e] > 0 => applied'[e] > 0
                /\ copies[e] > 0 => copies'[e] > 0
                /\ failures'[e] >= failures[e]
<1>0. applied[e] \in Nat /\ copies[e] \in Nat /\ failures[e] \in Nat
  BY DEF DeliveryTypeOK
<1>1. ASSUME NEW m \in Members,
             HandleFails(m) \/ CommitFails(m) \/ CommitUnseen(m) \/ RunFails(m)
      PROVE  P
  <2>1. failures' = [failures EXCEPT ![Delivery(m)] = @ + 1] /\ UNCHANGED copies
    BY <1>1 DEF HandleFails, CommitFails, CommitUnseen, RunFails, AttemptFailed
  <2>2. UNCHANGED applied \/ applied' = [applied EXCEPT ![Delivery(m)] = @ + 1]
    BY <1>1 DEF HandleFails, CommitFails, CommitUnseen, RunFails, Store, store
  <2>3. failures'[e] >= failures[e] /\ copies'[e] = copies[e]
    BY <1>0, <2>1 DEF DeliveryTypeOK
  <2>4. applied[e] > 0 => applied'[e] > 0
    <3>1. CASE applied' = [applied EXCEPT ![Delivery(m)] = @ + 1]
      BY <1>0, <3>1 DEF DeliveryTypeOK
    <3> QED
      BY <1>0, <2>2, <3>1
  <2> QED
    BY <2>3, <2>4
<1>2. ASSUME NEW m \in Members, Commit(m) \/ StartsSaga(m) PROVE P
  <2>1. /\ applied' = [applied EXCEPT ![Delivery(m)] = @ + 1]
        /\ UNCHANGED <<copies, failures>>
    BY <1>2 DEF Commit, StartsSaga, Store
  <2> QED
    BY <2>1, <1>0 DEF DeliveryTypeOK
<1>3. ASSUME NEW m \in Members, PublishCopy(m) \/ PublishCopyFails(m) PROVE P
  <2>1. StoreCopy(m) \/ UNCHANGED copies
    BY <1>3 DEF PublishCopy, PublishCopyFails
  <2>2. UNCHANGED <<applied, failures>>
    BY <1>3 DEF PublishCopy, PublishCopyFails, store
  <2>3. CASE StoreCopy(m)
    BY <1>0, <2>2, <2>3 DEF DeliveryTypeOK, StoreCopy
  <2> QED
    BY <1>0, <2>1, <2>2, <2>3
<1>4. ASSUME UNCHANGED <<applied, copies, failures>> PROVE P
  BY <1>4, <1>0
<1> QED
  BY <1>1, <1>2, <1>3, <1>4
     DEF DeliveryNext, MemberStep, Attempt, MoveAside, Operator, Deliver, Claim, Handle,
     HandleBreaksRule, RunEnds, AsideClaim, AsideCommit, AsideCommitFails, Ack, MemberCrash,
     ReplayClearsClaim, ReplayPublishes, ReplayDies, deliveryVars, store, member, deliveryBounds

\* A member that takes no step keeps its phase and position.
LEMMA OneMoves ==
    ASSUME DeliveryTypeOK, [DeliveryNext]_deliveryVars
    PROVE  \/ UNCHANGED <<phase, position, attempt>>
           \/ \E m \in Members :
                /\ MemberStep(m) \/ MemberCrash(m)
                /\ phase' = [phase EXCEPT ![m] = phase'[m]]
                /\ \A n \in Members \ {m} : UNCHANGED <<phase[n], position[n], attempt[n]>>
<1>1. ASSUME NEW m \in Members, MemberStep(m) \/ MemberCrash(m)
      PROVE  /\ phase' = [phase EXCEPT ![m] = phase'[m]]
             /\ \A n \in Members \ {m} : UNCHANGED <<phase[n], position[n], attempt[n]>>
  BY <1>1 DEF DeliveryTypeOK, MemberStep, Attempt, MoveAside, Deliver, Claim, Handle,
     HandleBreaksRule, HandleFails, Commit, CommitFails, CommitUnseen,
     StartsSaga, RunEnds, RunFails, AttemptFailed,
     AsideClaim, PublishCopy, PublishCopyFails, AsideCommit, AsideCommitFails, Ack, MemberCrash, Goto
<1> QED
  BY <1>1
     DEF DeliveryNext, Operator, ReplayClearsClaim, ReplayPublishes, ReplayDies,
         deliveryVars, member

-----------------------------------------------------------------------------
\* A member that acknowledges or claims has decided, and a ledger row is a
\* decision; neither depends on replays.
LEMMA DecisionStep ==
    DeliveryTypeOK /\ DeliveryTypeOK' /\ DecisionOK /\ ClaimMeansDecided /\ [DeliveryNext]_deliveryVars
      => DecisionOK' /\ ClaimMeansDecided'
<1> SUFFICES ASSUME DeliveryTypeOK, DeliveryTypeOK', DecisionOK, ClaimMeansDecided, [DeliveryNext]_deliveryVars
             PROVE  DecisionOK' /\ ClaimMeansDecided'
  OBVIOUS
<1>1. \A e \in Events : Decided(e) => Decided(e)'
  BY DecisionsStay DEF Decided
<1>2. ASSUME NEW m \in Members, Store(m), Delivery(m) \in Events
      PROVE  applied'[Delivery(m)] > 0
  <2>1. applied \in [Events -> Nat] /\ applied' = [applied EXCEPT ![Delivery(m)] = @ + 1]
    BY <1>2 DEF DeliveryTypeOK, Store
  <2>2. applied'[Delivery(m)] = applied[Delivery(m)] + 1 /\ applied[Delivery(m)] \in Nat
    BY <1>2, <2>1
  <2> QED
    BY <2>2
<1>3. ASSUME NEW n \in Members PROVE DecidedBy(n)'
  <2>1. CASE phase'[n] = phase[n] /\ position'[n] = position[n]
    <3>1. CASE phase'[n] = "idle"
      BY <3>1 DEF DecidedBy
    <3>2. CASE phase'[n] # "idle"
      <4>1. Delivery(n)' = Delivery(n)
        BY <2>1, <3>2, OthersStay
      <4>2. phase[n] = "asideCommit" => Delivery(n) \in Events
        BY DEF DeliveryTypeOK
      <4>3. DecidedBy(n)
        BY DEF DecisionOK
      <4> QED
        BY <1>1, <2>1, <4>1, <4>2, <4>3, DecisionsStay DEF DecidedBy, Decided
    <3> QED
      BY <3>1, <3>2
  <2>2. CASE Deliver(n)
    BY <2>2 DEF DeliveryTypeOK, Deliver, Decodes, Goto, DecidedBy, Delivery
  <2>3. CASE Claim(n) \/ AsideClaim(n)
    <3>1. Delivery(n) \in Events /\ Delivery(n)' = Delivery(n)
      BY <2>3 DEF DeliveryTypeOK, Claim, AsideClaim, Delivery
    <3>2. phase'[n] \in {"ack", "handle", "copy"} /\ (phase'[n] = "ack" => Delivery(n) \in ledger)
      BY <2>3 DEF DeliveryTypeOK, Claim, AsideClaim, Goto
    <3> QED
      BY <1>1, <3>1, <3>2 DEF DecidedBy, ClaimMeansDecided, Decided
  <2>4. CASE \/ Handle(n) \/ HandleBreaksRule(n) \/ HandleFails(n) \/ CommitFails(n)
             \/ CommitUnseen(n) \/ RunFails(n) \/ PublishCopyFails(n) \/ AsideCommitFails(n) \/ Ack(n) \/ MemberCrash(n)
    <3>1. phase'[n] \in {"idle", "claim", "commit", "aside"}
      BY <2>4
         DEF DeliveryTypeOK, Handle, HandleBreaksRule, HandleFails, CommitFails,
             CommitUnseen, RunFails,
         AttemptFailed, PublishCopyFails, AsideCommitFails, Ack, MemberCrash, Goto
    <3> QED
      BY <3>1 DEF DecidedBy
  <2>5. CASE Commit(n) \/ StartsSaga(n)
    <3>1. /\ Delivery(n) \in Events /\ Delivery(n)' = Delivery(n)
          /\ phase'[n] \in {"ack", "run"} /\ Store(n)
      BY <2>5 DEF DeliveryTypeOK, Commit, StartsSaga, Goto, Delivery
    <3> QED
      BY <1>2, <3>1 DEF DecidedBy, Decided
  <2>6. CASE PublishCopy(n)
    <3>1. Delivery(n) \in Events /\ Delivery(n)' = Delivery(n) /\ phase'[n] = "asideCommit"
      BY <2>6 DEF DeliveryTypeOK, PublishCopy, Goto, Delivery
    <3>2. copies'[Delivery(n)] > 0
      BY <2>6, <3>1 DEF DeliveryTypeOK, PublishCopy, StoreCopy
    <3> QED
      BY <3>1, <3>2 DEF DecidedBy
  <2>7. CASE AsideCommit(n)
    <3>1. Delivery(n) \in Events /\ Delivery(n)' = Delivery(n) /\ phase'[n] = "ack"
      BY <2>7 DEF DeliveryTypeOK, AsideCommit, Goto, Delivery
    <3>2. copies'[Delivery(n)] > 0
      BY <2>7 DEF AsideCommit, DecisionOK, DecidedBy
    <3> QED
      BY <3>1, <3>2 DEF DecidedBy, Decided
  <2>8. CASE RunEnds(n)
    <3>1. /\ Delivery(n) \in Events /\ Delivery(n)' = Delivery(n)
          /\ phase[n] = "run" /\ phase'[n] = "ack"
      BY <2>8 DEF DeliveryTypeOK, RunEnds, Goto, Delivery
    <3>2. Decided(Delivery(n))'
      BY <1>1, <3>1 DEF DecisionOK, DecidedBy, Decided
    <3> QED
      BY <3>1, <3>2 DEF DecidedBy, Decided
  <2> QED
    BY <2>1, <2>2, <2>3, <2>4, <2>5, <2>6, <2>7, <2>8, OneMoves
       DEF MemberStep, Attempt, MoveAside
<1>4. ASSUME NEW e \in ledger' PROVE Decided(e)'
  <2>0. e \in Events
    BY DEF DeliveryTypeOK
  <2>1. CASE e \in ledger
    BY <1>1, <2>0, <2>1 DEF ClaimMeansDecided, Decided
  <2>2. ASSUME NEW m \in Members, Store(m), e = Delivery(m) PROVE Decided(e)'
    BY <1>2, <2>0, <2>2 DEF Decided
  <2>3. ASSUME NEW m \in Members, AsideCommit(m) \/ AsideCommitFails(m), e = Delivery(m)
        PROVE  Decided(e)'
    BY <2>3, <2>0 DEF AsideCommit, AsideCommitFails, DecisionOK, DecidedBy, Decided
  <2>4. \/ ledger' \subseteq ledger
        \/ \E m \in Members : /\ Store(m) \/ AsideCommit(m) \/ AsideCommitFails(m)
                              /\ ledger' \subseteq ledger \cup {Delivery(m)}
    BY DEF DeliveryNext, MemberStep, Attempt, MoveAside, Operator, Deliver, Claim, Handle,
       HandleBreaksRule, HandleFails, Commit, CommitFails, CommitUnseen,
       StartsSaga, RunEnds, RunFails, Store, AsideClaim,
       PublishCopy, PublishCopyFails, AsideCommit, AsideCommitFails, Ack, MemberCrash,
       ReplayClearsClaim, ReplayPublishes, ReplayDies, deliveryVars, store
  <2> QED
    BY <2>1, <2>2, <2>3, <2>4
<1> QED
  BY <1>3, <1>4 DEF DecisionOK, ClaimMeansDecided, Decided

\* The offset passes a delivery only from a member that has decided it.
LEMMA SkipStep ==
    DeliveryTypeOK /\ DeliveryTypeOK' /\ DecisionOK /\ NothingSkipped /\ [DeliveryNext]_deliveryVars => NothingSkipped'
<1> DEFINE D(e) == applied'[e] > 0 \/ copies'[e] > 0
<1> SUFFICES ASSUME DeliveryTypeOK, DeliveryTypeOK', DecisionOK, NothingSkipped, [DeliveryNext]_deliveryVars,
                    NEW p \in 1..(offset' - 1), topic'[p] \in Events
             PROVE  D(topic'[p])
  BY DEF NothingSkipped
<1>1. \A e \in Events : Decided(e) => D(e)
  BY DecisionsStay DEF Decided
<1>2. ASSUME NEW m \in Members, Ack(m) PROVE D(topic'[p])
  <2>1. topic' = topic /\ offset' = (IF offset = position[m] THEN offset + 1 ELSE offset)
    BY <1>2 DEF Ack
  <2>2. CASE p \in 1..(offset - 1)
    BY <1>1, <2>1, <2>2 DEF NothingSkipped, Decided
  <2>3. CASE p \notin 1..(offset - 1)
    <3>1. p = position[m]
      BY <2>1, <2>3 DEF DeliveryTypeOK
    <3> QED
      BY <1>1, <1>2, <2>1, <3>1 DEF Ack, DecisionOK, DecidedBy, Delivery
  <2> QED
    BY <2>2, <2>3
<1>3. ASSUME UNCHANGED <<topic, offset>> PROVE D(topic'[p])
  BY <1>1, <1>3 DEF NothingSkipped, Decided
<1>4. CASE ReplayPublishes
  <2>1. replaying \in Events /\ topic \in Seq(Events \cup Foreign)
    BY <1>4 DEF DeliveryTypeOK, ReplayPublishes
  <2>2. p \in 1..Len(topic) /\ p \in 1..(offset - 1)
    BY <1>4 DEF DeliveryTypeOK, ReplayPublishes
  <2>3. topic'[p] = topic[p]
    BY <1>4, <2>1, <2>2 DEF ReplayPublishes
  <2> QED
    BY <1>1, <2>2, <2>3 DEF NothingSkipped, Decided
<1> QED
  BY <1>2, <1>3, <1>4
     DEF DeliveryNext, MemberStep, Attempt, MoveAside, Operator, Deliver, Claim, Handle,
       HandleBreaksRule, HandleFails, Commit, CommitFails, CommitUnseen,
       StartsSaga, RunEnds, RunFails, AsideClaim,
       PublishCopy, PublishCopyFails, AsideCommit, AsideCommitFails, MemberCrash,
       ReplayClearsClaim, ReplayDies, deliveryVars

\* Nothing is dropped silently: whatever fails, dies, is redelivered or is
\* replayed, a ledger row (INSERT INTO processed_events) stands for a handled
\* delivery or for a copy on the dead-letter topic, and the partition never moves
\* past a delivery that is neither.
THEOREM NothingDropped == DeliverySpec => []NothingDroppedOrSkipped
<1> DEFINE IInv == DeliveryTypeOK /\ DecisionOK /\ ClaimMeansDecided /\ NothingSkipped
<1>1. DeliveryInit => IInv
  <2> SUFFICES ASSUME DeliveryInit PROVE IInv
    OBVIOUS
  <2>1. DecisionOK
    BY DEF DeliveryInit, DecisionOK, DecidedBy
  <2>2. ClaimMeansDecided
    BY DEF DeliveryInit, ClaimMeansDecided
  <2>3. NothingSkipped
    BY DEF DeliveryInit, NothingSkipped
  <2> QED
    BY DeliveryTypeInit, <2>1, <2>2, <2>3
<1>2. IInv /\ [DeliveryNext]_deliveryVars => IInv'
  BY DeliveryTypeStep, DecisionStep, SkipStep
<1>3. IInv => NothingDroppedOrSkipped
  BY DEF NothingDroppedOrSkipped
<1> QED
  BY <1>1, <1>2, <1>3, PTL DEF DeliverySpec

-----------------------------------------------------------------------------
\* The counter of run_with_failure_policy never runs ahead of the failures.
LEMMA AttemptsStep == DeliveryTypeOK /\ DeliveryTypeOK' /\ AttemptsOK /\ [DeliveryNext]_deliveryVars => AttemptsOK'
<1> SUFFICES ASSUME DeliveryTypeOK, DeliveryTypeOK', AttemptsOK, [DeliveryNext]_deliveryVars, NEW n \in Members
             PROVE  /\ phase'[n] \in {"claim", "handle", "run", "commit"}
                         => attempt'[n] >= 1 /\ failures'[Delivery(n)'] >= attempt'[n] - 1
                    /\ phase'[n] \in {"aside", "copy", "asideCommit"}
                         => \/ Delivery(n)' \in RuleBreakers
                            \/ failures'[Delivery(n)'] >= ConsumerMaxAttempts
  BY DEF AttemptsOK
<1> DEFINE Trying == phase'[n] \in {"claim", "handle", "run", "commit"}
                       => attempt'[n] >= 1 /\ failures'[Delivery(n)'] >= attempt'[n] - 1
           Aside == phase'[n] \in {"aside", "copy", "asideCommit"}
                      => \/ Delivery(n)' \in RuleBreakers
                         \/ failures'[Delivery(n)'] >= ConsumerMaxAttempts
           Working == {"claim", "handle", "run", "commit", "aside", "copy", "asideCommit"}
<1> USE DeliveryAssumption
<1>1. \A e \in Events : failures[e] \in Nat /\ failures'[e] \in Nat /\ failures'[e] >= failures[e]
  BY DecisionsStay DEF DeliveryTypeOK
<1>2. attempt[n] \in Nat /\ attempt'[n] \in Nat /\ ConsumerMaxAttempts \in Nat \ {0}
  BY DEF DeliveryTypeOK
<1>3. ASSUME phase[n] \in Working PROVE Delivery(n) \in Events
  BY <1>3 DEF DeliveryTypeOK
<1>4. CASE phase'[n] = phase[n] /\ position'[n] = position[n] /\ attempt'[n] = attempt[n]
  <2>1. CASE phase'[n] \notin Working
    BY <2>1
  <2>2. CASE phase'[n] \in Working
    <3>1. Delivery(n)' = Delivery(n) /\ Delivery(n) \in Events
      BY <1>3, <1>4, <2>2, OthersStay
    <3> QED
      BY <1>1, <1>2, <1>4, <3>1 DEF AttemptsOK
  <2> QED
    BY <2>1, <2>2
<1>5. CASE Deliver(n)
  <2>1. phase'[n] \in {"claim", "ack"} /\ attempt'[n] = 1
    BY <1>5 DEF Deliver, Goto, DeliveryTypeOK
  <2>2. phase'[n] = "claim" => Delivery(n)' \in Events
    BY DEF DeliveryTypeOK
  <2> QED
    BY <1>1, <2>1, <2>2
<1>6. CASE Claim(n) \/ Handle(n) \/ HandleBreaksRule(n) \/ StartsSaga(n)
  <2>1. /\ phase[n] \in {"claim", "handle", "run"}
        /\ UNCHANGED <<topic, position, attempt, failures>>
        /\ phase'[n] \in {"ack", "handle", "run", "commit", "aside"}
        /\ phase'[n] = "aside" => Delivery(n) \in RuleBreakers
    BY <1>6 DEF Claim, Handle, HandleBreaksRule, Raises, StartsSaga, Goto, DeliveryTypeOK
  <2>2. Delivery(n)' = Delivery(n)
    BY <2>1 DEF Delivery
  <2> QED
    BY <2>1, <2>2 DEF AttemptsOK
<1>7. CASE HandleFails(n) \/ CommitFails(n) \/ CommitUnseen(n) \/ RunFails(n)
  <2>1. /\ phase[n] \in {"handle", "run", "commit"} /\ UNCHANGED <<topic, position>>
        /\ AttemptFailed(n)
    BY <1>7 DEF HandleFails, CommitFails, CommitUnseen, RunFails
  <2>2. Delivery(n)' = Delivery(n) /\ Delivery(n) \in Events
    BY <2>1, <1>3 DEF Delivery
  <2>3. failures'[Delivery(n)] = failures[Delivery(n)] + 1
    BY <2>1, <2>2 DEF AttemptFailed, DeliveryTypeOK
  <2>4. attempt[n] >= 1 /\ failures[Delivery(n)] >= attempt[n] - 1
    BY <2>1 DEF AttemptsOK
  <2>5. CASE attempt[n] >= ConsumerMaxAttempts
    <3>1. phase'[n] = "aside"
      BY <2>1, <2>5 DEF AttemptFailed, Goto, DeliveryTypeOK
    <3> QED
      BY <1>1, <1>2, <2>2, <2>3, <2>4, <2>5, <3>1
  <2>6. CASE ~(attempt[n] >= ConsumerMaxAttempts)
    <3>1. phase'[n] = "claim" /\ attempt'[n] = attempt[n] + 1
      BY <2>1, <2>6 DEF AttemptFailed, Goto, DeliveryTypeOK
    <3> QED
      BY <1>1, <1>2, <2>2, <2>3, <2>4, <3>1
  <2> QED
    BY <2>5, <2>6
<1>8. CASE AsideClaim(n) \/ PublishCopy(n)
  <2>1. /\ phase[n] \in {"aside", "copy"} /\ UNCHANGED <<topic, position, failures>>
        /\ phase'[n] \in {"ack", "copy", "asideCommit"}
    BY <1>8 DEF AsideClaim, PublishCopy, Goto, DeliveryTypeOK
  <2>2. Delivery(n)' = Delivery(n)
    BY <2>1 DEF Delivery
  <2> QED
    BY <2>1, <2>2 DEF AttemptsOK
<1>9. CASE \/ Commit(n) \/ RunEnds(n) \/ PublishCopyFails(n) \/ AsideCommit(n) \/ AsideCommitFails(n)
           \/ Ack(n) \/ MemberCrash(n)
  <2>1. phase'[n] \in {"ack", "idle"}
    BY <1>9
       DEF Commit, RunEnds, PublishCopyFails, AsideCommit, AsideCommitFails, Ack,
           MemberCrash, Goto, DeliveryTypeOK
  <2> QED
    BY <2>1
<1> QED
  BY <1>4, <1>5, <1>6, <1>7, <1>8, <1>9, OneMoves DEF MemberStep, Attempt, MoveAside

\* A copy is published only from the move-aside of its delivery.
LEMMA AsideStep ==
    DeliveryTypeOK /\ AttemptsOK /\ AsideOnlyAfterBudget /\ [DeliveryNext]_deliveryVars => AsideOnlyAfterBudget'
<1> SUFFICES ASSUME DeliveryTypeOK, AttemptsOK, AsideOnlyAfterBudget, [DeliveryNext]_deliveryVars,
                    NEW e \in Events \ RuleBreakers, copies'[e] > 0
             PROVE  failures'[e] >= ConsumerMaxAttempts
  BY DEF AsideOnlyAfterBudget
<1> USE DeliveryAssumption
<1>1. failures[e] \in Nat /\ failures'[e] >= failures[e]
  BY DecisionsStay DEF DeliveryTypeOK
<1>2. ASSUME NEW m \in Members, phase[m] = "copy", StoreCopy(m), UNCHANGED failures
      PROVE  failures'[e] >= ConsumerMaxAttempts
  <2>1. CASE Delivery(m) = e
    BY <1>2, <2>1 DEF AttemptsOK
  <2>2. CASE Delivery(m) # e
    <3>1. copies'[e] = copies[e]
      BY <1>2, <2>2 DEF StoreCopy, DeliveryTypeOK
    <3> QED
      BY <1>2, <3>1 DEF AsideOnlyAfterBudget
  <2> QED
    BY <2>1, <2>2
<1>3. \/ UNCHANGED copies
      \/ \E m \in Members : phase[m] = "copy" /\ StoreCopy(m) /\ UNCHANGED failures
  BY DEF DeliveryNext, MemberStep, Attempt, MoveAside, Operator, Deliver, Claim, Handle,
     HandleBreaksRule, HandleFails, Commit, CommitFails, CommitUnseen,
     StartsSaga, RunEnds, RunFails, AsideClaim,
     PublishCopy, PublishCopyFails, AsideCommit, AsideCommitFails, Ack, MemberCrash,
     ReplayClearsClaim, ReplayPublishes, ReplayDies, deliveryVars
<1>4. CASE UNCHANGED copies
  <2>1. failures[e] >= ConsumerMaxAttempts
    BY <1>4 DEF AsideOnlyAfterBudget
  <2>2. failures'[e] \in Int
    BY <1>1, DeliveryTypeStep DEF DeliveryTypeOK
  <2> QED
    BY <1>1, <2>1, <2>2
<1> QED
  BY <1>2, <1>3, <1>4

\* The failure policy spends the whole budget: a delivery that breaks no domain
\* rule reaches the dead-letter topic only after consumer_max_attempts failures.
THEOREM DeliveryBudgetSafe == DeliverySpec => []AsideOnlyAfterBudget
<1> DEFINE IInv == DeliveryTypeOK /\ AttemptsOK /\ AsideOnlyAfterBudget
<1>1. DeliveryInit => IInv
  <2> SUFFICES ASSUME DeliveryInit PROVE IInv
    OBVIOUS
  <2>1. AttemptsOK
    BY DEF DeliveryInit, AttemptsOK
  <2>2. AsideOnlyAfterBudget
    BY DEF DeliveryInit, AsideOnlyAfterBudget
  <2> QED
    BY DeliveryTypeInit, <2>1, <2>2
<1>2. IInv /\ [DeliveryNext]_deliveryVars => IInv'
  BY DeliveryTypeStep, AttemptsStep, AsideStep
<1> QED
  BY <1>1, <1>2, PTL DEF DeliverySpec

-----------------------------------------------------------------------------
\* The ledger grows by the delivery of a transaction that commits, and shrinks
\* only by the claim an operator clears, which is counted.
LEMMA LedgerMoves ==
    ASSUME DeliveryTypeOK, [DeliveryNext]_deliveryVars
    PROVE  \/ /\ UNCHANGED replays
              /\ \/ ledger' = ledger
                 \/ \E m \in Members :
                      /\ phase[m] \in {"handle", "commit", "asideCommit"} /\ phase'[m] \notin Claiming
                      /\ ledger' = ledger \cup {Delivery(m)}
                      /\ phase[m] = "asideCommit" => ClaimFree(m, Delivery(m))
           \/ \E e \in Events : ReplayClearsClaim(e)
<1> DEFINE P == \/ /\ UNCHANGED replays
                   /\ \/ ledger' = ledger
                      \/ \E m \in Members :
                           /\ phase[m] \in {"handle", "commit", "asideCommit"} /\ phase'[m] \notin Claiming
                           /\ ledger' = ledger \cup {Delivery(m)}
                           /\ phase[m] = "asideCommit" => ClaimFree(m, Delivery(m))
                \/ \E e \in Events : ReplayClearsClaim(e)
<1>1. ASSUME NEW m \in Members, phase[m] \in {"handle", "commit", "asideCommit"},
             phase'[m] \in {"idle", "ack", "run", "aside", "claim"}, UNCHANGED replays,
             ledger' = ledger \cup {Delivery(m)},
             phase[m] = "asideCommit" => ClaimFree(m, Delivery(m))
      PROVE  P
  BY <1>1 DEF Claiming
<1>2. ASSUME UNCHANGED <<ledger, replays>> PROVE P
  BY <1>2
<1>3. ASSUME NEW m \in Members, Commit(m) \/ CommitUnseen(m) \/ StartsSaga(m) PROVE P
  <2>1. /\ phase[m] \in {"handle", "commit"} /\ UNCHANGED replays
        /\ ledger' = ledger \cup {Delivery(m)}
        /\ phase'[m] \in {"ack", "run", "aside", "claim"}
    BY <1>3
       DEF Commit, CommitUnseen, StartsSaga, Store, AttemptFailed, Goto, DeliveryTypeOK,
           deliveryBounds
  <2> QED
    BY <2>1, <1>1
<1>4. ASSUME NEW m \in Members, AsideCommit(m) \/ AsideCommitFails(m) PROVE P
  <2>1. /\ phase[m] = "asideCommit" /\ UNCHANGED replays
        /\ ClaimFree(m, Delivery(m)) /\ phase'[m] \in {"ack", "idle"}
    BY <1>4 DEF AsideCommit, AsideCommitFails, Goto, DeliveryTypeOK, deliveryBounds
  <2>2. ledger' = ledger \/ ledger' = ledger \cup {Delivery(m)}
    BY <1>4 DEF AsideCommit, AsideCommitFails
  <2> QED
    BY <2>1, <2>2, <1>1, <1>2
<1>5. ASSUME NEW e \in Events, ReplayClearsClaim(e) PROVE P
  BY <1>5
<1> QED
  BY <1>2, <1>3, <1>4, <1>5
     DEF DeliveryNext, MemberStep, Attempt, MoveAside, Operator, Deliver, Claim, Handle,
     HandleBreaksRule, HandleFails, CommitFails, RunEnds, RunFails, AsideClaim, PublishCopy, PublishCopyFails,
     Ack, MemberCrash, ReplayPublishes, ReplayDies, deliveryVars, store, deliveryBounds

\* A member holds a claim because it held it before, or because the insert of the
\* ledger row went through just now.
LEMMA ClaimTaken ==
    ASSUME DeliveryTypeOK, [DeliveryNext]_deliveryVars, NEW n \in Members, phase'[n] \in Claiming
    PROVE  /\ Delivery(n)' = Delivery(n)
           /\ \/ phase[n] \in Claiming
              \/ /\ Delivery(n) \notin ledger /\ ClaimFree(n, Delivery(n))
                 /\ UNCHANGED ledger
                 /\ \A k \in Members \ {n} : UNCHANGED <<phase[k], position[k]>>
<1> DEFINE P == /\ Delivery(n)' = Delivery(n)
                /\ \/ phase[n] \in Claiming
                   \/ /\ Delivery(n) \notin ledger /\ ClaimFree(n, Delivery(n))
                      /\ UNCHANGED ledger
                      /\ \A k \in Members \ {n} : UNCHANGED <<phase[k], position[k]>>
<1>1. CASE phase'[n] = phase[n] /\ position'[n] = position[n]
  <2>1. phase'[n] # "idle"
    BY DEF Claiming
  <2> QED
    BY <1>1, <2>1, OthersStay
<1>2. CASE Claim(n)
  <2>1. phase'[n] = (IF Delivery(n) \in ledger THEN "ack" ELSE "handle")
    BY <1>2 DEF Claim, Goto, DeliveryTypeOK
  <2>2. Delivery(n) \notin ledger
    BY <2>1 DEF Claiming
  <2> QED
    BY <1>2, <2>2 DEF Claim, Goto, Delivery, store, DeliveryTypeOK
<1>3. CASE AsideClaim(n)
  <2>1. CASE side = "write"
    <3>1. phase'[n] = (IF Delivery(n) \in ledger THEN "ack" ELSE "copy")
      BY <1>3, <2>1 DEF AsideClaim, Goto, DeliveryTypeOK
    <3>2. Delivery(n) \notin ledger
      BY <2>1, <3>1 DEF Claiming
    <3> QED
      BY <1>3, <2>1, <3>2 DEF AsideClaim, Goto, Delivery, store, DeliveryTypeOK
  <2>2. CASE side # "write"
    BY <1>3, <2>2 DEF AsideClaim, Goto, DeliveryTypeOK, Claiming
  <2> QED
    BY <2>1, <2>2
<1>4. CASE Handle(n)
  BY <1>4 DEF Handle, Delivery, Claiming
<1>5. CASE PublishCopy(n)
  <2>1. phase[n] = "copy" /\ phase'[n] = "asideCommit" /\ UNCHANGED <<topic, position>>
    BY <1>5 DEF PublishCopy, Goto, DeliveryTypeOK
  <2>2. phase[n] \in Claiming
    BY <2>1 DEF Claiming
  <2> QED
    BY <2>1, <2>2 DEF Delivery
<1>6. CASE \/ Deliver(n) \/ HandleBreaksRule(n) \/ HandleFails(n) \/ Commit(n) \/ CommitFails(n)
           \/ CommitUnseen(n) \/ StartsSaga(n) \/ RunEnds(n) \/ RunFails(n)
           \/ PublishCopyFails(n) \/ AsideCommit(n) \/ AsideCommitFails(n)
           \/ Ack(n) \/ MemberCrash(n)
  <2>1. phase'[n] \in {"idle", "claim", "run", "ack", "aside"}
    BY <1>6
       DEF Deliver, HandleBreaksRule, HandleFails, Commit, CommitFails, CommitUnseen,
           StartsSaga, RunEnds, RunFails,
       AttemptFailed, PublishCopyFails, AsideCommit, AsideCommitFails, Ack, MemberCrash, Goto, DeliveryTypeOK
  <2> QED
    BY <2>1 DEF Claiming
<1> QED
  BY <1>1, <1>2, <1>3, <1>4, <1>5, <1>6, OneMoves DEF MemberStep, Attempt, MoveAside

\* The insert that waits, and the row that stays, keep a claim exclusive.
LEMMA ClaimStep ==
    DeliveryTypeOK /\ DeliveryTypeOK' /\ ClaimOK /\ [DeliveryNext]_deliveryVars => ClaimOK'
<1> SUFFICES ASSUME DeliveryTypeOK, DeliveryTypeOK', ClaimOK, [DeliveryNext]_deliveryVars
             PROVE  ClaimOK'
  OBVIOUS
<1>1. ASSUME NEW m \in Members, NEW n \in Members, m # n,
             phase'[m] \in Claiming, phase'[n] \in Claiming
      PROVE  Delivery(m)' # Delivery(n)'
  <2>1. Delivery(m)' = Delivery(m) /\ Delivery(n)' = Delivery(n)
    BY <1>1, ClaimTaken
  <2>2. CASE phase[m] \in Claiming /\ phase[n] \in Claiming
    BY <1>1, <2>1, <2>2 DEF ClaimOK
  <2>3. ASSUME NEW j \in Members, NEW k \in Members, j # k, phase'[k] \in Claiming,
               phase'[j] \in Claiming, phase[j] \notin Claiming
        PROVE  Delivery(j) # Delivery(k)
    <3>1. ClaimFree(j, Delivery(j)) /\ phase'[k] = phase[k]
      BY <2>3, ClaimTaken
    <3> QED
      BY <2>3, <3>1 DEF ClaimFree
  <2> QED
    BY <1>1, <2>1, <2>2, <2>3
<1>2. ASSUME NEW n \in Members, phase'[n] \in Claiming PROVE Delivery(n)' \notin ledger'
  <2>1. Delivery(n)' = Delivery(n) /\ Delivery(n) \notin ledger
    BY <1>2, ClaimTaken DEF ClaimOK
  <2>2. CASE ledger' \subseteq ledger
    BY <2>1, <2>2
  <2>3. ASSUME NEW m \in Members, phase[m] \in {"handle", "commit", "asideCommit"},
               phase'[m] \notin Claiming, ledger' = ledger \cup {Delivery(m)},
               phase[m] = "asideCommit" => ClaimFree(m, Delivery(m)), ledger' # ledger
        PROVE  Delivery(n) # Delivery(m)
    <3>1. m # n /\ phase[n] \in Claiming
      BY <1>2, <2>3, ClaimTaken
    <3>2. CASE phase[m] \in {"handle", "commit"}
      <4>1. phase[m] \in Claiming
        BY <3>2 DEF Claiming
      <4> QED
        BY <3>1, <4>1 DEF ClaimOK
    <3>3. CASE phase[m] = "asideCommit"
      BY <2>3, <3>1, <3>3 DEF ClaimFree
    <3> QED
      BY <2>3, <3>2, <3>3
  <2>4. ASSUME NEW e \in Events, ReplayClearsClaim(e) PROVE ledger' \subseteq ledger
    BY <2>4 DEF ReplayClearsClaim
  <2> QED
    BY <2>1, <2>2, <2>3, <2>4, LedgerMoves
<1>3. Claiming' = Claiming
  BY DEF DeliveryNext, deliveryVars, Claiming
<1> DEFINE D(m) == topic'[position'[m]]
<1>4. /\ \A m, n \in Members :
           m # n /\ phase'[m] \in Claiming /\ phase'[n] \in Claiming => D(m) # D(n)
      /\ \A n \in Members : phase'[n] \in Claiming => D(n) \notin ledger'
  BY <1>1, <1>2 DEF Delivery
<1> QED
  BY <1>3, <1>4 DEF ClaimOK, Delivery

\* A handled delivery is in the ledger, so its claim is not taken again until an
\* operator clears it.
LEMMA AppliedStep ==
    DeliveryTypeOK /\ ClaimOK /\ AppliedOK /\ [DeliveryNext]_deliveryVars => AppliedOK'
<1> SUFFICES ASSUME DeliveryTypeOK, ClaimOK, AppliedOK, [DeliveryNext]_deliveryVars, NEW e \in Events
             PROVE  /\ applied'[e] <= 1 + replays'[e]
                    /\ applied'[e] = 1 + replays'[e] => e \in ledger'
  BY DEF AppliedOK
<1>1. applied[e] \in Nat /\ replays[e] \in Nat
  BY DeliveryAssumption DEF DeliveryTypeOK
<1>2. ASSUME UNCHANGED <<applied, replays>>, ledger \subseteq ledger'
      PROVE  /\ applied'[e] <= 1 + replays'[e]
             /\ applied'[e] = 1 + replays'[e] => e \in ledger'
  BY <1>1, <1>2 DEF AppliedOK
<1>3. ASSUME NEW m \in Members, phase[m] \in {"handle", "commit"}, Store(m), UNCHANGED replays
      PROVE  /\ applied'[e] <= 1 + replays'[e]
             /\ applied'[e] = 1 + replays'[e] => e \in ledger'
  <2>1. Delivery(m) \notin ledger
    BY <1>3 DEF ClaimOK, Claiming
  <2>2. CASE Delivery(m) = e
    <3>1. applied[e] <= replays[e]
      BY <1>1, <2>1, <2>2 DEF AppliedOK
    <3>2. applied'[e] = applied[e] + 1 /\ e \in ledger' /\ replays'[e] = replays[e]
      BY <1>3, <2>2 DEF Store, DeliveryTypeOK
    <3> QED
      BY <1>1, <3>1, <3>2
  <2>3. CASE Delivery(m) # e
    <3>1. applied'[e] = applied[e] /\ ledger \subseteq ledger' /\ replays'[e] = replays[e]
      BY <1>3, <2>3 DEF Store, DeliveryTypeOK
    <3> QED
      BY <1>1, <3>1 DEF AppliedOK
  <2> QED
    BY <2>2, <2>3
<1>4. ASSUME NEW f \in Events, ReplayClearsClaim(f)
      PROVE  /\ applied'[e] <= 1 + replays'[e]
             /\ applied'[e] = 1 + replays'[e] => e \in ledger'
  <2>1. applied'[e] = applied[e]
    BY <1>4 DEF ReplayClearsClaim
  <2>2. CASE f = e
    <3>1. replays'[e] = replays[e] + 1
      BY <1>4, <2>2 DEF ReplayClearsClaim, DeliveryTypeOK
    <3> QED
      BY <1>1, <2>1, <3>1 DEF AppliedOK
  <2>3. CASE f # e
    <3>1. replays'[e] = replays[e] /\ ledger' = ledger \ {f}
      BY <1>4, <2>3 DEF ReplayClearsClaim, DeliveryTypeOK
    <3> QED
      BY <1>1, <2>1, <2>3, <3>1 DEF AppliedOK
  <2> QED
    BY <2>2, <2>3
<1>5. \/ UNCHANGED <<applied, replays>> /\ ledger \subseteq ledger'
      \/ \E m \in Members : phase[m] \in {"handle", "commit"} /\ Store(m) /\ UNCHANGED replays
      \/ \E f \in Events : ReplayClearsClaim(f)
  BY DEF DeliveryNext, MemberStep, Attempt, MoveAside, Operator, Deliver, Claim, Handle,
     HandleBreaksRule, HandleFails, Commit, CommitFails, CommitUnseen,
     StartsSaga, RunEnds, RunFails, AsideClaim,
     PublishCopy, PublishCopyFails, AsideCommit, AsideCommitFails, Ack, MemberCrash,
     ReplayPublishes, ReplayDies, deliveryVars, store, deliveryBounds
<1> QED
  BY <1>2, <1>3, <1>4, <1>5

\* Handled once, and once more for each time an operator cleared the claim:
\* redeliveries, rebalances, lost acknowledgements, commits that were not seen
\* and crashes never commit the writes of one delivery again, on either side.
THEOREM HandledOnce == DeliverySpec => []AppliedOnce
<1> DEFINE IInv == DeliveryTypeOK /\ ClaimOK /\ AppliedOK
<1>1. DeliveryInit => IInv
  <2> SUFFICES ASSUME DeliveryInit PROVE IInv
    OBVIOUS
  <2>1. ClaimOK
    BY DEF DeliveryInit, ClaimOK, Claiming
  <2>2. AppliedOK
    BY DEF DeliveryInit, AppliedOK
  <2> QED
    BY DeliveryTypeInit, <2>1, <2>2
<1>2. IInv /\ [DeliveryNext]_deliveryVars => IInv'
  BY DeliveryTypeStep, ClaimStep, AppliedStep
<1>3. IInv => AppliedOnce
  BY DEF AppliedOK, AppliedOnce
<1> QED
  BY <1>1, <1>2, <1>3, PTL DEF DeliverySpec
=============================================================================
