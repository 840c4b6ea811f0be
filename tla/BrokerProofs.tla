---------------------------- MODULE BrokerProofs ----------------------------
(***************************************************************************)
(* Theorems about Broker, for every value of its constants.                *)
(***************************************************************************)
EXTENDS BrokerRelay, SequenceTheorems, WellFoundedInduction, TLAPS

-----------------------------------------------------------------------------
(* Types, and where every pick is.                                         *)

Metrics == [received : Nat, overflow : Nat, duplicates : Nat]
Outcomes == [added : Nat, failed : Nat]

\* The types of TypeOK without the bound on what is counted, which follows from
\* EveryPickAccountedFor.
Typed ==
    /\ clock \in Time
    /\ running \in BOOLEAN
    /\ mInputQueue \in Seq(Picks) /\ Len(mInputQueue) <= QueueCapacity
    /\ processor \in {"idle", "popped", "stamped", "added"}
    /\ item \in Item
    /\ cleaner \in {"waiting", "dated"}
    /\ oldestLoadTime \in Int
    /\ database \subseteq Item
    /\ store \subseteq Item
    /\ metrics \in Metrics
    /\ uncounted \in Nat
    /\ outcome \in Outcomes
    /\ broadcast \subseteq Item
    /\ missed \subseteq Item

Accepted == metrics.received + uncounted

Hand == IF processor \in {"popped", "stamped"} THEN 1 ELSE 0

WithinBound == Accepted <= MaxSubmissions

Balanced == Accepted = Settled + Len(mInputQueue) + Hand

CountInv == Typed /\ WithinBound /\ Balanced

\* What a callback leaves of the queue.
Kept == SubSeq(mInputQueue, Overflow + 1, Len(mInputQueue))

LEMMA RoomIsMade ==
    ASSUME BrokerAssumption, Typed
    PROVE  /\ Overflow = IF Len(mInputQueue) = QueueCapacity THEN 1 ELSE 0
           /\ Kept \in Seq(Picks)
           /\ Len(Kept) = Len(mInputQueue) - Overflow
           /\ \A k \in 1..Len(Kept) : Kept[k] = mInputQueue[k + Overflow]
           /\ Len(Kept) < QueueCapacity
<1>1. /\ Len(mInputQueue) \in Nat /\ Len(mInputQueue) <= QueueCapacity
      /\ QueueCapacity \in Nat \ {0}
  BY DEF Typed, BrokerAssumption
<1>2. Overflow = IF Len(mInputQueue) = QueueCapacity THEN 1 ELSE 0
  BY <1>1 DEF Overflow
<1>3. \A k \in (Overflow + 1)..Len(mInputQueue) : mInputQueue[k] \in Picks
  BY <1>1, <1>2 DEF Typed
<1>4. /\ Kept \in Seq(Picks)
      /\ Len(Kept) = Len(mInputQueue) - Overflow
      /\ \A k \in 1..(Len(mInputQueue) - Overflow) : Kept[k] = mInputQueue[k + Overflow]
  <2>. DEFINE m == Overflow + 1
              n == Len(mInputQueue)
  <2>1. m \in Int /\ n \in Int /\ n - m + 1 = Len(mInputQueue) - Overflow
    BY <1>1, <1>2
  <2>2. /\ SubSeq(mInputQueue, m, n) \in Seq(Picks)
        /\ Len(SubSeq(mInputQueue, m, n)) = IF m <= n THEN n - m + 1 ELSE 0
        /\ \A k \in 1..(n - m + 1) : SubSeq(mInputQueue, m, n)[k] = mInputQueue[m + k - 1]
    <3>. HIDE DEF m, n
    <3>. QED BY <1>3, <2>1, SubSeqProperties DEF m, n
  <2>3. n - m + 1 = IF m <= n THEN n - m + 1 ELSE 0
    <3>1. m <= n + 1
      BY <1>1, <1>2
    <3>. HIDE DEF m, n
    <3>. QED BY <2>1, <3>1
  <2>4. \A k \in 1..(Len(mInputQueue) - Overflow) : m + k - 1 = k + Overflow
    BY <1>1, <1>2
  <2>. QED BY <2>1, <2>2, <2>3, <2>4 DEF Kept
<1>. QED BY <1>1, <1>2, <1>4

\* What the locals of the two loops are between their turns.
LEMMA LocalsAreTyped ==
    ASSUME BrokerAssumption
    PROVE  /\ NoItem \in Item /\ NoLoadTime \in Int
           /\ \A c \in Time : NoLoadTime <= c - PickRetentionInterval
<1>1. (CHOOSE p \in Picks : TRUE) \in Picks
  BY DEF BrokerAssumption, Picks
<1>2. 0 \in Time
  BY DEF BrokerAssumption, Time
<1>3. NoItem \in Item
  BY <1>1, <1>2 DEF NoItem, Item
<1>4. NoLoadTime \in Int /\ \A c \in Time : NoLoadTime <= c - PickRetentionInterval
  BY DEF NoLoadTime, Time, BrokerAssumption
<1>. QED BY <1>3, <1>4

LEMMA CountInvInit == ASSUME BrokerAssumption, Init PROVE CountInv
<1>1. item \in Item /\ oldestLoadTime \in Int
  BY LocalsAreTyped DEF Init
<1>2. Typed
  BY <1>1 DEF Init, Typed, Metrics, Outcomes, NoMetrics, Time, BrokerAssumption
<1>3. Accepted = 0 /\ Settled = 0 /\ Hand = 0 /\ Len(mInputQueue) = 0
  BY DEF Init, NoMetrics, Accepted, Settled, Hand
<1>. QED BY <1>2, <1>3 DEF CountInv, WithinBound, Balanced, BrokerAssumption

LEMMA PicksOfMessages ==
    ASSUME BrokerAssumption, NEW message \in Messages
    PROVE  Taken(message) \subseteq Picks
<1>1. ASSUME IsValid(message, clock) PROVE IsValid(message, message.time)
  <2>1. message.time \in Int
    BY DEF BrokerAssumption
  <2>2. message.time <= message.time
    BY <2>1
  <2>. QED BY <1>1, <2>2 DEF IsValid
<1>. QED BY <1>1 DEF Taken, Picks

LEMMA CleanedProperties ==
    ASSUME NEW items, NEW o
    PROVE  /\ Cleaned(items, o) \subseteq items
           /\ \A i \in items : i.time >= o => i \in Cleaned(items, o)
  BY DEF Cleaned

\* What is counted, if only one counter is raised, and by how much.
LEMMA SettledProperties ==
    ASSUME metrics \in Metrics, outcome \in Outcomes, uncounted \in Nat, NEW k \in Nat
    PROVE  /\ Settled \in Nat /\ Accepted \in Nat
           /\ metrics' = [metrics EXCEPT !.overflow = @ + k] /\ outcome' = outcome
                 => Settled' = Settled + k /\ metrics' \in Metrics
                    /\ metrics'.received = metrics.received
           /\ metrics' = [metrics EXCEPT !.duplicates = @ + 1] /\ outcome' = outcome
                 => Settled' = Settled + 1 /\ metrics' \in Metrics
                    /\ metrics'.received = metrics.received
           /\ metrics' = [metrics EXCEPT !.received = @ + 1] /\ outcome' = outcome
                 => Settled' = Settled /\ metrics' \in Metrics
                    /\ metrics'.received = metrics.received + 1
           /\ metrics' = metrics /\ outcome' = [outcome EXCEPT !.added = @ + 1]
                 => Settled' = Settled + 1 /\ outcome' \in Outcomes
           /\ metrics' = metrics /\ outcome' = [outcome EXCEPT !.failed = @ + 1]
                 => Settled' = Settled + 1 /\ outcome' \in Outcomes
<1>1. PICK r \in Nat, o \in Nat, d \in Nat :
          metrics = [received |-> r, overflow |-> o, duplicates |-> d]
  BY DEF Metrics
<1>2. PICK a \in Nat, f \in Nat : outcome = [added |-> a, failed |-> f]
  BY DEF Outcomes
<1>3. Settled = o + d + a + f /\ Accepted = r + uncounted
  BY <1>1, <1>2 DEF Settled, Accepted
<1>4. Settled \in Nat /\ Accepted \in Nat
  BY <1>3
<1>5. ASSUME metrics' = [metrics EXCEPT !.overflow = @ + k], outcome' = outcome
      PROVE  Settled' = Settled + k /\ metrics' \in Metrics
             /\ metrics'.received = metrics.received
  <2>1. metrics' = [received |-> r, overflow |-> o + k, duplicates |-> d]
    BY <1>1, <1>5
  <2>2. Settled' = (o + k) + d + a + f
    BY <1>2, <1>5, <2>1 DEF Settled
  <2>3. metrics' \in Metrics /\ metrics'.received = metrics.received
    BY <1>1, <2>1 DEF Metrics
  <2>. QED BY <1>3, <2>2, <2>3
<1>6. ASSUME metrics' = [metrics EXCEPT !.duplicates = @ + 1], outcome' = outcome
      PROVE  Settled' = Settled + 1 /\ metrics' \in Metrics
             /\ metrics'.received = metrics.received
  <2>1. metrics' = [received |-> r, overflow |-> o, duplicates |-> d + 1]
    BY <1>1, <1>6
  <2>2. Settled' = o + (d + 1) + a + f
    BY <1>2, <1>6, <2>1 DEF Settled
  <2>3. metrics' \in Metrics /\ metrics'.received = metrics.received
    BY <1>1, <2>1 DEF Metrics
  <2>. QED BY <1>3, <2>2, <2>3
<1>7. ASSUME metrics' = [metrics EXCEPT !.received = @ + 1], outcome' = outcome
      PROVE  Settled' = Settled /\ metrics' \in Metrics
             /\ metrics'.received = metrics.received + 1
  <2>1. metrics' = [received |-> r + 1, overflow |-> o, duplicates |-> d]
    BY <1>1, <1>7
  <2>2. Settled' = o + d + a + f
    BY <1>2, <1>7, <2>1 DEF Settled
  <2>3. metrics' \in Metrics /\ metrics'.received = metrics.received + 1
    BY <1>1, <2>1 DEF Metrics
  <2>. QED BY <1>3, <2>2, <2>3
<1>8. ASSUME metrics' = metrics, outcome' = [outcome EXCEPT !.added = @ + 1]
      PROVE  Settled' = Settled + 1 /\ outcome' \in Outcomes
  <2>1. outcome' = [added |-> a + 1, failed |-> f]
    BY <1>2, <1>8
  <2>2. Settled' = o + d + (a + 1) + f
    BY <1>1, <1>8, <2>1 DEF Settled
  <2>. QED BY <1>3, <2>1, <2>2 DEF Outcomes
<1>9. ASSUME metrics' = metrics, outcome' = [outcome EXCEPT !.failed = @ + 1]
      PROVE  Settled' = Settled + 1 /\ outcome' \in Outcomes
  <2>1. outcome' = [added |-> a, failed |-> f + 1]
    BY <1>2, <1>9
  <2>2. Settled' = o + d + a + (f + 1)
    BY <1>1, <1>9, <2>1 DEF Settled
  <2>. QED BY <1>3, <2>1, <2>2 DEF Outcomes
<1>. QED BY <1>4, <1>5, <1>6, <1>7, <1>8, <1>9

LEMMA CountInvNext == ASSUME BrokerAssumption, CountInv, [Next]_vars PROVE CountInv'
<1>. USE DEF processorVars, cleanerVars, metricsVars, historyVars
<1>a. Typed /\ WithinBound /\ Balanced
  BY DEF CountInv
<1>b. /\ mInputQueue \in Seq(Picks) /\ Len(mInputQueue) \in Nat /\ Hand \in {0, 1}
      /\ MaxSubmissions \in Nat /\ uncounted \in Nat
      /\ metrics \in Metrics /\ outcome \in Outcomes /\ metrics.received \in Nat
      /\ Settled \in Nat /\ Accepted \in Nat
  <2>1. /\ mInputQueue \in Seq(Picks) /\ MaxSubmissions \in Nat /\ uncounted \in Nat
        /\ metrics \in Metrics /\ outcome \in Outcomes
    BY <1>a DEF Typed, BrokerAssumption
  <2>. QED BY <2>1, SettledProperties DEF Hand, Metrics
<1>1. ASSUME Tick PROVE CountInv'
  <2>1. Typed'
    BY <1>1, <1>a DEF Tick, Typed, Time, Item, BrokerAssumption
  <2>2. WithinBound' /\ Balanced'
    BY <1>1, <1>a DEF Tick, WithinBound, Balanced, Accepted, Settled, Hand
  <2>. QED BY <2>1, <2>2 DEF CountInv
<1>2. ASSUME NEW message \in Messages, AddPickCallback(message) PROVE CountInv'
  <2>0. PICK pick \in Taken(message) : mInputQueue' = Append(Kept, pick)
    BY <1>2 DEF AddPickCallback, Kept
  <2>. DEFINE q == Append(Kept, pick)
  <2>1. mInputQueue' = q
    BY <2>0
  <2>2. Overflow \in Nat /\ Kept \in Seq(Picks) /\ Len(Kept) = Len(mInputQueue) - Overflow
        /\ Len(Kept) < QueueCapacity /\ pick \in Picks
    BY <1>a, RoomIsMade, PicksOfMessages
  <2>3. q \in Seq(Picks) /\ Len(q) = Len(Kept) + 1
    BY <2>2
  <2>. HIDE DEF q
  <2>4. /\ metrics' = [metrics EXCEPT !.overflow = @ + Overflow] /\ outcome' = outcome
        /\ uncounted' = uncounted + 1 /\ metrics.received + uncounted < MaxSubmissions
        /\ UNCHANGED <<clock, running, processor, item, cleaner, oldestLoadTime,
                       database, store, broadcast, missed>>
    BY <1>2 DEF AddPickCallback
  <2>5. Settled' = Settled + Overflow /\ metrics' \in Metrics
        /\ metrics'.received = metrics.received
    BY <1>b, <2>2, <2>4, SettledProperties
  <2>6. Len(q) <= QueueCapacity /\ uncounted' \in Nat
    <3>1. Len(Kept) \in Nat /\ QueueCapacity \in Nat
      BY <2>2 DEF BrokerAssumption
    <3>2. uncounted' \in Nat
      BY <1>b, <2>4
    <3>. QED BY <2>2, <2>3, <3>1, <3>2
  <2>7. Typed'
    BY <1>a, <1>b, <2>1, <2>3, <2>4, <2>5, <2>6 DEF Typed
  <2>8. Accepted' = Accepted + 1 /\ Hand' = Hand
    <3>1. Accepted' = metrics.received + (uncounted + 1)
      BY <2>4, <2>5 DEF Accepted
    <3>2. Hand' = Hand
      BY <2>4 DEF Hand
    <3>3. \A j, k \in Nat : j + (k + 1) = (j + k) + 1
      OBVIOUS
    <3>4. metrics.received + (uncounted + 1) = (metrics.received + uncounted) + 1
      BY <1>b, <3>3, Zenon
    <3>. QED BY <3>1, <3>2, <3>4, Zenon DEF Accepted
  <2>9. WithinBound'
    BY <1>b, <2>4, <2>8 DEF WithinBound, Accepted
  <2>10. Balanced'
    BY <1>a, <1>b, <2>1, <2>2, <2>3, <2>5, <2>8 DEF Balanced
  <2>. QED BY <2>7, <2>9, <2>10 DEF CountInv
<1>3. ASSUME CountReceived PROVE CountInv'
  <2>1. /\ Settled' = Settled /\ metrics' \in Metrics
        /\ metrics'.received = metrics.received + 1
    BY <1>3, <1>b, SettledProperties DEF CountReceived
  <2>2. uncounted' = uncounted - 1 /\ uncounted' \in Nat
    BY <1>3, <1>b DEF CountReceived
  <2>3. Typed'
    BY <1>3, <1>a, <2>1, <2>2 DEF CountReceived, Typed
  <2>4. Accepted' = Accepted
    BY <1>b, <2>1, <2>2 DEF Accepted
  <2>5. WithinBound' /\ Balanced'
    BY <1>3, <1>a, <2>1, <2>4 DEF CountReceived, WithinBound, Balanced, Hand
  <2>. QED BY <2>3, <2>5 DEF CountInv
<1>4. ASSUME PopPick PROVE CountInv'
  <2>1. /\ Head(mInputQueue) \in Picks /\ Tail(mInputQueue) \in Seq(Picks)
        /\ Len(Tail(mInputQueue)) = Len(mInputQueue) - 1
    BY <1>4, <1>b, HeadTailProperties DEF PopPick
  <2>2. item' \in Item
    BY <1>4, <1>a, <2>1 DEF PopPick, Typed, Item
  <2>3. Typed'
    BY <1>4, <1>a, <2>1, <2>2 DEF PopPick, Typed, BrokerAssumption
  <2>4. Accepted' = Accepted /\ Settled' = Settled /\ Hand' = Hand + 1
    BY <1>4 DEF PopPick, Accepted, Settled, Hand
  <2>5. WithinBound' /\ Balanced'
    BY <1>4, <1>a, <1>b, <2>1, <2>4 DEF PopPick, WithinBound, Balanced
  <2>. QED BY <2>3, <2>5 DEF CountInv
<1>5. ASSUME StampPick PROVE CountInv'
  <2>1. item' \in Item
    BY <1>5, <1>a DEF StampPick, Typed, Item
  <2>2. Typed'
    BY <1>5, <1>a, <2>1 DEF StampPick, Typed
  <2>3. WithinBound' /\ Balanced'
    BY <1>5, <1>a DEF StampPick, WithinBound, Balanced, Accepted, Settled, Hand
  <2>. QED BY <2>2, <2>3 DEF CountInv
<1>6. ASSUME AddPick PROVE CountInv'
  <2>1. Settled' = Settled + 1 /\ outcome' \in Outcomes
    BY <1>6, <1>b, SettledProperties DEF AddPick
  <2>2. Typed'
    BY <1>6, <1>a, <2>1 DEF AddPick, Typed
  <2>3. Accepted' = Accepted /\ Hand = 1 /\ Hand' = 0
    BY <1>6 DEF AddPick, Accepted, Hand
  <2>4. WithinBound' /\ Balanced'
    BY <1>6, <1>a, <1>b, <2>1, <2>3 DEF AddPick, WithinBound, Balanced
  <2>. QED BY <2>2, <2>4 DEF CountInv
<1>7. ASSUME RejectDuplicate PROVE CountInv'
  <2>1. Settled' = Settled + 1 /\ metrics' \in Metrics
        /\ metrics'.received = metrics.received
    BY <1>7, <1>b, SettledProperties DEF RejectDuplicate
  <2>2. Typed'
    BY <1>7, <1>a, <2>1, LocalsAreTyped DEF RejectDuplicate, Typed
  <2>3. Accepted' = Accepted /\ Hand = 1 /\ Hand' = 0
    BY <1>7, <2>1 DEF RejectDuplicate, Accepted, Hand
  <2>4. WithinBound' /\ Balanced'
    BY <1>7, <1>a, <1>b, <2>1, <2>3 DEF RejectDuplicate, WithinBound, Balanced
  <2>. QED BY <2>2, <2>4 DEF CountInv
<1>8. ASSUME AddFails PROVE CountInv'
  <2>1. Settled' = Settled + 1 /\ outcome' \in Outcomes
    BY <1>8, <1>b, SettledProperties DEF AddFails
  <2>2. Typed'
    BY <1>8, <1>a, <2>1, LocalsAreTyped DEF AddFails, Typed
  <2>3. Accepted' = Accepted /\ Hand = 1 /\ Hand' = 0
    BY <1>8 DEF AddFails, Accepted, Hand
  <2>4. WithinBound' /\ Balanced'
    BY <1>8, <1>a, <1>b, <2>1, <2>3 DEF AddFails, WithinBound, Balanced
  <2>. QED BY <2>2, <2>4 DEF CountInv
<1>9. ASSUME EnqueuePick PROVE CountInv'
  <2>1. Cleaned(store, clock - MaxHistory) \subseteq store
    BY CleanedProperties
  <2>2. Typed'
    BY <1>9, <1>a, <2>1, LocalsAreTyped DEF EnqueuePick, Typed
  <2>3. WithinBound' /\ Balanced'
    BY <1>9, <1>a DEF EnqueuePick, WithinBound, Balanced, Accepted, Settled, Hand
  <2>. QED BY <2>2, <2>3 DEF CountInv
<1>10. ASSUME EnqueueFails PROVE CountInv'
  <2>1. Typed'
    BY <1>10, <1>a, CleanedProperties, LocalsAreTyped DEF EnqueueFails, Typed
  <2>2. WithinBound' /\ Balanced'
    BY <1>10, <1>a DEF EnqueueFails, WithinBound, Balanced, Accepted, Settled, Hand
  <2>. QED BY <2>1, <2>2 DEF CountInv
<1>11. ASSUME DateCleaning PROVE CountInv'
  <2>1. oldestLoadTime' \in Int
    BY <1>11, <1>a DEF DateCleaning, Typed, Time, BrokerAssumption
  <2>2. Typed'
    BY <1>11, <1>a, <2>1 DEF DateCleaning, Typed
  <2>3. WithinBound' /\ Balanced'
    BY <1>11, <1>a DEF DateCleaning, WithinBound, Balanced, Accepted, Settled, Hand
  <2>. QED BY <2>2, <2>3 DEF CountInv
<1>12. ASSUME DeletePicksBefore PROVE CountInv'
  <2>1. database' \subseteq database
    BY <1>12 DEF DeletePicksBefore, KeptFrom
  <2>2. Typed'
    BY <1>12, <1>a, <2>1, LocalsAreTyped DEF DeletePicksBefore, Typed
  <2>3. WithinBound' /\ Balanced'
    BY <1>12, <1>a DEF DeletePicksBefore, WithinBound, Balanced, Accepted, Settled, Hand
  <2>. QED BY <2>2, <2>3 DEF CountInv
<1>13. ASSUME Crash PROVE CountInv'
  <2>1. metrics' \in Metrics /\ outcome' \in Outcomes
    BY <1>13 DEF Crash, NoMetrics, Metrics, Outcomes
  <2>2. /\ mInputQueue' \in Seq(Picks) /\ Len(mInputQueue') = 0
        /\ Len(mInputQueue') <= QueueCapacity
    BY <1>13 DEF Crash, BrokerAssumption
  <2>3. Typed'
    BY <1>13, <1>a, <2>1, <2>2, LocalsAreTyped DEF Crash, Typed
  <2>4. Accepted' = 0 /\ Settled' = 0 /\ Hand' = 0
    BY <1>13 DEF Crash, NoMetrics, Accepted, Settled, Hand
  <2>. QED BY <1>b, <2>2, <2>3, <2>4 DEF CountInv, WithinBound, Balanced
<1>14. ASSUME Restart PROVE CountInv'
  <2>1. database' \subseteq database /\ store' \subseteq database'
    BY <1>14, CleanedProperties DEF Restart, Loaded
  <2>2. Typed'
    BY <1>14, <1>a, <2>1 DEF Restart, Typed
  <2>3. WithinBound' /\ Balanced'
    BY <1>14, <1>a DEF Restart, WithinBound, Balanced, Accepted, Settled, Hand
  <2>. QED BY <2>2, <2>3 DEF CountInv
<1>15. ASSUME UNCHANGED vars PROVE CountInv'
  BY <1>15, <1>a DEF vars, CountInv, Typed, WithinBound, Balanced, Accepted, Settled, Hand
<1>. QED BY <1>1, <1>2, <1>3, <1>4, <1>5, <1>6, <1>7, <1>8, <1>9, <1>10, <1>11, <1>12,
            <1>13, <1>14, <1>15 DEF Next, ProcessPick, CleanDatabase

LEMMA CountInvImplies ==
    ASSUME BrokerAssumption, CountInv
    PROVE  TypeOK /\ EveryPickAccountedFor
<1>1. PICK r \in Nat, o \in Nat, d \in Nat :
          metrics = [received |-> r, overflow |-> o, duplicates |-> d]
  BY DEF CountInv, Typed, Metrics
<1>2. PICK a \in Nat, f \in Nat : outcome = [added |-> a, failed |-> f]
  BY DEF CountInv, Typed, Outcomes
<1>3. /\ uncounted \in Nat /\ MaxSubmissions \in Nat /\ Len(mInputQueue) \in Nat
      /\ Hand \in Nat
  BY DEF CountInv, Typed, BrokerAssumption, Hand
<1>4. /\ r + uncounted = (o + d + a + f) + Len(mInputQueue) + Hand
      /\ r + uncounted <= MaxSubmissions
  BY <1>1, <1>2 DEF CountInv, Balanced, WithinBound, Accepted, Settled
<1>5. /\ r \in 0..MaxSubmissions /\ o \in 0..MaxSubmissions /\ d \in 0..MaxSubmissions
      /\ a \in 0..MaxSubmissions /\ f \in 0..MaxSubmissions
      /\ uncounted \in 0..MaxSubmissions
  BY <1>3, <1>4
<1>6. TypeOK
  BY <1>1, <1>2, <1>5 DEF CountInv, Typed, TypeOK
<1>7. EveryPickAccountedFor
  BY DEF CountInv, Balanced, Accepted, Hand, EveryPickAccountedFor
<1>. QED BY <1>6, <1>7

\* Type correctness, with a queue that never exceeds its capacity.
THEOREM TypeCorrect == ASSUME BrokerAssumption PROVE Spec => []TypeOK
<1>1. Init => CountInv
  BY CountInvInit
<1>2. CountInv /\ [Next]_vars => CountInv'
  BY CountInvNext
<1>3. CountInv => TypeOK
  BY CountInvImplies
<1>. QED BY <1>1, <1>2, <1>3, PTL DEF Spec

\* addPickCallback, processPick: every accepted pick is somewhere, or counted once
\* as what became of it, however the threads interleave.
THEOREM NoPickUnaccounted == ASSUME BrokerAssumption PROVE Spec => []EveryPickAccountedFor
<1>1. Init => CountInv
  BY CountInvInit
<1>2. CountInv /\ [Next]_vars => CountInv'
  BY CountInvNext
<1>3. CountInv => EveryPickAccountedFor
  BY CountInvImplies
<1>. QED BY <1>1, <1>2, <1>3, PTL DEF Spec

-----------------------------------------------------------------------------
(* The store against the database.                                         *)

\* Young enough for the database, and for the store.
Young(i) == i.time >= clock - PickRetentionInterval
Recent(i) == i.time >= clock - MaxHistory

\* What the cleaner is about to delete is too old, also when it has waited since.
CutoffIsPast == oldestLoadTime <= clock - PickRetentionInterval

\* Between Database::add and enqueue the pick is not forgotten.
AddedIsPersisted == processor = "added" /\ Young(item) => item \in database

StoreInv ==
    /\ Typed
    /\ ~ running => processor = "idle" /\ store = {}
    /\ CutoffIsPast
    /\ AddedIsPersisted
    /\ StoredPicksArePersisted
    /\ PersistedPicksAreServed

LEMMA PicksAge ==
    ASSUME BrokerAssumption, Typed, NEW i \in Item, clock' \in {clock, clock + 1}
    PROVE  (Young(i)' => Young(i)) /\ (Recent(i)' => Recent(i))
<1>1. i.time \in Int /\ clock \in Int /\ PickRetentionInterval \in Int /\ MaxHistory \in Int
  BY DEF Typed, Item, Time, BrokerAssumption
<1>. DEFINE t == i.time
            c == clock'
<1>2. t \in Int /\ c \in Int /\ (c = clock \/ c = clock + 1)
  BY <1>1
<1>. HIDE DEF t, c
<1>3. /\ t >= c - PickRetentionInterval => t >= clock - PickRetentionInterval
      /\ t >= c - MaxHistory => t >= clock - MaxHistory
  BY <1>1, <1>2
<1>. QED BY <1>3 DEF Young, Recent, t, c

LEMMA KeptFromProperties ==
    ASSUME BrokerAssumption, Typed, CutoffIsPast
    PROVE  /\ KeptFrom(database, oldestLoadTime) \subseteq database
           /\ \A i \in database : Young(i) => i \in KeptFrom(database, oldestLoadTime)
<1>1. ASSUME NEW i \in database, Young(i) PROVE i.time >= oldestLoadTime
  <2>. DEFINE t == i.time
  <2>1. /\ t \in Int /\ clock \in Int /\ PickRetentionInterval \in Int
        /\ oldestLoadTime \in Int
    BY DEF Typed, Item, Time, BrokerAssumption
  <2>2. t >= clock - PickRetentionInterval /\ oldestLoadTime <= clock - PickRetentionInterval
    BY <1>1 DEF Young, CutoffIsPast
  <2>. HIDE DEF t
  <2>3. t >= oldestLoadTime
    BY <2>1, <2>2
  <2>. QED BY <2>3 DEF t
<1>. QED BY <1>1 DEF KeptFrom

LEMMA StoreInvInit == ASSUME BrokerAssumption, Init PROVE StoreInv
<1>1. Typed
  BY CountInvInit DEF CountInv
<1>2. CutoffIsPast
  BY <1>1, LocalsAreTyped DEF Init, CutoffIsPast, Typed
<1>. QED BY <1>1, <1>2 DEF Init, StoreInv, AddedIsPersisted, StoredPicksArePersisted,
         PersistedPicksAreServed

LEMMA StoreInvNext ==
    ASSUME BrokerAssumption, StoreInv, Typed', [Next]_vars
    PROVE  StoreInv'
<1>. USE DEF processorVars, cleanerVars, metricsVars, historyVars
<1>a. /\ Typed /\ CutoffIsPast /\ AddedIsPersisted
      /\ \A i \in store : Young(i) => i \in database
      /\ running => \A i \in database : Recent(i) =>
            i \in store \/ i \in missed \/ (processor = "added" /\ i = item)
      /\ ~ running => processor = "idle" /\ store = {}
  BY DEF StoreInv, StoredPicksArePersisted, PersistedPicksAreServed, Young, Recent
<1>b. /\ item \in Item /\ database \subseteq Item /\ store \subseteq Item
      /\ clock \in Int /\ oldestLoadTime \in Int /\ PickRetentionInterval \in Int
  BY <1>a DEF Typed, Time, BrokerAssumption
<1>c. SUFFICES ASSUME Next \/ UNCHANGED vars
               PROVE  /\ ~ running' => processor' = "idle" /\ store' = {}
                      /\ CutoffIsPast'
                      /\ AddedIsPersisted'
                      /\ \A i \in store' : Young(i)' => i \in database'
                      /\ running' => \A i \in database' : Recent(i)' =>
                            \/ i \in store' \/ i \in missed'
                            \/ processor' = "added" /\ i = item'
  BY DEF StoreInv, StoredPicksArePersisted, PersistedPicksAreServed, Young, Recent
<1>d. ASSUME clock' = clock PROVE \A i : Young(i)' = Young(i) /\ Recent(i)' = Recent(i)
  BY <1>d DEF Young, Recent
<1>1. CASE Tick
  <2>1. \A i \in Item : (Young(i)' => Young(i)) /\ (Recent(i)' => Recent(i))
    BY <1>1, <1>a, PicksAge DEF Tick
  <2>2. CutoffIsPast'
    BY <1>1, <1>a, <1>b DEF Tick, CutoffIsPast
  <2>. QED BY <1>1, <1>a, <1>b, <2>1, <2>2 DEF Tick, AddedIsPersisted
<1>2. CASE \E message \in Messages : AddPickCallback(message)
  BY <1>2, <1>a, <1>d DEF AddPickCallback, AddedIsPersisted, CutoffIsPast
<1>3. CASE CountReceived
  BY <1>3, <1>a, <1>d DEF CountReceived, AddedIsPersisted, CutoffIsPast
<1>4. CASE PopPick
  BY <1>4, <1>a, <1>d DEF PopPick, AddedIsPersisted, CutoffIsPast
<1>5. CASE StampPick
  BY <1>5, <1>a, <1>d DEF StampPick, AddedIsPersisted, CutoffIsPast
<1>6. CASE AddPick
  BY <1>6, <1>a, <1>d DEF AddPick, AddedIsPersisted, CutoffIsPast
<1>7. CASE RejectDuplicate
  BY <1>7, <1>a, <1>d DEF RejectDuplicate, AddedIsPersisted, CutoffIsPast
<1>8. CASE AddFails
  BY <1>8, <1>a, <1>d DEF AddFails, AddedIsPersisted, CutoffIsPast
<1>9. CASE EnqueuePick
  <2>1. /\ Cleaned(store, clock - MaxHistory) \subseteq store
        /\ \A i \in store : Recent(i) => i \in Cleaned(store, clock - MaxHistory)
    BY CleanedProperties DEF Recent
  <2>. QED BY <1>9, <1>a, <1>d, <2>1 DEF EnqueuePick, AddedIsPersisted, CutoffIsPast
<1>10. CASE EnqueueFails
  <2>1. /\ store' \subseteq store
        /\ \A i \in store : Recent(i) => i \in store'
    BY <1>10, CleanedProperties DEF EnqueueFails, Recent
  <2>. QED BY <1>10, <1>a, <1>d, <2>1 DEF EnqueueFails, AddedIsPersisted, CutoffIsPast
<1>11. CASE DateCleaning
  <2>1. CutoffIsPast'
    BY <1>11, <1>b DEF DateCleaning, CutoffIsPast
  <2>. QED BY <1>11, <1>a, <1>d, <2>1 DEF DateCleaning, AddedIsPersisted
<1>12. CASE DeletePicksBefore
  <2>1. /\ database' \subseteq database
        /\ \A i \in database : Young(i) => i \in database'
    BY <1>12, <1>a, KeptFromProperties DEF DeletePicksBefore
  <2>2. CutoffIsPast'
    BY <1>12, <1>a, LocalsAreTyped DEF DeletePicksBefore, CutoffIsPast, Typed
  <2>3. /\ AddedIsPersisted'
        /\ \A i \in store' : Young(i)' => i \in database'
    BY <1>12, <1>a, <1>d, <2>1 DEF DeletePicksBefore, AddedIsPersisted
  <2>. QED BY <1>12, <1>a, <1>d, <2>1, <2>2, <2>3 DEF DeletePicksBefore
<1>13. CASE Crash
  <2>1. CutoffIsPast'
    BY <1>13, <1>a, LocalsAreTyped DEF Crash, CutoffIsPast, Typed
  <2>. QED BY <1>13, <1>a, <2>1 DEF Crash, AddedIsPersisted
<1>14. CASE Restart
  <2>1. /\ store' \subseteq database'
        /\ \A i \in database' : Recent(i) => i \in store'
    BY <1>14, CleanedProperties DEF Restart, Loaded, Recent
  <2>2. processor' = "idle" /\ clock' = clock /\ running' = TRUE /\ CutoffIsPast'
    BY <1>14, <1>a DEF Restart, CutoffIsPast
  <2>. QED BY <1>d, <2>1, <2>2 DEF AddedIsPersisted
<1>15. CASE UNCHANGED vars
  BY <1>15, <1>a, <1>d DEF vars, AddedIsPersisted, CutoffIsPast
<1>. QED BY <1>c, <1>1, <1>2, <1>3, <1>4, <1>5, <1>6, <1>7, <1>8, <1>9, <1>10, <1>11,
            <1>12, <1>13, <1>14, <1>15 DEF Next, ProcessPick, CleanDatabase

LEMMA StoreInvHolds == ASSUME BrokerAssumption PROVE Spec => [](CountInv /\ StoreInv)
<1>1. Init => CountInv /\ StoreInv
  BY CountInvInit, StoreInvInit
<1>2. CountInv /\ StoreInv /\ [Next]_vars => (CountInv /\ StoreInv)'
  <2>. SUFFICES ASSUME CountInv, StoreInv, [Next]_vars PROVE CountInv' /\ StoreInv'
    OBVIOUS
  <2>1. CountInv'
    BY CountInvNext
  <2>2. Typed'
    BY <2>1 DEF CountInv
  <2>. QED BY <2>1, <2>2, StoreInvNext
<1>. QED BY <1>1, <1>2, PTL DEF Spec

\* Database::add before enqueue, the two cutoffs, the load at a start: what
\* subscribers could have seen is in the database until it is too old.
THEOREM StoreIsPersisted == ASSUME BrokerAssumption PROVE Spec => []StoredPicksArePersisted
<1>1. CountInv /\ StoreInv => StoredPicksArePersisted
  BY DEF StoreInv
<1>. QED BY <1>1, StoreInvHolds, PTL

\* And what the database holds and the store has to is served.
THEOREM DatabaseIsServed == ASSUME BrokerAssumption PROVE Spec => []PersistedPicksAreServed
<1>1. CountInv /\ StoreInv => PersistedPicksAreServed
  BY DEF StoreInv
<1>. QED BY <1>1, StoreInvHolds, PTL

-----------------------------------------------------------------------------
(* Deduplication, for a broker that keeps its database at a restart.       *)

\* What was handed on is in the database for as long as it is young there, so a
\* pick that was let past the database is not one that was handed on of late.
BroadcastIsPersisted == \A j \in broadcast : Young(j) => j \in database
AddedIsNew == processor = "added" =>
                 \A j \in broadcast : j.pick = item.pick => ~ Young(j)

BroadcastInv == BroadcastIsPersisted /\ AddedIsNew

LEMMA BroadcastInvNext ==
    ASSUME BrokerAssumption, DeleteDatabaseIfExists = FALSE,
           StoreInv, BroadcastInv, [Next]_vars
    PROVE  BroadcastInv'
<1>. USE DEF processorVars, cleanerVars, metricsVars, historyVars
<1>a. Typed /\ CutoffIsPast /\ AddedIsPersisted /\ BroadcastIsPersisted /\ AddedIsNew
  BY DEF StoreInv, BroadcastInv
<1>b. item \in Item /\ broadcast \subseteq Item /\ database \subseteq Item
  BY <1>a DEF Typed
<1>c. SUFFICES ASSUME Next \/ UNCHANGED vars
               PROVE  /\ \A j \in broadcast' : Young(j)' => j \in database'
                      /\ AddedIsNew'
  BY DEF BroadcastInv, BroadcastIsPersisted
<1>d. ASSUME clock' = clock PROVE \A i : Young(i)' = Young(i)
  BY <1>d DEF Young
<1>1. CASE Tick
  <2>1. \A i \in Item : Young(i)' => Young(i)
    BY <1>1, <1>a, PicksAge DEF Tick
  <2>. QED BY <1>1, <1>a, <1>b, <2>1 DEF Tick, BroadcastIsPersisted, AddedIsNew
<1>2. CASE \E message \in Messages : AddPickCallback(message)
  BY <1>2, <1>a, <1>d DEF AddPickCallback, BroadcastIsPersisted, AddedIsNew
<1>3. CASE CountReceived
  BY <1>3, <1>a, <1>d DEF CountReceived, BroadcastIsPersisted, AddedIsNew
<1>4. CASE PopPick
  BY <1>4, <1>a, <1>d DEF PopPick, BroadcastIsPersisted, AddedIsNew
<1>5. CASE StampPick
  BY <1>5, <1>a, <1>d DEF StampPick, BroadcastIsPersisted, AddedIsNew
<1>6. CASE AddPick
  <2>1. \A j \in broadcast : j.pick = item.pick => ~ Young(j)
    BY <1>6, <1>a DEF AddPick, KnownToDatabase, BroadcastIsPersisted
  <2>. QED BY <1>6, <1>a, <1>d, <2>1 DEF AddPick, BroadcastIsPersisted, AddedIsNew
<1>7. CASE RejectDuplicate
  BY <1>7, <1>a, <1>d DEF RejectDuplicate, BroadcastIsPersisted, AddedIsNew
<1>8. CASE AddFails
  BY <1>8, <1>a, <1>d DEF AddFails, BroadcastIsPersisted, AddedIsNew
<1>9. CASE EnqueuePick
  BY <1>9, <1>a, <1>d DEF EnqueuePick, AddedIsPersisted, BroadcastIsPersisted, AddedIsNew
<1>10. CASE EnqueueFails
  BY <1>10, <1>a, <1>d DEF EnqueueFails, BroadcastIsPersisted, AddedIsNew
<1>11. CASE DateCleaning
  BY <1>11, <1>a, <1>d DEF DateCleaning, BroadcastIsPersisted, AddedIsNew
<1>12. CASE DeletePicksBefore
  <2>1. \A i \in database : Young(i) => i \in database'
    BY <1>12, <1>a, KeptFromProperties DEF DeletePicksBefore
  <2>. QED BY <1>12, <1>a, <1>d, <2>1 DEF DeletePicksBefore, BroadcastIsPersisted, AddedIsNew
<1>13. CASE Crash
  BY <1>13, <1>a, <1>d DEF Crash, BroadcastIsPersisted, AddedIsNew
<1>14. CASE Restart
  BY <1>14, <1>a, <1>d DEF Restart, BroadcastIsPersisted, AddedIsNew
<1>15. CASE UNCHANGED vars
  BY <1>15, <1>a, <1>d DEF vars, BroadcastIsPersisted, AddedIsNew
<1>. QED BY <1>c, <1>1, <1>2, <1>3, <1>4, <1>5, <1>6, <1>7, <1>8, <1>9, <1>10, <1>11,
            <1>12, <1>13, <1>14, <1>15 DEF Next, ProcessPick, CleanDatabase

LEMMA OnlyOldPicksReturn ==
    ASSUME BrokerAssumption, StoreInv, BroadcastInv, [Next]_vars,
           NEW i \in broadcast' \ broadcast, NEW j \in broadcast, i.pick = j.pick
    PROVE  clock - j.time > PickRetentionInterval
<1>. USE DEF processorVars, cleanerVars, metricsVars, historyVars
<1>1. EnqueuePick
  BY DEF Next, ProcessPick, CleanDatabase, Tick, AddPickCallback, CountReceived, PopPick,
         StampPick, AddPick, RejectDuplicate, AddFails, EnqueueFails, DateCleaning,
         DeletePicksBefore, Crash, Restart, vars
<1>2. ~ Young(j)
  BY <1>1 DEF EnqueuePick, BroadcastInv, AddedIsNew
<1>. DEFINE t == j.time
<1>3. t \in Int /\ clock \in Int /\ PickRetentionInterval \in Int
  BY DEF StoreInv, Typed, Item, Time, BrokerAssumption
<1>4. ~ (t >= clock - PickRetentionInterval)
  BY <1>2 DEF Young
<1>. HIDE DEF t
<1>5. clock - t > PickRetentionInterval
  BY <1>3, <1>4
<1>. QED BY <1>5 DEF t

\* Deduplication: no pick reaches the subscribers a second time before the retention
\* interval of the database is over, whatever crashes, fails or cleans meanwhile.
THEOREM NoEarlyRebroadcast ==
    ASSUME BrokerAssumption, DeleteDatabaseIfExists = FALSE
    PROVE  Spec => RebroadcastOnlyAfterRetention
<1>1. Init => BroadcastInv
  BY DEF Init, BroadcastInv, BroadcastIsPersisted, AddedIsNew
<1>2. StoreInv /\ BroadcastInv /\ [Next]_vars => BroadcastInv'
  BY BroadcastInvNext
<1>3. StoreInv /\ BroadcastInv /\ [Next]_vars =>
        [\A i \in broadcast' \ broadcast : \A j \in broadcast :
            i.pick = j.pick => clock - j.time > PickRetentionInterval]_vars
  BY OnlyOldPicksReturn
<1>. QED BY <1>1, <1>2, <1>3, StoreInvHolds, PTL DEF Spec, RebroadcastOnlyAfterRetention


-----------------------------------------------------------------------------
(* Every step of the broker is one of PickRelay, or none.                  *)

Line == InHand \o mInputQueue
Remembered == { i.pick : i \in database }

\* A line with a pick in hand.
LEMMA LineOfHand ==
    ASSUME NEW S, NEW x \in S, NEW q \in Seq(S)
    PROVE  /\ <<x>> \o q \in Seq(S) /\ <<x>> \o q # <<>>
           /\ Len(<<x>> \o q) = Len(q) + 1
           /\ Head(<<x>> \o q) = x
           /\ Tail(<<x>> \o q) = q
<1>1. <<x>> \in Seq(S) /\ Len(<<x>>) = 1 /\ <<x>>[1] = x
  OBVIOUS
<1>2. /\ <<x>> \o q \in Seq(S)
      /\ Len(<<x>> \o q) = 1 + Len(q)
      /\ \A i \in 1 .. 1 + Len(q) : (<<x>> \o q)[i] = IF i <= 1 THEN <<x>>[i] ELSE q[i - 1]
  BY <1>1, ConcatProperties, Zenon
<1>. DEFINE l == <<x>> \o q
<1>3. Len(q) \in Nat
  BY LenProperties
<1>. HIDE DEF l
<1>4. l # <<>> /\ Head(l) = x
  BY <1>1, <1>2, <1>3 DEF l
<1>5. /\ Tail(l) \in Seq(S) /\ Len(Tail(l)) = Len(q)
      /\ \A i \in 1 .. Len(q) : Tail(l)[i] = q[i]
  <2>1. /\ Tail(l) \in Seq(S) /\ Len(Tail(l)) = Len(l) - 1
        /\ \A i \in 1 .. Len(Tail(l)) : Tail(l)[i] = l[i + 1]
    BY <1>2, <1>4, HeadTailProperties DEF l
  <2>. QED BY <1>2, <1>3, <2>1 DEF l
<1>6. Tail(l) = q
  BY <1>5, SeqEqual
<1>. QED BY <1>2, <1>3, <1>4, <1>6 DEF l

\* An append is one to the line, whatever is in hand.
LEMMA AppendToLine ==
    ASSUME NEW S, NEW h \in Seq(S), NEW q \in Seq(S), NEW p \in S
    PROVE  h \o Append(q, p) = Append(h \o q, p)
<1>1. h \o q \in Seq(S) /\ <<p>> \in Seq(S)
  BY ConcatProperties
<1>2. Append(q, p) = q \o <<p>> /\ Append(h \o q, p) = (h \o q) \o <<p>>
  BY <1>1, AppendIsConcat
<1>. QED BY <1>1, <1>2, ConcatAssociative

LEMMA LineProperties ==
    ASSUME BrokerAssumption, Typed
    PROVE  /\ InHand \in Seq(Picks) /\ mInputQueue \in Seq(Picks) /\ Line \in Seq(Picks)
           /\ ~ processor \in {"popped", "stamped"} => InHand = <<>> /\ Line = mInputQueue
           /\ processor \in {"popped", "stamped"} =>
                 /\ InHand = <<item.pick>> /\ Line # <<>>
                 /\ Len(Line) = Len(mInputQueue) + 1
                 /\ Head(Line) = item.pick /\ Tail(Line) = mInputQueue
<1>1. mInputQueue \in Seq(Picks) /\ item.pick \in Picks
  BY DEF Typed, Item
<1>2. CASE processor \in {"popped", "stamped"}
  BY <1>1, <1>2, LineOfHand DEF InHand, Line
<1>3. CASE ~ processor \in {"popped", "stamped"}
  <2>1. InHand = <<>> /\ <<>> \in Seq(Picks)
    BY <1>3 DEF InHand
  <2>. QED BY <1>1, <1>3, <2>1, ConcatEmptySeq DEF Line
<1>. QED BY <1>2, <1>3

LEMMA RelayInitHolds == ASSUME BrokerAssumption, Init PROVE Relay!Init
<1>1. Line = <<>>
  BY CountInvInit, LineProperties DEF CountInv, Init
<1>2. Remembered = {}
  BY DEF Init, Remembered
<1>. QED BY <1>1, <1>2 DEF Init, NoMetrics, Relay!Init, Line, Remembered

\* addPickCallback: one more pick in the line, perhaps for the oldest that is not
\* in hand.
LEMMA AcceptedByRelay ==
    ASSUME BrokerAssumption, CountInv, NEW message \in Messages, AddPickCallback(message)
    PROVE  \E p \in Picks : Relay!Accept(p) \/ Relay!AcceptFull(p)
<1>0. PICK p \in Taken(message) : mInputQueue' = Append(Kept, p)
  BY DEF AddPickCallback, Kept
<1>. DEFINE q == mInputQueue
            h == InHand
<1>1. p \in Picks
  BY <1>0, PicksOfMessages
<1>2. /\ running' = running /\ running /\ database' = database
      /\ outcome' = outcome /\ InHand' = h
      /\ mInputQueue' = Append(Kept, p)
      /\ metrics' = [metrics EXCEPT !.overflow = @ + Overflow]
  BY <1>0 DEF AddPickCallback, InHand, processorVars, historyVars
<1>3. /\ q \in Seq(Picks) /\ Len(q) \in Nat /\ Len(q) <= QueueCapacity
      /\ QueueCapacity \in Nat \ {0}
      /\ metrics \in Metrics
  BY LenProperties DEF CountInv, Typed, BrokerAssumption
<1>4. /\ h \in Seq(Picks) /\ Line \in Seq(Picks)
      /\ Len(Line) = Len(q) \/ Len(Line) = Len(q) + 1
  BY LineProperties DEF CountInv
<1>5. metrics.overflow \in Nat /\ metrics'.overflow = metrics.overflow + Overflow
  BY <1>2, <1>3 DEF Metrics
<1>6. Kept \in Seq(Picks) /\ Overflow = IF Len(q) = QueueCapacity THEN 1 ELSE 0
  BY RoomIsMade DEF CountInv
<1>7. Line' = Append(h \o Kept, p)
  <2>1. Line' = h \o Append(Kept, p)
    BY <1>2 DEF Line
  <2>2. h \o Append(Kept, p) = Append(h \o Kept, p)
    BY <1>1, <1>4, <1>6, AppendToLine
  <2>. QED BY <2>1, <2>2
<1>8. CASE Len(q) < QueueCapacity
  <2>1. Overflow = 0
    BY <1>3, <1>6, <1>8
  <2>2. Kept = q
    BY <1>3, <2>1, SubSeqFull DEF Kept
  <2>3. Line' = Append(Line, p)
    BY <1>7, <2>2 DEF Line
  <2>4. Len(Line) <= QueueCapacity
    BY <1>3, <1>4, <1>8
  <2>5. metrics'.overflow = metrics.overflow
    BY <1>5, <2>1
  <2>6. Relay!Accept(p)
    BY <1>2, <2>3, <2>4, <2>5 DEF Relay!Accept, Line
  <2>. QED BY <1>1, <2>6
<1>9. CASE Len(q) = QueueCapacity
  <2>1. Overflow = 1
    BY <1>6, <1>9
  <2>2. q # <<>>
    BY <1>3, <1>9
  <2>3. Kept = Tail(q)
    BY <1>3, <2>1, <2>2, TailIsSubSeq DEF Kept
  <2>4. h \o Kept \in Relay!WithoutOldest(Line)
    <3>1. CASE processor \in {"popped", "stamped"}
      BY <2>3, <3>1, LineProperties DEF CountInv, Relay!WithoutOldest
    <3>2. CASE ~ processor \in {"popped", "stamped"}
      <4>1. h = <<>> /\ Line = q
        BY <3>2, LineProperties DEF CountInv
      <4>2. <<>> \o Kept = Kept
        BY <1>6, ConcatEmptySeq
      <4>. QED BY <2>3, <4>1, <4>2 DEF Relay!WithoutOldest
    <3>. QED BY <3>1, <3>2
  <2>5. Len(Line) >= QueueCapacity
    BY <1>3, <1>4, <1>9
  <2>6. metrics'.overflow = metrics.overflow + 1
    BY <1>5, <2>1
  <2>7. Relay!AcceptFull(p)
    BY <1>2, <1>7, <2>4, <2>5, <2>6 DEF Relay!AcceptFull, Line
  <2>. QED BY <1>1, <2>7
<1>. QED BY <1>3, <1>8, <1>9

\* The pick in hand leaves the line: it is remembered, recognized, or a fault.
LEMMA TakenFromLine ==
    ASSUME BrokerAssumption, CountInv, running, processor = "stamped",
           ~ processor' \in {"popped", "stamped"}, mInputQueue' = mInputQueue
    PROVE  /\ Line # <<>> /\ Head(Line) = item.pick /\ Line' = Tail(Line)
           /\ item.pick \in Remembered <=> KnownToDatabase(item.pick)
<1>1. Line # <<>> /\ Head(Line) = item.pick /\ Tail(Line) = mInputQueue
  BY LineProperties DEF CountInv
<1>2. Line' = mInputQueue
  <2>1. InHand' = <<>>
    BY DEF InHand
  <2>. QED BY <2>1, ConcatEmptySeq DEF Line, CountInv, Typed
<1>3. item.pick \in Remembered <=> KnownToDatabase(item.pick)
  BY DEF Remembered, KnownToDatabase
<1>. QED BY <1>1, <1>2, <1>3

LEMMA RelayStep ==
    ASSUME BrokerAssumption, CountInv, [Next]_vars
    PROVE  [Relay!Next]_(Relay!vars)
<1>. USE DEF processorVars, cleanerVars, metricsVars, historyVars
<1>a. Typed
  BY DEF CountInv
<1>b. /\ Line = InHand \o mInputQueue
      /\ Remembered = { i.pick : i \in database }
  BY DEF Line, Remembered
\* A step that the relay does not see.
<1>c. ASSUME running' = running, Line' = Line, database' = database,
             metrics'.overflow = metrics.overflow, outcome' = outcome
      PROVE  UNCHANGED Relay!vars
  BY <1>c DEF Relay!vars, Line
<1>d. ASSUME processor' = processor, item'.pick = item.pick, mInputQueue' = mInputQueue
      PROVE  Line' = Line
  BY <1>d DEF Line, InHand
<1>e. ASSUME ~ processor \in {"popped", "stamped"}, ~ processor' \in {"popped", "stamped"},
             mInputQueue' = mInputQueue
      PROVE  Line' = Line
  BY <1>e DEF Line, InHand
<1>1. CASE Tick
  BY <1>1, <1>c, <1>d DEF Tick
<1>2. CASE \E message \in Messages : AddPickCallback(message)
  BY <1>2, AcceptedByRelay DEF Relay!Next
<1>3. CASE CountReceived
  <2>1. metrics'.overflow = metrics.overflow
    BY <1>3, <1>a DEF CountReceived, Typed, Metrics
  <2>. QED BY <1>3, <1>c, <1>d, <2>1 DEF CountReceived
<1>4. CASE PopPick
  <2>1. Line = mInputQueue /\ mInputQueue \in Seq(Picks) /\ mInputQueue # <<>>
    BY <1>4, <1>a, LineProperties DEF PopPick
  <2>2. item'.pick = Head(mInputQueue)
    BY <1>4, <1>a DEF PopPick, Typed, Item
  <2>3. Line' = <<Head(mInputQueue)>> \o Tail(mInputQueue)
    BY <1>4, <2>2 DEF PopPick, Line, InHand
  <2>4. mInputQueue = <<Head(mInputQueue)>> \o Tail(mInputQueue)
    <3>. DEFINE q == mInputQueue
                l == <<Head(q)>> \o Tail(q)
    <3>1. /\ Head(q) \in Picks /\ Tail(q) \in Seq(Picks) /\ Len(Tail(q)) = Len(q) - 1
          /\ \A i \in 1 .. Len(Tail(q)) : Tail(q)[i] = q[i + 1]
      BY <2>1, HeadTailProperties
    <3>2. /\ l \in Seq(Picks) /\ l # <<>> /\ Len(l) = Len(Tail(q)) + 1
          /\ Head(l) = Head(q) /\ Tail(l) = Tail(q)
      BY <3>1, LineOfHand
    <3>3. \A i \in 1 .. Len(Tail(q)) : Tail(q)[i] = l[i + 1]
      BY <3>2, HeadTailProperties
    <3>4. Len(q) \in Nat /\ q[1] = Head(q) /\ l[1] = Head(l)
      BY <2>1, LenProperties
    <3>. HIDE DEF l
    <3>5. \A i \in 1 .. Len(q) : q[i] = l[i]
      <4>. TAKE i \in 1 .. Len(q)
      <4>1. CASE i = 1
        BY <3>2, <3>4, <4>1
      <4>2. CASE i # 1
        <5>1. i - 1 \in 1 .. Len(Tail(q)) /\ (i - 1) + 1 = i
          BY <3>1, <3>4, <4>2
        <5>2. Tail(q)[i - 1] = q[(i - 1) + 1] /\ Tail(q)[i - 1] = l[(i - 1) + 1]
          BY <3>1, <3>3, <5>1
        <5>. QED BY <5>1, <5>2
      <4>. QED BY <4>1, <4>2
    <3>6. Len(q) = Len(l)
      BY <3>1, <3>2, <3>4
    <3>7. q = l
      BY <2>1, <3>2, <3>5, <3>6, SeqEqual
    <3>. QED BY <3>7 DEF l
  <2>5. Line' = Line
    BY <2>1, <2>3, <2>4
  <2>. QED BY <1>4, <1>c, <2>5 DEF PopPick
<1>5. CASE StampPick
  <2>1. item'.pick = item.pick
    BY <1>5, <1>a DEF StampPick, Typed, Item
  <2>2. Line' = Line
    BY <1>5, <2>1 DEF StampPick, Line, InHand
  <2>. QED BY <1>5, <1>c, <2>2 DEF StampPick
<1>6. CASE AddPick
  <2>1. /\ Line # <<>> /\ Head(Line) = item.pick /\ Line' = Tail(Line)
        /\ item.pick \notin Remembered
    BY <1>6, TakenFromLine DEF AddPick
  <2>2. Remembered' = Remembered \cup {item.pick}
    BY <1>6 DEF AddPick, Remembered
  <2>3. outcome'.failed = outcome.failed
    BY <1>6, <1>a DEF AddPick, Typed, Outcomes
  <2>4. Relay!Remember
    BY <1>6, <1>b, <2>1, <2>2, <2>3 DEF AddPick, Relay!Remember, Line, Remembered
  <2>. QED BY <2>4 DEF Relay!Next
<1>7. CASE RejectDuplicate
  <2>1. /\ Line # <<>> /\ Head(Line) = item.pick /\ Line' = Tail(Line)
        /\ item.pick \in Remembered
    BY <1>7, TakenFromLine DEF RejectDuplicate
  <2>2. metrics'.overflow = metrics.overflow
    BY <1>7, <1>a DEF RejectDuplicate, Typed, Metrics
  <2>3. Relay!Recognize
    BY <1>7, <2>1, <2>2 DEF RejectDuplicate, Relay!Recognize, Line, Remembered
  <2>. QED BY <2>3 DEF Relay!Next
<1>8. CASE AddFails
  <2>1. Line # <<>> /\ Line' = Tail(Line)
    BY <1>8, TakenFromLine DEF AddFails
  <2>2. outcome'.failed = outcome.failed + 1
    BY <1>8, <1>a DEF AddFails, Typed, Outcomes
  <2>3. Relay!Fault
    BY <1>8, <2>1, <2>2 DEF AddFails, Relay!Fault, Line
  <2>. QED BY <2>3 DEF Relay!Next
<1>9. CASE EnqueuePick
  BY <1>9, <1>c, <1>e DEF EnqueuePick
<1>10. CASE EnqueueFails
  BY <1>10, <1>c, <1>e DEF EnqueueFails
<1>11. CASE DateCleaning
  BY <1>11, <1>c, <1>d DEF DateCleaning
<1>12. CASE DeletePicksBefore
  <2>1. Remembered' \subseteq Remembered
    BY <1>12 DEF DeletePicksBefore, KeptFrom, Remembered
  <2>2. Line' = Line
    BY <1>12, <1>d DEF DeletePicksBefore
  <2>3. Relay!Forget
    BY <1>12, <2>1, <2>2 DEF DeletePicksBefore, Relay!Forget, Line, Remembered
  <2>. QED BY <2>3 DEF Relay!Next
<1>13. CASE Crash
  <2>1. InHand' = <<>> /\ mInputQueue' = <<>>
    BY <1>13 DEF Crash, InHand
  <2>2. Line' = <<>>
    <3>1. <<>> \in Seq(Picks)
      OBVIOUS
    <3>2. <<>> \o <<>> = <<>>
      BY <3>1, ConcatEmptySeq
    <3>. QED BY <2>1, <3>2 DEF Line
  <2>3. Relay!Fail
    BY <1>13, <2>2 DEF Crash, NoMetrics, Relay!Fail, Line
  <2>. QED BY <2>3 DEF Relay!Next
<1>14. CASE Restart
  <2>1. Remembered' \subseteq Remembered
    BY <1>14 DEF Restart, Remembered
  <2>2. Line' = Line
    BY <1>14, <1>d DEF Restart
  <2>3. Relay!Recover
    BY <1>14, <2>1, <2>2 DEF Restart, Relay!Recover, Line, Remembered
  <2>. QED BY <2>3 DEF Relay!Next
<1>15. CASE UNCHANGED vars
  BY <1>15, <1>c, <1>d DEF vars
<1>. QED BY <1>1, <1>2, <1>3, <1>4, <1>5, <1>6, <1>7, <1>8, <1>9, <1>10, <1>11, <1>12,
            <1>13, <1>14, <1>15 DEF Next, ProcessPick, CleanDatabase

\* The pipeline is a relay, threads, queue, table and crashes and all: the safety part
\* of ImplementsRelay (that the line moves is left to TLC).
THEOREM PipelineIsRelay ==
    ASSUME BrokerAssumption
    PROVE  Spec => Relay!Init /\ [][Relay!Next]_(Relay!vars)
<1>1. Init => CountInv /\ Relay!Init
  BY CountInvInit, RelayInitHolds
<1>2. CountInv /\ [Next]_vars => CountInv'
  BY CountInvNext
<1>3. CountInv /\ [Next]_vars => [Relay!Next]_(Relay!vars)
  BY RelayStep
<1>. QED BY <1>1, <1>2, <1>3, PTL DEF Spec

-----------------------------------------------------------------------------
(* Two spellings of one arrival: CapitalizeAndRemoveBlanks, by induction   *)
(* over the places of a text.                                              *)

\* A set of numbers that is not empty has a least one.
LEMMA LeastPlace ==
    ASSUME NEW T, T \subseteq Nat, T # {}
    PROVE  \E m \in T : \A k \in T : m <= k
<1>. DEFINE R == { p \in Nat \X Nat : p[1] < p[2] }
<1>1. IsWellFoundedOn(R, Nat)
  BY NatLessThanWellFounded DEF OpToRel
<1>2. PICK m \in T : \A k \in T : <<k, m>> \notin R
  <2>. HIDE DEF R
  <2>. QED BY <1>1, WFMin
<1>3. ASSUME NEW k \in T PROVE m <= k
  <2>1. k \in Nat /\ m \in Nat /\ <<k, m>> \notin R
    BY <1>2
  <2>2. <<k, m>> \in Nat \X Nat /\ <<k, m>>[1] = k /\ <<k, m>>[2] = m
    BY <2>1
  <2>3. ~ (k < m)
    BY <2>1, <2>2, Zenon
  <2>. QED BY <2>1, <2>3
<1>. QED BY <1>3

\* Induction over the places of a sequence.
LEMMA PlaceInduction ==
    ASSUME NEW n \in Nat, NEW S, 0 \in S, \A k \in 1..n : k - 1 \in S => k \in S
    PROVE  \A k \in 0..n : k \in S
<1>. DEFINE T == { k \in 0..n : k \notin S }
<1>. SUFFICES ASSUME T # {} PROVE FALSE
  OBVIOUS
<1>1. T \subseteq Nat
  OBVIOUS
<1>2. PICK m \in T : \A k \in T : m <= k
  <2>. HIDE DEF T
  <2>. QED BY <1>1, LeastPlace
<1>3. m \in 0..n /\ m \notin S /\ m # 0
  BY <1>2
<1>4. m \in 1..n /\ m - 1 \in 0..n /\ ~ (m <= m - 1)
  BY <1>3
<1>5. m - 1 \in S
  BY <1>2, <1>4
<1>. QED BY <1>3, <1>4, <1>5

\* The provers are slow with strings: most of the lemmas are about any character.
Blank == " "

\* Where the characters of text up to n that are no blanks are.
LettersTo(text, n) == { k \in 1..n : text[k] # Blank }

\* g leads from these places to those of the same characters in t.
IsPlacing(g, text, n, t) ==
    /\ g \in [LettersTo(text, n) -> 1..Len(t)]
    /\ \A j \in 1..Len(t) : \E k \in LettersTo(text, n) : g[k] = j
    /\ \A k, l \in LettersTo(text, n) : k < l => g[k] < g[l]
    /\ \A k \in LettersTo(text, n) : t[g[k]] = text[k]

\* What the loop of CapitalizeAndRemoveBlanks makes of g.
KeptTo(text, n, g) ==
    [k \in 0..n |-> IF k = 0 THEN <<>>
                    ELSE IF text[k] = Blank THEN g[k - 1] ELSE Append(g[k - 1], text[k])]

\* The loop is defined.
LEMMA KeptExists ==
    ASSUME NEW text, NEW n \in Nat
    PROVE  \E g : g = KeptTo(text, n, g)
<1>. DEFINE S == { m \in Nat : \E g : g = KeptTo(text, m, g) }
<1>1. 0 \in S
  <2>1. [k \in 0..0 |-> <<>>] = KeptTo(text, 0, [k \in 0..0 |-> <<>>])
    BY DEF KeptTo
  <2>. QED BY <2>1
<1>2. ASSUME NEW m \in 1..n, m - 1 \in S PROVE m \in S
  <2>1. PICK g : g = KeptTo(text, m - 1, g)
    BY <1>2
  <2>. DEFINE next == IF text[m] = Blank THEN g[m - 1] ELSE Append(g[m - 1], text[m])
              h == [k \in 0..m |-> IF k = m THEN next ELSE g[k]]
  <2>2. \A k \in 0..m : h[k] = IF k = 0 THEN <<>>
                               ELSE IF text[k] = Blank THEN h[k - 1]
                                    ELSE Append(h[k - 1], text[k])
    <3>. TAKE k \in 0..m
    <3>1. CASE k = m
      <4>1. m - 1 \in 0..m /\ m - 1 # m /\ m # 0
        OBVIOUS
      <4>. QED BY <3>1, <4>1
    <3>2. CASE k # m
      <4>1. k \in 0..(m - 1) /\ h[k] = g[k]
        BY <3>2
      <4>2. g[k] = IF k = 0 THEN <<>>
                   ELSE IF text[k] = Blank THEN g[k - 1] ELSE Append(g[k - 1], text[k])
        BY <2>1, <4>1 DEF KeptTo
      <4>3. k # 0 => k - 1 \in 0..m /\ k - 1 # m
        <5>. HIDE DEF h, next
        <5>. QED BY <4>1, m \in Int
      <4>4. k # 0 => h[k - 1] = g[k - 1]
        BY <4>3
      <4>. HIDE DEF h
      <4>. QED BY <4>1, <4>2, <4>4
    <3>. QED BY <3>1, <3>2
  <2>3. h = KeptTo(text, m, h)
    <3>1. h = [k \in 0..m |-> h[k]]
      OBVIOUS
    <3>. HIDE DEF h
    <3>. QED BY <2>2, <3>1 DEF KeptTo
  <2>4. m \in Nat
    OBVIOUS
  <2>. HIDE DEF h
  <2>. QED BY <2>3, <2>4
<1>3. n \in 0..n
  OBVIOUS
<1>. HIDE DEF S
<1>4. n \in S
  BY <1>1, <1>2, <1>3, PlaceInduction
<1>. QED BY <1>4 DEF S

\* What remove_if leaves of the first k characters.
LEMMA KeptStep ==
    ASSUME NEW text
    PROVE  Len(text) \in Nat => \E g :
             /\ g = KeptTo(text, Len(text), g)
             /\ CapitalizeAndRemoveBlanks(text) = g[Len(text)]
<1>. SUFFICES ASSUME Len(text) \in Nat
     PROVE \E g : g = KeptTo(text, Len(text), g) /\ CapitalizeAndRemoveBlanks(text) = g[Len(text)]
  OBVIOUS
<1>. DEFINE c == CHOOSE g : g = [k \in 0..Len(text) |-> IF k = 0 THEN <<>>
                    ELSE IF text[k] = Blank THEN g[k - 1] ELSE Append(g[k - 1], text[k])]
<1>1. \E g : g = [k \in 0..Len(text) |-> IF k = 0 THEN <<>>
                    ELSE IF text[k] = Blank THEN g[k - 1] ELSE Append(g[k - 1], text[k])]
  BY KeptExists DEF KeptTo
<1>2. c = KeptTo(text, Len(text), c)
  BY <1>1 DEF KeptTo
<1>3. CapitalizeAndRemoveBlanks(text) = c[Len(text)]
  BY DEF CapitalizeAndRemoveBlanks, Blank
<1>. HIDE DEF c
<1>. QED BY <1>2, <1>3

\* t is what is left of the first n characters of text.
IsStripped(t, text, n, C) ==
    /\ t \in Seq(C)
    /\ \A j \in 1..Len(t) : t[j] # Blank
    /\ \E g : IsPlacing(g, text, n, t)

LEMMA LettersOneMore ==
    ASSUME NEW text, NEW k \in Nat, k # 0
    PROVE  /\ \A l \in LettersTo(text, k - 1) : l \in Int /\ l < k
           /\ LettersTo(text, k) = IF text[k] = Blank THEN LettersTo(text, k - 1)
                                   ELSE LettersTo(text, k - 1) \cup {k}
<1>1. 1..k = (1..(k - 1)) \cup {k}
  OBVIOUS
<1>2. \A l \in 1..(k - 1) : l \in Int /\ l < k
  OBVIOUS
<1>3. LettersTo(text, k) = { l \in (1..(k - 1)) \cup {k} : text[l] # Blank }
  BY <1>1, Zenon DEF LettersTo
<1>. DEFINE K == 1..(k - 1)
<1>. HIDE DEF K
<1>4. { l \in K \cup {k} : text[l] # Blank }
        = IF text[k] = Blank THEN { l \in K : text[l] # Blank }
          ELSE { l \in K : text[l] # Blank } \cup {k}
  OBVIOUS
<1>. QED BY <1>2, <1>3, <1>4 DEF LettersTo, K

\* One character more, if it is no blank.
LEMMA PlacingOneMore ==
    ASSUME NEW C, NEW text, NEW k \in Nat, k # 0, NEW t \in Seq(C), NEW c \in C,
           text[k] = c, c # Blank, NEW g, IsPlacing(g, text, k - 1, t)
    PROVE  \E h : IsPlacing(h, text, k, Append(t, c))
<1>. DEFINE K == LettersTo(text, k - 1)
            L == LettersTo(text, k)
            m == Len(t)
            u == Append(t, c)
            h == [l \in L |-> IF l = k THEN m + 1 ELSE g[l]]
<1>1. m \in Nat
  OBVIOUS
<1>2. Len(u) = m + 1 /\ u[m + 1] = c /\ \A j \in 1..m : u[j] = t[j]
  OBVIOUS
<1>3. L = K \cup {k} /\ \A l \in K : l \in Int /\ l < k
  BY LettersOneMore
<1>4. /\ g \in [K -> 1..m]
      /\ \A j \in 1..m : \E l \in K : g[l] = j
      /\ \A l, o \in K : l < o => g[l] < g[o]
      /\ \A l \in K : t[g[l]] = text[l]
  BY DEF IsPlacing
<1>. HIDE DEF K, L, m, u
<1>5. \A j \in 1..(m + 1) : j \in 1..m \/ j = m + 1
  BY <1>1
<1>6. \A l \in K : l # k
  BY <1>3
<1>7. \A l \in K : h[l] = g[l] /\ h[l] \in 1..m
  BY <1>3, <1>4, <1>6
<1>8. h[k] = m + 1 /\ k \in L
  BY <1>3
<1>9. h \in [L -> 1..(m + 1)]
  <2>1. \A l \in L : h[l] \in 1..(m + 1)
    BY <1>1, <1>3, <1>7, <1>8
  <2>. QED BY <2>1
<1>. HIDE DEF h
<1>10. \A j \in 1..(m + 1) : \E l \in L : h[l] = j
  <2>. TAKE j \in 1..(m + 1)
  <2>1. CASE j \in 1..m
    <3>1. PICK l \in K : g[l] = j
      BY <1>4, <2>1
    <3>. QED BY <1>3, <1>7, <3>1
  <2>. QED BY <1>5, <1>8, <2>1
<1>11. \A l, o \in L : l < o => h[l] < h[o]
  <2>. SUFFICES ASSUME NEW l \in L, NEW o \in L, l < o PROVE h[l] < h[o]
    OBVIOUS
  <2>1. l \in K
    <3>1. o = k \/ o \in K
      BY <1>3
    <3>2. l # k
      BY <1>3, <3>1
    <3>. QED BY <1>3, <3>2
  <2>2. CASE o \in K
    BY <1>4, <1>7, <2>1, <2>2
  <2>3. CASE o = k
    <3>1. h[l] \in 1..m
      BY <1>7, <2>1
    <3>. QED BY <1>1, <1>8, <2>3, <3>1
  <2>. QED BY <1>3, <2>2, <2>3
<1>12. \A l \in L : u[h[l]] = text[l]
  <2>. TAKE l \in L
  <2>1. CASE l \in K
    BY <1>2, <1>4, <1>7, <2>1
  <2>2. CASE l = k
    BY <1>2, <1>8, <2>2
  <2>. QED BY <1>3, <2>1, <2>2
<1>13. IsPlacing(h, text, k, u)
  BY <1>2, <1>9, <1>10, <1>11, <1>12 DEF IsPlacing, L
<1>. QED BY <1>13 DEF u

LEMMA StrippedOneMore ==
    ASSUME NEW C, NEW text, NEW k \in Nat, k # 0, text[k] \in C,
           NEW t, IsStripped(t, text, k - 1, C)
    PROVE  IsStripped(IF text[k] = Blank THEN t ELSE Append(t, text[k]), text, k, C)
<1>1. PICK g : IsPlacing(g, text, k - 1, t)
  BY DEF IsStripped
<1>2. t \in Seq(C) /\ \A j \in 1..Len(t) : t[j] # Blank
  BY DEF IsStripped
<1>3. CASE text[k] = Blank
  <2>1. LettersTo(text, k) = LettersTo(text, k - 1)
    BY <1>3, LettersOneMore
  <2>2. IsPlacing(g, text, k, t)
    BY <1>1, <2>1 DEF IsPlacing
  <2>. QED BY <1>2, <1>3, <2>2 DEF IsStripped
<1>4. CASE text[k] # Blank
  <2>. DEFINE c == text[k]
              u == Append(t, c)
  <2>1. \E h : IsPlacing(h, text, k, u)
    BY <1>1, <1>2, <1>4, PlacingOneMore
  <2>. HIDE DEF c
  <2>2. u \in Seq(C) /\ Len(u) = Len(t) + 1 /\ u[Len(t) + 1] = c
        /\ (\A j \in 1..Len(t) : u[j] = t[j]) /\ Len(t) \in Nat
    BY <1>2, c \in C DEF c
  <2>. HIDE DEF u
  <2>3. \A j \in 1..Len(u) : u[j] # Blank
    <3>1. \A j \in 1..(Len(t) + 1) : j \in 1..Len(t) \/ j = Len(t) + 1
      BY <2>2
    <3>. QED BY <1>2, <1>4, <2>2, <3>1 DEF c
  <2>4. IsStripped(u, text, k, C)
    BY <2>1, <2>2, <2>3 DEF IsStripped
  <2>. QED BY <1>4, <2>4 DEF u, c
<1>. QED BY <1>3, <1>4

\* The characters of text that are no blanks are in the result, in their order, and
\* nothing else is.
LEMMA StripPlaces ==
    ASSUME NEW C, NEW text \in Seq(C)
    PROVE  IsStripped(CapitalizeAndRemoveBlanks(text), text, Len(text), C)
<1>. DEFINE n == Len(text)
<1>1. n \in Nat /\ \A k \in 1..n : text[k] \in C
  BY LenProperties
<1>2. PICK kept : kept = KeptTo(text, n, kept) /\ CapitalizeAndRemoveBlanks(text) = kept[n]
  BY <1>1, KeptStep
<1>. HIDE DEF n
<1>3. \A k \in 0..n : kept[k] = IF k = 0 THEN <<>>
                                ELSE IF text[k] = Blank THEN kept[k - 1]
                                     ELSE Append(kept[k - 1], text[k])
  BY <1>2 DEF KeptTo
<1>. DEFINE S == { k \in 0..n : IsStripped(kept[k], text, k, C) }
<1>4. 0 \in S
  <2>1. LettersTo(text, 0) = {}
    BY DEF LettersTo
  <2>2. IsPlacing([k \in {} |-> k], text, 0, <<>>)
    BY <2>1 DEF IsPlacing
  <2>3. 0 \in 0..n
    BY <1>1
  <2>4. kept[0] = <<>>
    BY <1>3, <2>3
  <2>5. IsStripped(<<>>, text, 0, C)
    BY <2>2 DEF IsStripped
  <2>. QED BY <2>3, <2>4, <2>5
<1>5. ASSUME NEW k \in 1..n, k - 1 \in S PROVE k \in S
  <2>1. k \in Nat /\ k # 0 /\ k \in 0..n
    BY <1>1
  <2>2. text[k] \in C
    BY <1>1
  <2>3. IsStripped(kept[k - 1], text, k - 1, C)
    BY <1>5
  <2>4. kept[k] = IF text[k] = Blank THEN kept[k - 1] ELSE Append(kept[k - 1], text[k])
    BY <1>3, <2>1
  <2>5. IsStripped(kept[k], text, k, C)
    BY <2>1, <2>2, <2>3, <2>4, StrippedOneMore
  <2>. QED BY <2>1, <2>5
<1>6. n \in S
  <2>1. n \in 0..n
    BY <1>1
  <2>. HIDE DEF S
  <2>. QED BY <1>1, <1>4, <1>5, <2>1, PlaceInduction
<1>. QED BY <1>2, <1>6 DEF n

\* Places that rise and leave no gap stay where they are.
RisesOnto(h, m, n) ==
    /\ \A k \in 1..m : h[k] \in 1..n
    /\ \A j, k \in 1..m : j < k => h[j] < h[k]
    /\ \A j \in 1..n : \E k \in 1..m : h[k] = j

LEMMA RisingOntoIsIdentity ==
    ASSUME NEW m \in Nat, NEW n \in Nat, NEW h, RisesOnto(h, m, n)
    PROVE  m = n /\ \A k \in 1..m : h[k] = k
<1>0. /\ \A k \in 1..m : h[k] \in 1..n
      /\ \A j, k \in 1..m : j < k => h[j] < h[k]
      /\ \A j \in 1..n : \E k \in 1..m : h[k] = j
  BY DEF RisesOnto
<1>. DEFINE S == { k \in 0..m : k = 0 \/ h[k] = k }
<1>1. 0 \in S
  OBVIOUS
<1>2. ASSUME NEW k \in 1..m, k - 1 \in S PROVE k \in S
  <2>1. k \in 0..m /\ k \in Int /\ h[k] \in 1..n
    BY <1>0
  <2>2. h[k] >= k
    <3>1. CASE k = 1
      BY <2>1, <3>1
    <3>2. CASE k # 1
      <4>1. k - 1 \in 1..m /\ k - 1 < k /\ k - 1 # 0
        BY <2>1, <3>2
      <4>2. h[k - 1] = k - 1 /\ h[k - 1] < h[k]
        BY <1>0, <1>2, <2>1, <4>1
      <4>. QED BY <2>1, <4>2
    <3>. QED BY <3>1, <3>2
  <2>3. k \in 1..n
    BY <2>1, <2>2
  <2>4. PICK q \in 1..m : h[q] = k
    BY <1>0, <2>3
  <2>5. ~ (k < q)
    <3>. SUFFICES ASSUME k < q PROVE FALSE
      OBVIOUS
    <3>1. h[k] < h[q]
      BY <1>0, <2>4
    <3>. QED BY <2>1, <2>2, <2>4, <3>1
  <2>6. ~ (q < k)
    <3>. SUFFICES ASSUME q < k PROVE FALSE
      OBVIOUS
    <3>1. k - 1 \in 1..m /\ k - 1 # 0 /\ q <= k - 1
      BY <2>1
    <3>2. h[k - 1] = k - 1
      BY <1>2, <3>1
    <3>3. q = k - 1 \/ q < k - 1
      BY <3>1
    <3>4. h[q] <= k - 1
      <4>1. q < k - 1 => h[q] < h[k - 1]
        BY <1>0, <3>1
      <4>. QED BY <2>1, <2>4, <3>1, <3>2, <3>3, <4>1
    <3>. QED BY <2>1, <2>4, <3>4
  <2>7. q = k
    BY <2>1, <2>5, <2>6
  <2>. QED BY <2>1, <2>4, <2>7
<1>3. \A k \in 0..m : k \in S
  <2>. HIDE DEF S
  <2>. QED BY <1>1, <1>2, PlaceInduction
<1>4. \A k \in 1..m : h[k] = k
  <2>. TAKE k \in 1..m
  <2>1. k \in 0..m /\ k # 0
    OBVIOUS
  <2>. QED BY <1>3, <2>1
<1>5. m <= n
  <2>1. m # 0 => m \in 1..m
    OBVIOUS
  <2>2. m # 0 => m \in 1..n
    BY <1>0, <1>4, <2>1
  <2>. QED BY <2>2
<1>6. n <= m
  <2>1. n # 0 => n \in 1..n
    OBVIOUS
  <2>2. n # 0 => \E k \in 1..m : k = n
    BY <1>0, <1>4, <2>1
  <2>. QED BY <2>2
<1>. QED BY <1>4, <1>5, <1>6

Strip(text) == CapitalizeAndRemoveBlanks(text)
Letters(text) == LettersTo(text, Len(text))

\* b leads from the characters of t back to where they are in text.
IsWayBack(b, g, text, t) ==
    /\ \A j \in 1..Len(t) : b[j] \in Letters(text) /\ g[b[j]] = j /\ t[j] = text[b[j]]
    /\ \A j, k \in 1..Len(t) : j < k => b[j] < b[k]
    /\ \A l \in Letters(text) : b[g[l]] = l

LEMMA PlacingBack ==
    ASSUME NEW C, NEW text \in Seq(C), NEW t \in Seq(C), NEW g,
           IsPlacing(g, text, Len(text), t)
    PROVE  \E b : IsWayBack(b, g, text, t)
<1>. DEFINE n == Len(t)
            L == Letters(text)
            b == [j \in 1..n |-> CHOOSE l \in L : g[l] = j]
<1>1. n \in Nat /\ L \subseteq Int
  BY LenProperties DEF Letters, LettersTo
<1>2. /\ g \in [L -> 1..n]
      /\ \A j \in 1..n : \E l \in L : g[l] = j
      /\ \A l, o \in L : l < o => g[l] < g[o]
      /\ \A l \in L : t[g[l]] = text[l]
  BY DEF IsPlacing, Letters
<1>. HIDE DEF n, L
<1>3. \A j \in 1..n : b[j] \in L /\ g[b[j]] = j
  BY <1>2
<1>4. b \in [1..n -> L]
  BY <1>3
<1>. HIDE DEF b
<1>5. \A j \in 1..n : t[j] = text[b[j]]
  BY <1>2, <1>3
<1>6. \A l, o \in L : g[l] = g[o] => l = o
  <2>. SUFFICES ASSUME NEW l \in L, NEW o \in L, g[l] = g[o] PROVE l = o
    OBVIOUS
  <2>1. ~ (g[l] < g[o]) /\ ~ (g[o] < g[l])
    <3>1. g[l] \in Int
      BY <1>1, <1>2
    <3>. QED BY <3>1
  <2>2. ~ (l < o) /\ ~ (o < l)
    BY <1>2, <2>1
  <2>3. l \in Int /\ o \in Int
    BY <1>1
  <2>. QED BY <2>2, <2>3
<1>7. \A j, k \in 1..n : j < k => b[j] < b[k]
  <2>. SUFFICES ASSUME NEW j \in 1..n, NEW k \in 1..n, j < k PROVE b[j] < b[k]
    OBVIOUS
  <2>1. b[j] \in L /\ b[k] \in L /\ g[b[j]] = j /\ g[b[k]] = k
    BY <1>3
  <2>2. j \in Int /\ k \in Int /\ b[j] \in Int /\ b[k] \in Int
    <3>1. b[j] \in Int /\ b[k] \in Int
      BY <1>1, <2>1, Zenon
    <3>2. j \in Int /\ k \in Int
      BY <1>1
    <3>. QED BY <3>1, <3>2
  <2>3. ~ (b[k] < b[j])
    <3>1. b[k] < b[j] => k < j
      BY <1>2, <2>1
    <3>. QED BY <2>2, <3>1
  <2>4. b[j] # b[k]
    BY <2>1, <2>2
  <2>. QED BY <2>2, <2>3, <2>4
<1>8. \A l \in L : b[g[l]] = l
  <2>. TAKE l \in L
  <2>1. g[l] \in 1..n
    BY <1>2
  <2>. QED BY <1>3, <1>6, <2>1
<1>9. IsWayBack(b, g, text, t)
  BY <1>3, <1>4, <1>5, <1>7, <1>8 DEF IsWayBack, n, L
<1>. QED BY <1>9

LEMMA LetterTexts ==
    ASSUME NEW s, NEW t
    PROVE  SameText(s, t) <=>
              \E f \in [Letters(s) -> Letters(t)] :
                 /\ \A j \in Letters(t) : \E k \in Letters(s) : f[k] = j
                 /\ \A k, l \in Letters(s) : k < l => f[k] < f[l]
                 /\ \A k \in Letters(s) : s[k] = t[f[k]]
  BY Zenon DEF SameText, Letters, LettersTo, Blank

\* Two texts that differ in blanks only are stripped to the same text.
LEMMA SameTextSameStrip ==
    ASSUME NEW C, NEW s \in Seq(C), NEW t \in Seq(C), SameText(s, t)
    PROVE  Strip(s) = Strip(t)
<1>. DEFINE u == Strip(s)
            v == Strip(t)
            m == Len(u)
            n == Len(v)
<1>1. /\ u \in Seq(C) /\ v \in Seq(C)
      /\ \E g : IsPlacing(g, s, Len(s), u)
      /\ \E g : IsPlacing(g, t, Len(t), v)
  BY StripPlaces DEF IsStripped, Strip
<1>. HIDE DEF u, v
<1>2. PICK f \in [Letters(s) -> Letters(t)] :
         /\ \A j \in Letters(t) : \E k \in Letters(s) : f[k] = j
         /\ \A k, l \in Letters(s) : k < l => f[k] < f[l]
         /\ \A k \in Letters(s) : s[k] = t[f[k]]
  BY LetterTexts
<1>3. PICK g, e : IsPlacing(g, s, Len(s), u) /\ IsPlacing(e, t, Len(t), v)
  BY <1>1
<1>b. PICK b : IsWayBack(b, g, s, u)
  BY <1>1, <1>3, PlacingBack
<1>4. /\ \A j \in 1..Len(u) : b[j] \in Letters(s) /\ g[b[j]] = j /\ u[j] = s[b[j]]
      /\ \A j, k \in 1..Len(u) : j < k => b[j] < b[k]
      /\ \A l \in Letters(s) : b[g[l]] = l
  BY <1>b DEF IsWayBack
<1>5. /\ e \in [Letters(t) -> 1..n]
      /\ \A j \in 1..n : \E l \in Letters(t) : e[l] = j
      /\ \A l, o \in Letters(t) : l < o => e[l] < e[o]
      /\ \A l \in Letters(t) : v[e[l]] = t[l]
  BY <1>3 DEF IsPlacing, Letters
<1>6. g \in [Letters(s) -> 1..m]
  BY <1>3 DEF IsPlacing, Letters
<1>7. m \in Nat /\ n \in Nat
  BY <1>1, LenProperties
<1>. DEFINE h == [j \in 1..m |-> e[f[b[j]]]]
<1>. HIDE DEF m, n
<1>8. \A j \in 1..m : b[j] \in Letters(s) /\ f[b[j]] \in Letters(t)
  BY <1>2, <1>4 DEF m
<1>9. h \in [1..m -> 1..n]
  BY <1>5, <1>8
<1>10. \A j, k \in 1..m : j < k => h[j] < h[k]
  BY <1>2, <1>4, <1>5, <1>8 DEF m
<1>11. \A j \in 1..n : \E k \in 1..m : h[k] = j
  <2>. TAKE j \in 1..n
  <2>1. PICK l \in Letters(t) : e[l] = j
    BY <1>5
  <2>2. PICK k \in Letters(s) : f[k] = l
    BY <1>2
  <2>3. g[k] \in 1..m /\ b[g[k]] = k
    BY <1>4, <1>6
  <2>4. h[g[k]] = j
    BY <2>1, <2>2, <2>3
  <2>. QED BY <2>3, <2>4
<1>12. \A k \in 1..m : u[k] = v[h[k]]
  <2>. TAKE k \in 1..m
  <2>1. u[k] = s[b[k]] /\ s[b[k]] = t[f[b[k]]] /\ v[e[f[b[k]]]] = t[f[b[k]]]
    BY <1>2, <1>4, <1>5, <1>8 DEF m
  <2>. QED BY <2>1
<1>. HIDE DEF h
<1>. HIDE DEF h
<1>13. m = n /\ \A k \in 1..m : u[k] = v[k]
  <2>1. RisesOnto(h, m, n)
    BY <1>9, <1>10, <1>11 DEF RisesOnto
  <2>2. m = n /\ \A k \in 1..m : h[k] = k
    BY <1>7, <2>1, RisingOntoIsIdentity
  <2>3. ASSUME NEW k \in 1..m PROVE u[k] = v[k]
    <3>1. u[k] = v[h[k]] /\ h[k] = k
      BY <1>12, <2>2
    <3>. QED BY <3>1
  <2>. QED BY <2>2, <2>3
<1>14. u = v
  BY <1>1, <1>13, SeqEqual DEF m, n
<1>. QED BY <1>14 DEF u, v

LEMMA SameStripSameText ==
    ASSUME NEW C, NEW s \in Seq(C), NEW t \in Seq(C), Strip(s) = Strip(t)
    PROVE  SameText(s, t)
<1>. DEFINE u == Strip(s)
<1>1. /\ u \in Seq(C)
      /\ \E g : IsPlacing(g, s, Len(s), u)
      /\ \E g : IsPlacing(g, t, Len(t), u)
  BY StripPlaces DEF IsStripped, Strip
<1>. HIDE DEF u
<1>2. PICK g, e : IsPlacing(g, s, Len(s), u) /\ IsPlacing(e, t, Len(t), u)
  BY <1>1
<1>b. PICK b : IsWayBack(b, e, t, u)
  BY <1>1, <1>2, PlacingBack
<1>3. /\ \A j \in 1..Len(u) : b[j] \in Letters(t) /\ e[b[j]] = j /\ u[j] = t[b[j]]
      /\ \A j, k \in 1..Len(u) : j < k => b[j] < b[k]
      /\ \A l \in Letters(t) : b[e[l]] = l
  BY <1>b DEF IsWayBack
<1>4. /\ g \in [Letters(s) -> 1..Len(u)]
      /\ \A j \in 1..Len(u) : \E l \in Letters(s) : g[l] = j
      /\ \A l, o \in Letters(s) : l < o => g[l] < g[o]
      /\ \A l \in Letters(s) : u[g[l]] = s[l]
  BY <1>2 DEF IsPlacing, Letters
<1>5. e \in [Letters(t) -> 1..Len(u)]
  BY <1>2 DEF IsPlacing, Letters
<1>. DEFINE f == [k \in Letters(s) |-> b[g[k]]]
<1>6. f \in [Letters(s) -> Letters(t)]
  BY <1>3, <1>4
<1>7. \A j \in Letters(t) : \E k \in Letters(s) : f[k] = j
  <2>. TAKE j \in Letters(t)
  <2>1. e[j] \in 1..Len(u) /\ b[e[j]] = j
    BY <1>3, <1>5
  <2>2. PICK k \in Letters(s) : g[k] = e[j]
    BY <1>4, <2>1
  <2>. QED BY <2>1, <2>2
<1>8. \A k, l \in Letters(s) : k < l => f[k] < f[l]
  BY <1>3, <1>4
<1>9. \A k \in Letters(s) : s[k] = t[f[k]]
  <2>. TAKE k \in Letters(s)
  <2>1. g[k] \in 1..Len(u) /\ u[g[k]] = s[k]
    BY <1>4
  <2>. QED BY <1>3, <2>1
<1>. HIDE DEF f
<1>. QED BY <1>6, <1>7, <1>8, <1>9, LetterTexts

\* A text without blanks stays what it is.
LEMMA StripOfLetters ==
    ASSUME NEW C, NEW t \in Seq(C), \A k \in 1..Len(t) : t[k] # " "
    PROVE  Strip(t) = t
<1>. DEFINE u == Strip(t)
            m == Len(t)
            n == Len(u)
<1>1. u \in Seq(C) /\ \E g : IsPlacing(g, t, Len(t), u)
  BY StripPlaces DEF IsStripped, Strip
<1>. HIDE DEF u
<1>2. PICK g : IsPlacing(g, t, Len(t), u)
  BY <1>1
<1>3. LettersTo(t, Len(t)) = 1..m
  BY Zenon DEF LettersTo, Blank
<1>4. /\ g \in [1..m -> 1..n]
      /\ \A j \in 1..n : \E l \in 1..m : g[l] = j
      /\ \A l, o \in 1..m : l < o => g[l] < g[o]
      /\ \A l \in 1..m : t[l] = u[g[l]]
  BY <1>2, <1>3, Zenon DEF IsPlacing
<1>5. m \in Nat /\ n \in Nat
  BY <1>1, LenProperties
<1>6. m = n /\ \A k \in 1..m : t[k] = u[k]
  <2>. HIDE DEF m, n
  <2>1. RisesOnto(g, m, n)
    BY <1>4 DEF RisesOnto
  <2>2. m = n /\ \A k \in 1..m : g[k] = k
    BY <1>5, <2>1, RisingOntoIsIdentity
  <2>3. ASSUME NEW k \in 1..m PROVE t[k] = u[k]
    <3>1. t[k] = u[g[k]] /\ g[k] = k
      BY <1>4, <2>2
    <3>. QED BY <3>1
  <2>. QED BY <2>2, <2>3
<1>. HIDE DEF m, n
<1>7. t = u
  BY <1>1, <1>6, SeqEqual DEF m, n
<1>. QED BY <1>7 DEF u

LEMMA StripProperties ==
    ASSUME NEW C, NEW t \in Seq(C)
    PROVE  /\ Strip(t) \in Seq(C)
           /\ \A k \in 1..Len(Strip(t)) : Strip(t)[k] # " "
           /\ Strip(Strip(t)) = Strip(t)
           /\ Strip(t) = <<>> <=> \A k \in 1..Len(t) : t[k] = " "
<1>. DEFINE u == Strip(t)
<1>1. u \in Seq(C) /\ (\A j \in 1..Len(u) : u[j] # Blank)
      /\ \E g : IsPlacing(g, t, Len(t), u)
  BY StripPlaces DEF IsStripped, Strip
<1>. HIDE DEF u
<1>2. Strip(u) = u
  BY <1>1, StripOfLetters, Zenon DEF Blank
<1>3. PICK g : IsPlacing(g, t, Len(t), u)
  BY <1>1
<1>4. ASSUME u = <<>> PROVE \A k \in 1..Len(t) : t[k] = Blank
  <2>1. 1..Len(u) = {}
    BY <1>4
  <2>. SUFFICES ASSUME NEW k \in 1..Len(t), t[k] # Blank PROVE FALSE
    OBVIOUS
  <2>2. k \in LettersTo(t, Len(t))
    BY DEF LettersTo
  <2>. QED BY <1>3, <2>1, <2>2 DEF IsPlacing
<1>5. ASSUME \A k \in 1..Len(t) : t[k] = Blank PROVE u = <<>>
  <2>1. LettersTo(t, Len(t)) = {}
    BY <1>5 DEF LettersTo
  <2>2. 1..Len(u) = {}
    BY <1>3, <2>1 DEF IsPlacing
  <2>. QED BY <1>1, <2>2
<1>. QED BY <1>1, <1>2, <1>4, <1>5, Zenon DEF u, Blank

LEMMA SameTextIsSameStrip ==
    ASSUME NEW C, NEW s \in Seq(C), NEW t \in Seq(C)
    PROVE  SameText(s, t) <=> Strip(s) = Strip(t)
  BY SameTextSameStrip, SameStripSameText

\* The provers do not know that the strings of the module are in STRING.
Alphabet == STRING \cup {"unset", "-", "uFilterPicker"}

Written == Seq(Alphabet \ {"unset"}) \cup {Unset}

LEMMA TextsAreWritten == Texts \subseteq Written
<1>. DEFINE C == STRING \ {"unset"}
            D == Alphabet \ {"unset"}
<1>1. C \subseteq D
  BY DEF Alphabet
<1>. HIDE DEF C, D
<1>2. Seq(C) \subseteq Seq(D)
  BY <1>1
<1>. QED BY <1>2 DEF Texts, Written, C, D

LEMMA ShortTexts ==
    ASSUME NEW C, NEW x \in C, NEW y \in C
    PROVE  /\ <<x>> \in Seq(C) /\ Len(<<x>>) = 1 /\ <<x>>[1] = x
           /\ <<x, y>> \in Seq(C) /\ Len(<<x, y>>) = 2
           /\ <<x, y>>[1] = x /\ <<x, y>>[2] = y
  OBVIOUS

LEMMA TextsAreStripped ==
    ASSUME NEW t \in Written
    PROVE  /\ t \in Seq(Alphabet)
           /\ Strip(t) \in Written /\ Strip(t) \in Seq(Alphabet)
           /\ Strip(Strip(t)) = Strip(t)
           /\ IsSet(Strip(t)) <=> IsSet(t)
           /\ Strip(t) = <<>> <=> \A k \in 1..Len(t) : t[k] = " "
<1>. DEFINE Character == Alphabet \ {"unset"}
<1>1. Unset \in Seq(Alphabet) /\ Len(Unset) = 1 /\ Unset[1] = "unset"
  <2>1. "unset" \in Alphabet
    BY DEF Alphabet
  <2>. QED BY <2>1, ShortTexts, Zenon DEF Unset
<1>2. ASSUME NEW u \in Seq(Character) PROVE u \in Seq(Alphabet) /\ u # Unset
  <2>1. u \in Seq(Alphabet)
    OBVIOUS
  <2>2. u # Unset
    <3>. SUFFICES ASSUME u = Unset PROVE FALSE
      OBVIOUS
    <3>1. 1 \in 1..Len(u)
      BY <1>1
    <3>2. u[1] \in Character
      BY <3>1
    <3>. QED BY <1>1, <3>2
  <2>. QED BY <2>1, <2>2
<1>3. t \in Seq(Alphabet)
  BY <1>1, <1>2 DEF Written
<1>4. /\ Strip(t) \in Seq(Alphabet) /\ Strip(Strip(t)) = Strip(t)
      /\ Strip(t) = <<>> <=> \A k \in 1..Len(t) : t[k] = " "
  BY <1>3, StripProperties, Zenon
<1>5. CASE t \in Seq(Character)
  <2>1. Strip(t) \in Seq(Character)
    <3>. HIDE DEF Character
    <3>. QED BY <1>5, StripProperties, Zenon
  <2>2. Strip(t) # Unset /\ t # Unset
    BY <1>2, <1>5, <2>1
  <2>. QED BY <1>3, <1>4, <2>1, <2>2, Zenon DEF IsSet, Written
<1>6. CASE t = Unset
  <2>1. \A k \in 1..Len(Unset) : Unset[k] # " "
    <3>1. \A k \in 1..1 : k = 1
      OBVIOUS
    <3>2. "unset" # " "
      OBVIOUS
    <3>. QED BY <1>1, <3>1, <3>2, Zenon
  <2>2. Strip(Unset) = Unset
    BY <1>1, <2>1, StripOfLetters, Zenon
  <2>. QED BY <1>3, <1>4, <1>6, <2>2, Zenon DEF Written
<1>. QED BY <1>5, <1>6 DEF Written

\* What Fixed makes of each field.
FixedText(f, t) ==
    CASE f \in StreamNames -> Strip(t)
      [] f = "location_code" -> FixedLocation(t)
      [] f = "name" /\ ~ IsSet(t) -> DefaultAlgorithm
      [] OTHER -> t

\* What SameSpelling asks of each field.
SameField(f, s, t) ==
    CASE f \in StreamNames -> SameText(s, t)
      [] f = "location_code" -> SameText(OrElse(s, DefaultLocation), OrElse(t, DefaultLocation))
      [] f = "name" -> s = t \/ {s, t} = {Unset, DefaultAlgorithm}
      [] OTHER -> s = t

IsMessage(m) == m \in [text : [Fields -> Written], time : Int]

LEMMA FieldsOfMessages ==
    /\ \A f \in Fields : f \in StreamNames \/ f = "location_code" \/ f = "name" \/ f = "version"
    /\ \A f \in StreamNames : f # "location_code" /\ f # "name" /\ f # "version" /\ f \in Fields
    /\ "location_code" \in Fields /\ "name" \in Fields /\ "version" \in Fields
    /\ "location_code" # "name" /\ "location_code" # "version" /\ "name" # "version"
    /\ "location_code" \notin StreamNames /\ "name" \notin StreamNames
    /\ "version" \notin StreamNames
  BY DEF Fields, StreamNames

LEMMA FixedTexts ==
    ASSUME NEW t
    PROVE  /\ \A f \in StreamNames : FixedText(f, t) = Strip(t)
           /\ FixedText("location_code", t) = FixedLocation(t)
           /\ FixedText("name", t) = IF IsSet(t) THEN t ELSE DefaultAlgorithm
           /\ FixedText("version", t) = t
<1>1. \A f \in StreamNames : FixedText(f, t) = Strip(t)
  BY FieldsOfMessages DEF FixedText
<1>2. FixedText("location_code", t) = FixedLocation(t)
  BY FieldsOfMessages DEF FixedText
<1>3. FixedText("name", t) = IF IsSet(t) THEN t ELSE DefaultAlgorithm
  BY FieldsOfMessages DEF FixedText
<1>4. FixedText("version", t) = t
  BY FieldsOfMessages DEF FixedText
<1>. QED BY <1>1, <1>2, <1>3, <1>4

LEMMA FixedFields ==
    ASSUME NEW m, IsMessage(m)
    PROVE  /\ Fixed(m) = [text |-> [f \in Fields |-> FixedText(f, m.text[f])], time |-> m.time]
           /\ Fixed(m).time = m.time
           /\ \A f \in Fields : Fixed(m).text[f] = FixedText(f, m.text[f])
<1>1. Fixed(m) = [m EXCEPT !.text = [f \in Fields |-> FixedText(f, m.text[f])]]
  BY Zenon DEF Fixed, FixedText, Strip
<1>. DEFINE g == [f \in Fields |-> FixedText(f, m.text[f])]
<1>2. \A f \in Fields : g[f] = FixedText(f, m.text[f])
  OBVIOUS
<1>. HIDE DEF g
<1>3. Fixed(m) = [text |-> g, time |-> m.time]
  <2>1. m = [text |-> m.text, time |-> m.time]
    BY DEF IsMessage
  <2>2. [m EXCEPT !.text = g] = [text |-> g, time |-> m.time]
    BY <2>1
  <2>. QED BY <1>1, <2>2 DEF g
<1>. QED BY <1>2, <1>3 DEF g

LEMMA SameFields ==
    ASSUME NEW m, NEW n
    PROVE  SameSpelling(m, n) <=>
              m.time = n.time /\ \A f \in Fields : SameField(f, m.text[f], n.text[f])
<1>1. \A s, t : \A f \in StreamNames : SameField(f, s, t) <=> SameText(s, t)
  BY FieldsOfMessages DEF SameField
<1>2. \A s, t : SameField("location_code", s, t) <=>
                SameText(OrElse(s, DefaultLocation), OrElse(t, DefaultLocation))
  BY FieldsOfMessages DEF SameField
<1>3. \A s, t : SameField("name", s, t) <=> s = t \/ {s, t} = {Unset, DefaultAlgorithm}
  BY FieldsOfMessages DEF SameField
<1>4. \A s, t : SameField("version", s, t) <=> s = t
  BY FieldsOfMessages DEF SameField
<1>5. ASSUME SameSpelling(m, n), NEW f \in Fields
      PROVE  m.time = n.time /\ SameField(f, m.text[f], n.text[f])
  <2>. DEFINE a == m.text
              b == n.text
  <2>1. /\ m.time = n.time
        /\ \A g \in StreamNames : SameText(a[g], b[g])
        /\ SameText(OrElse(a["location_code"], DefaultLocation),
                    OrElse(b["location_code"], DefaultLocation))
        /\ a["name"] = b["name"] \/ {a["name"], b["name"]} = {Unset, DefaultAlgorithm}
        /\ a["version"] = b["version"]
    BY <1>5, Zenon DEF SameSpelling, SameButForStream, Location
  <2>. HIDE DEF a, b
  <2>2. CASE f \in StreamNames
    BY <1>1, <2>1, <2>2, Zenon DEF a, b
  <2>3. CASE f = "location_code"
    BY <1>2, <2>1, <2>3, Zenon DEF a, b
  <2>4. CASE f = "name"
    BY <1>3, <2>1, <2>4, Zenon DEF a, b
  <2>5. CASE f = "version"
    BY <1>4, <2>1, <2>5, Zenon DEF a, b
  <2>. QED BY <2>2, <2>3, <2>4, <2>5, FieldsOfMessages
<1>6. ASSUME m.time = n.time, \A f \in Fields : SameField(f, m.text[f], n.text[f])
      PROVE  SameSpelling(m, n)
  <2>1. \A f \in StreamNames : SameText(m.text[f], n.text[f])
    BY <1>1, <1>6, FieldsOfMessages, Zenon
  <2>2. SameField("location_code", m.text["location_code"], n.text["location_code"])
        /\ SameField("name", m.text["name"], n.text["name"])
        /\ SameField("version", m.text["version"], n.text["version"])
    BY <1>6, FieldsOfMessages, Zenon
  <2>3. SameText(OrElse(m.text["location_code"], DefaultLocation),
                 OrElse(n.text["location_code"], DefaultLocation))
    BY <1>2, <2>2, Zenon
  <2>4. m.text["name"] = n.text["name"]
           \/ {m.text["name"], n.text["name"]} = {Unset, DefaultAlgorithm}
    BY <1>3, <2>2, Zenon
  <2>5. m.text["version"] = n.text["version"]
    BY <1>4, <2>2, Zenon
  <2>. QED BY <1>6, <2>1, <2>3, <2>4, <2>5, Zenon DEF SameSpelling, SameButForStream, Location
<1>7. \E f \in Fields : TRUE
  BY FieldsOfMessages
<1>. QED BY <1>5, <1>6, <1>7, Zenon

LEMMA LocationIsText ==
    /\ DefaultLocation \in Written /\ Strip(DefaultLocation) = DefaultLocation
    /\ IsSet(DefaultLocation) /\ DefaultLocation # <<>>
    /\ DefaultAlgorithm \in Written /\ IsSet(DefaultAlgorithm)
<1>1. DefaultLocation \in Seq(Alphabet \ {"unset"}) /\ Len(DefaultLocation) = 2
      /\ \A k \in 1..Len(DefaultLocation) : DefaultLocation[k] # " "
  <2>1. "-" \in Alphabet \ {"unset"} /\ "-" # " "
    BY DEF Alphabet
  <2>2. \A k \in 1..2 : k = 1 \/ k = 2
    OBVIOUS
  <2>. DEFINE C == Alphabet \ {"unset"}
  <2>. HIDE DEF C
  <2>3. DefaultLocation \in Seq(C) /\ Len(DefaultLocation) = 2
        /\ DefaultLocation[1] = "-" /\ DefaultLocation[2] = "-"
    <3>1. "-" \in C
      BY <2>1 DEF C
    <3>. QED BY <3>1, ShortTexts, Zenon DEF DefaultLocation
  <2>. QED BY <2>1, <2>2, <2>3, Zenon DEF C
<1>2. DefaultAlgorithm \in Seq(Alphabet \ {"unset"})
  <2>1. "uFilterPicker" \in Alphabet \ {"unset"}
    BY DEF Alphabet
  <2>. QED BY <2>1, ShortTexts, Zenon DEF DefaultAlgorithm
<1>3. IsSet(DefaultLocation) /\ DefaultLocation # <<>>
  BY DEF IsSet, DefaultLocation, Unset
<1>4. IsSet(DefaultAlgorithm)
  BY DEF IsSet, DefaultAlgorithm, Unset
<1>5. Strip(DefaultLocation) = DefaultLocation
  <2>. DEFINE C == Alphabet \ {"unset"}
  <2>. HIDE DEF C
  <2>1. DefaultLocation \in Seq(C)
    BY <1>1 DEF C
  <2>. QED BY <1>1, <2>1, StripOfLetters, Zenon
<1>. QED BY <1>1, <1>2, <1>3, <1>4, <1>5 DEF Written

LEMMA FixedLocations ==
    ASSUME NEW t \in Written
    PROVE  /\ OrElse(t, DefaultLocation) \in Written
           /\ FixedLocation(t) = Strip(OrElse(t, DefaultLocation))
           /\ FixedLocation(FixedLocation(t)) = FixedLocation(t)
           /\ FixedLocation(t) \in Written
<1>. DEFINE gone == ~ IsSet(t) \/ Strip(t) = <<>>
<1>1. Strip(t) = <<>> <=> \A k \in 1..Len(t) : t[k] = " "
  BY TextsAreStripped
<1>2. OrElse(t, DefaultLocation) = IF gone THEN DefaultLocation ELSE t
  BY <1>1, Zenon DEF OrElse
<1>3. FixedLocation(t) = IF gone THEN DefaultLocation ELSE Strip(t)
  BY Zenon DEF FixedLocation, Strip
<1>4. CASE gone
  <2>1. FixedLocation(DefaultLocation) = DefaultLocation
    BY LocationIsText, Zenon DEF FixedLocation, Strip
  <2>. QED BY <1>2, <1>3, <1>4, <2>1, LocationIsText, Zenon
<1>5. CASE ~ gone
  <2>1. /\ IsSet(Strip(t)) /\ Strip(Strip(t)) = Strip(t) /\ Strip(t) # <<>>
        /\ Strip(t) \in Written
    BY <1>5, TextsAreStripped, Zenon
  <2>2. FixedLocation(Strip(t)) = Strip(t)
    BY <2>1, Zenon DEF FixedLocation, Strip
  <2>. QED BY <1>2, <1>3, <1>5, <2>1, <2>2, Zenon
<1>. QED BY <1>4, <1>5

\* One field is fixed to the same text when, and only when, it tells of the same.
LEMMA FieldDecides ==
    ASSUME NEW f \in Fields, NEW s \in Written, NEW t \in Written
    PROVE  /\ SameField(f, s, t) <=> FixedText(f, s) = FixedText(f, t)
           /\ FixedText(f, FixedText(f, s)) = FixedText(f, s)
           /\ FixedText(f, s) \in Written
<1>1. CASE f \in StreamNames
  <2>1. s \in Seq(Alphabet) /\ t \in Seq(Alphabet)
    BY TextsAreStripped
  <2>2. SameText(s, t) <=> Strip(s) = Strip(t)
    BY <2>1, SameTextIsSameStrip
  <2>3. SameField(f, s, t) <=> SameText(s, t)
    BY <1>1, FieldsOfMessages DEF SameField
  <2>4. Strip(Strip(s)) = Strip(s) /\ Strip(s) \in Written
    BY TextsAreStripped
  <2>. QED BY <1>1, <2>2, <2>3, <2>4, FixedTexts
<1>2. CASE f = "location_code"
  <2>. DEFINE a == OrElse(s, DefaultLocation)
              b == OrElse(t, DefaultLocation)
  <2>1. /\ a \in Written /\ b \in Written /\ FixedLocation(s) = Strip(a)
        /\ FixedLocation(t) = Strip(b) /\ FixedLocation(FixedLocation(s)) = FixedLocation(s)
        /\ FixedLocation(s) \in Written
    BY FixedLocations
  <2>2. SameField(f, s, t) <=> SameText(a, b)
    BY <1>2, FieldsOfMessages DEF SameField
  <2>. HIDE DEF a, b
  <2>3. a \in Seq(Alphabet) /\ b \in Seq(Alphabet)
    BY <2>1, TextsAreStripped
  <2>4. SameText(a, b) <=> Strip(a) = Strip(b)
    BY <2>3, SameTextIsSameStrip
  <2>. QED BY <1>2, <2>1, <2>2, <2>4, FixedTexts
<1>3. CASE f = "name"
  <2>1. SameField(f, s, t) <=> s = t \/ {s, t} = {Unset, DefaultAlgorithm}
    BY <1>3, FieldsOfMessages DEF SameField
  <2>2. {s, t} = {Unset, DefaultAlgorithm} <=>
           (s = Unset /\ t = DefaultAlgorithm) \/ (s = DefaultAlgorithm /\ t = Unset)
    BY LocationIsText DEF IsSet
  <2>. QED BY <1>3, <2>1, <2>2, FixedTexts, LocationIsText DEF IsSet
<1>4. CASE f = "version"
  <2>1. SameField(f, s, t) <=> s = t
    BY <1>4, FieldsOfMessages DEF SameField
  <2>. QED BY <1>4, <2>1, FixedTexts
<1>. QED BY <1>1, <1>2, <1>3, <1>4, FieldsOfMessages

LEMMA NormalFormDecidesMessages ==
    ASSUME NEW m, NEW n, IsMessage(m), IsMessage(n)
    PROVE  SameSpelling(m, n) <=> Fixed(m) = Fixed(n)
<1>1. \A f \in Fields : m.text[f] \in Written /\ n.text[f] \in Written
  BY DEF IsMessage
<1>2. \A f \in Fields : SameField(f, m.text[f], n.text[f]) <=>
                        FixedText(f, m.text[f]) = FixedText(f, n.text[f])
  BY <1>1, FieldDecides
<1>3. ASSUME Fixed(m) = Fixed(n) PROVE SameSpelling(m, n)
  BY <1>2, <1>3, FixedFields, SameFields
<1>4. ASSUME SameSpelling(m, n) PROVE Fixed(m) = Fixed(n)
  <2>1. m.time = n.time /\ \A f \in Fields : FixedText(f, m.text[f]) = FixedText(f, n.text[f])
    BY <1>2, <1>4, SameFields
  <2>2. [f \in Fields |-> FixedText(f, m.text[f])] = [f \in Fields |-> FixedText(f, n.text[f])]
    BY <2>1
  <2>. QED BY <2>1, <2>2, FixedFields
<1>. QED BY <1>3, <1>4

LEMMA FixedIsNormalMessage ==
    ASSUME NEW m, IsMessage(m)
    PROVE  /\ IsMessage(Fixed(m))
           /\ Fixed(Fixed(m)) = Fixed(m)
           /\ SameSpelling(m, Fixed(m))
           /\ \A now : IsValid(m, now) <=> IsValid(Fixed(m), now)
<1>1. \A f \in Fields : m.text[f] \in Written
  BY DEF IsMessage
<1>. DEFINE p == Fixed(m)
<1>2. /\ p = [text |-> [f \in Fields |-> FixedText(f, m.text[f])], time |-> m.time]
      /\ p.time = m.time
      /\ \A f \in Fields : p.text[f] = FixedText(f, m.text[f])
  BY FixedFields, Zenon
<1>3. \A f \in Fields : /\ FixedText(f, m.text[f]) \in Written
                        /\ FixedText(f, FixedText(f, m.text[f])) = FixedText(f, m.text[f])
  BY <1>1, FieldDecides, Zenon
<1>4. IsMessage(p)
  <2>. DEFINE g == [f \in Fields |-> FixedText(f, m.text[f])]
  <2>1. g \in [Fields -> Written]
    BY <1>3, Zenon
  <2>. HIDE DEF g
  <2>2. m.time \in Int
    BY DEF IsMessage
  <2>3. [text |-> g, time |-> m.time] \in [text : [Fields -> Written], time : Int]
    BY <2>1, <2>2
  <2>. QED BY <1>2, <2>3 DEF IsMessage, g
<1>. HIDE DEF p
<1>5. Fixed(p) = p
  <2>1. Fixed(p) = [text |-> [f \in Fields |-> FixedText(f, p.text[f])], time |-> p.time]
    BY <1>4, FixedFields, Zenon
  <2>2. [f \in Fields |-> FixedText(f, p.text[f])] = [f \in Fields |-> FixedText(f, m.text[f])]
    BY <1>2, <1>3
  <2>. QED BY <1>2, <2>1, <2>2, Zenon
<1>6. SameSpelling(m, p)
  BY <1>4, <1>5, NormalFormDecidesMessages DEF p
<1>7. \A now : IsValid(m, now) <=> IsValid(p, now)
  <2>1. \A f \in StreamNames : p.text[f] = Strip(m.text[f])
    BY <1>2, FieldsOfMessages, FixedTexts
  <2>2. \A f \in StreamNames : /\ Strip(p.text[f]) = Strip(m.text[f])
                               /\ IsSet(p.text[f]) <=> IsSet(m.text[f])
    <3>1. \A f \in StreamNames : m.text[f] \in Written
      BY <1>1, FieldsOfMessages
    <3>2. \A f \in StreamNames : /\ Strip(Strip(m.text[f])) = Strip(m.text[f])
                                 /\ IsSet(Strip(m.text[f])) <=> IsSet(m.text[f])
      BY <3>1, TextsAreStripped, Zenon
    <3>. QED BY <2>1, <3>2, Zenon
  <2>3. p.text["version"] = m.text["version"]
    BY <1>2, FieldsOfMessages, FixedTexts
  <2>. QED BY <1>2, <2>2, <2>3, Zenon DEF IsValid, Strip
<1>. QED BY <1>4, <1>5, <1>6, <1>7, Zenon DEF p

IsMessages == \A m \in Messages : IsMessage(m)

LEMMA MessagesAreTyped == ASSUME BrokerAssumption PROVE IsMessages
<1>. SUFFICES ASSUME NEW m \in Messages PROVE IsMessage(m)
  BY DEF IsMessages
<1>1. m \in [text : [Fields -> Texts], time : Int]
  BY DEF BrokerAssumption
<1>2. m = [text |-> m.text, time |-> m.time] /\ m.text \in [Fields -> Texts] /\ m.time \in Int
  BY <1>1
<1>3. m.text \in [Fields -> Written]
  BY <1>2, TextsAreWritten
<1>. QED BY <1>2, <1>3 DEF IsMessage

\* checkAndFixStreamIdentifier, checkAndFixAlgorithm: where the names have room for
\* their capitals, what is taken of two messages is one pick when they have the same
\* spelling, and only then.
THEOREM SpellingDecides ==
    ASSUME BrokerAssumption, NEW m \in Messages, NEW n \in Messages,
           InBounds(m), InBounds(n), IsValid(m, clock), IsValid(n, clock)
    PROVE  SameSpelling(m, n) <=> Taken(m) = Taken(n)
<1>1. SameSpelling(m, n) <=> Fixed(m) = Fixed(n)
  BY MessagesAreTyped, NormalFormDecidesMessages DEF IsMessages
<1>2. Taken(m) = {Fixed(m)} /\ Taken(n) = {Fixed(n)}
  BY DEF Taken
<1>. QED BY <1>1, <1>2

\* The form is final: a pick that is sent again as it was stored is the same pick,
\* where its names, now without their blanks, still have room.
THEOREM FixedIsNormal ==
    ASSUME BrokerAssumption, NEW m \in Messages, InBounds(m), IsValid(m, clock),
           InBounds(Fixed(m))
    PROVE  Taken(Fixed(m)) = Taken(m) /\ SameSpelling(m, Fixed(m))
<1>1. /\ Fixed(Fixed(m)) = Fixed(m) /\ SameSpelling(m, Fixed(m))
      /\ IsValid(m, clock) <=> IsValid(Fixed(m), clock)
  BY MessagesAreTyped, FixedIsNormalMessage DEF IsMessages
<1>. QED BY <1>1 DEF Taken

Small == {"a", "b", "c", "d", "e", "f", "g", "h", "i", "j", "k", "l", "m",
          "n", "o", "p", "q", "r", "s", "t", "u", "v", "w", "x", "y", "z"}
Large == {"A", "B", "C", "D", "E", "F", "G", "H", "I", "J", "K", "L", "M",
          "N", "O", "P", "Q", "R", "S", "T", "U", "V", "W", "X", "Y", "Z"}

\* Neither a small letter nor a capital is a blank.
LEMMA UpperKeepsBlanks == \A c : Upper(c) = Blank <=> c = Blank
<1>1. DOMAIN CapitalOf = Small
  BY DEF CapitalOf, Small
<1>2. \A c \in Small : CapitalOf[c] \in Large
  BY DEF CapitalOf, Small, Large
<1>3. Blank \notin Small /\ Blank \notin Large
  BY Zenon DEF Blank, Small, Large
<1>. QED BY <1>1, <1>2, <1>3 DEF Upper

LEMMA CapitalsSameText ==
    ASSUME NEW C, NEW s \in Seq(C), NEW t \in Seq(C), SameText(s, t)
    PROVE  SameText(Capitals(s), Capitals(t))
<1>1. ASSUME NEW u \in Seq(C)
      PROVE  /\ Letters(Capitals(u)) = Letters(u)
             /\ \A k \in Letters(u) : Capitals(u)[k] = Upper(u[k])
  <2>1. Len(u) \in Nat
    OBVIOUS
  <2>2. Len(Capitals(u)) = Len(u) /\ \A k \in 1..Len(u) : Capitals(u)[k] = Upper(u[k])
    BY <2>1 DEF Capitals
  <2>. QED BY <2>2, UpperKeepsBlanks DEF Letters, LettersTo
<1>2. PICK f \in [Letters(s) -> Letters(t)] :
         /\ \A j \in Letters(t) : \E k \in Letters(s) : f[k] = j
         /\ \A k, l \in Letters(s) : k < l => f[k] < f[l]
         /\ \A k \in Letters(s) : s[k] = t[f[k]]
  BY LetterTexts
<1>3. \A k \in Letters(s) : Capitals(s)[k] = Capitals(t)[f[k]]
  BY <1>1, <1>2
<1>. DEFINE a == Capitals(s)
            b == Capitals(t)
<1>4. Letters(a) = Letters(s) /\ Letters(b) = Letters(t)
  BY <1>1
<1>. HIDE DEF a, b
<1>5. SameText(a, b)
  BY <1>2, <1>3, <1>4, LetterTexts DEF a, b
<1>. QED BY <1>5 DEF a, b

LEMMA SpellingsTellOfArrivals ==
    ASSUME NEW m, NEW n, IsMessage(m), IsMessage(n), SameSpelling(m, n)
    PROVE  SameArrival(m, n)
<1>1. \A f \in Fields : m.text[f] \in Written /\ n.text[f] \in Written
  BY DEF IsMessage
<1>2. ASSUME NEW s \in Written, NEW t \in Written, SameText(s, t)
      PROVE  SameText(Capitals(s), Capitals(t))
  <2>1. s \in Seq(Alphabet) /\ t \in Seq(Alphabet)
    BY TextsAreStripped
  <2>. QED BY <1>2, <2>1, CapitalsSameText
<1>3. \A f \in StreamNames : SameText(Capitals(m.text[f]), Capitals(n.text[f]))
  <2>1. \A f \in StreamNames : f \in Fields /\ SameText(m.text[f], n.text[f])
    BY FieldsOfMessages, Zenon DEF SameSpelling
  <2>. QED BY <1>1, <1>2, <2>1, Zenon
<1>4. SameText(Capitals(Location(m)), Capitals(Location(n)))
  <2>1. Location(m) \in Written /\ Location(n) \in Written
    BY <1>1, FieldsOfMessages, FixedLocations DEF Location
  <2>. QED BY <1>2, <2>1, Zenon DEF SameSpelling
<1>. QED BY <1>3, <1>4, Zenon DEF SameSpelling, SameArrival

\* addPickCallback, where the names have room for their capitals: messages of which
\* one pick is taken tell of one arrival, so that what is dropped as a duplicate is
\* one.  (The converse is refuted: two picks may be of one arrival.)
THEOREM OnePickIsOneArrival ==
    ASSUME BrokerAssumption, NEW m \in Messages, NEW n \in Messages,
           InBounds(m), InBounds(n), NEW p \in Taken(m), p \in Taken(n)
    PROVE  SameArrival(m, n)
<1>1. Fixed(m) = p /\ Fixed(n) = p
  BY DEF Taken
<1>2. IsMessage(m) /\ IsMessage(n)
  BY MessagesAreTyped DEF IsMessages
<1>. QED BY <1>1, <1>2, NormalFormDecidesMessages, SpellingsTellOfArrivals

\* The unique index over the columns of a pick.
PicksAreUnique == \A i, j \in database : i.pick = j.pick => i = j

LEMMA PicksAreUniqueNext ==
    ASSUME PicksAreUnique, [Next]_vars
    PROVE  PicksAreUnique'
<1>. USE DEF processorVars, cleanerVars, metricsVars, historyVars
<1>1. ASSUME AddPick PROVE PicksAreUnique'
  BY <1>1 DEF AddPick, KnownToDatabase, PicksAreUnique
<1>2. ASSUME database' \subseteq database PROVE PicksAreUnique'
  BY <1>2 DEF PicksAreUnique
<1>3. ~ AddPick => database' \subseteq database
  BY DEF Next, ProcessPick, CleanDatabase, Tick, AddPickCallback, CountReceived, PopPick,
         StampPick, RejectDuplicate, AddFails, EnqueuePick, EnqueueFails, DateCleaning,
         DeletePicksBefore, KeptFrom, Crash, Restart, vars
<1>. QED BY <1>1, <1>2, <1>3

LEMMA UniquePicksAreSpellings ==
    ASSUME BrokerAssumption, Typed, PicksAreUnique
    PROVE  OneSpellingOnePick
<1>1. ASSUME NEW i \in database
      PROVE  \E m \in Messages : i.pick = Fixed(m) /\ IsMessage(i.pick)
                                 /\ Fixed(i.pick) = i.pick /\ SameSpelling(m, i.pick)
  <2>1. i.pick \in Picks
    BY DEF Typed, Item
  <2>2. PICK m \in Messages : i.pick = Fixed(m)
    BY <2>1 DEF Picks
  <2>3. IsMessage(m)
    BY MessagesAreTyped DEF IsMessages
  <2>. QED BY <2>2, <2>3, FixedIsNormalMessage
<1>2. ASSUME NEW i \in database, NEW j \in database, SameSpelling(i.pick, j.pick)
      PROVE  i = j
  <2>1. /\ IsMessage(i.pick) /\ IsMessage(j.pick)
        /\ Fixed(i.pick) = i.pick /\ Fixed(j.pick) = j.pick
    BY <1>1
  <2>2. Fixed(i.pick) = Fixed(j.pick)
    BY <1>2, <2>1, NormalFormDecidesMessages
  <2>. QED BY <2>1, <2>2 DEF PicksAreUnique
<1>. QED BY <1>1, <1>2 DEF OneSpellingOnePick

\* The names' blanks and the defaults, over threads, crashes and the cleaner: the
\* table has one pick of a spelling, and none that nobody sent.
THEOREM OneSpellingIsOnePick == ASSUME BrokerAssumption PROVE Spec => []OneSpellingOnePick
<1>1. Init => CountInv /\ PicksAreUnique
  BY CountInvInit DEF Init, PicksAreUnique
<1>2. CountInv /\ [Next]_vars => CountInv'
  BY CountInvNext
<1>3. PicksAreUnique /\ [Next]_vars => PicksAreUnique'
  BY PicksAreUniqueNext
<1>4. CountInv /\ PicksAreUnique => OneSpellingOnePick
  BY UniquePicksAreSpellings DEF CountInv
<1>. QED BY <1>1, <1>2, <1>3, <1>4, PTL DEF Spec

-----------------------------------------------------------------------------
(* What is left of deduplication in the store, where NoDuplicateInStore    *)
(* fails.                                                                  *)

\* Of two items of one pick, one is older than the database keeps picks.
DuplicatesAreOld ==
    \A i, j \in store : i.pick = j.pick /\ Young(i) /\ Young(j) => i = j

\* So is what the store has of a pick that is on its way to it.
AddedIsNewToStore ==
    processor = "added" => \A j \in store : j.pick = item.pick => ~ Young(j)

DuplicatesInv == PicksAreUnique /\ DuplicatesAreOld /\ AddedIsNewToStore

LEMMA DuplicatesInvNext ==
    ASSUME BrokerAssumption, StoreInv, DuplicatesInv, [Next]_vars
    PROVE  DuplicatesInv'
<1>. USE DEF processorVars, cleanerVars, metricsVars, historyVars
<1>a. /\ Typed /\ PicksAreUnique /\ DuplicatesAreOld /\ AddedIsNewToStore
      /\ \A i \in store : Young(i) => i \in database
      /\ item \in Item /\ store \subseteq Item
  BY DEF StoreInv, StoredPicksArePersisted, Young, DuplicatesInv, Typed
<1>b. PicksAreUnique'
  BY <1>a, PicksAreUniqueNext
<1>c. SUFFICES ASSUME Next \/ UNCHANGED vars PROVE DuplicatesAreOld' /\ AddedIsNewToStore'
  BY <1>b DEF DuplicatesInv
<1>d. ASSUME clock' = clock PROVE \A i : Young(i)' = Young(i)
  BY <1>d DEF Young
\* A step that leaves clock and store alone and adds nothing.
<1>e. ASSUME clock' = clock, store' = store,
             processor' = "added" => processor = "added" /\ item' = item
      PROVE  DuplicatesAreOld' /\ AddedIsNewToStore'
  BY <1>a, <1>d, <1>e DEF DuplicatesAreOld, AddedIsNewToStore
<1>1. CASE Tick
  <2>1. \A i \in Item : Young(i)' => Young(i)
    BY <1>1, <1>a, PicksAge DEF Tick
  <2>. QED BY <1>1, <1>a, <2>1 DEF Tick, DuplicatesAreOld, AddedIsNewToStore
<1>2. CASE \E message \in Messages : AddPickCallback(message)
  BY <1>2, <1>e DEF AddPickCallback
<1>3. CASE CountReceived
  BY <1>3, <1>e DEF CountReceived
<1>4. CASE PopPick
  BY <1>4, <1>e DEF PopPick
<1>5. CASE StampPick
  BY <1>5, <1>e DEF StampPick
<1>6. CASE AddPick
  <2>1. \A j \in store : j.pick = item.pick => ~ Young(j)
    BY <1>6, <1>a DEF AddPick, KnownToDatabase
  <2>. QED BY <1>6, <1>a, <1>d, <2>1 DEF AddPick, DuplicatesAreOld, AddedIsNewToStore
<1>7. CASE RejectDuplicate
  BY <1>7, <1>e DEF RejectDuplicate
<1>8. CASE AddFails
  BY <1>8, <1>e DEF AddFails
<1>9. CASE EnqueuePick
  <2>1. \A i \in store' : i \in store \/ i = item
    BY <1>9, CleanedProperties DEF EnqueuePick
  <2>2. DuplicatesAreOld'
    BY <1>9, <1>a, <1>d, <2>1 DEF EnqueuePick, DuplicatesAreOld, AddedIsNewToStore
  <2>. QED BY <1>9, <2>2 DEF EnqueuePick, AddedIsNewToStore
<1>10. CASE EnqueueFails
  <2>1. store' \subseteq store
    BY <1>10, CleanedProperties DEF EnqueueFails
  <2>. QED BY <1>10, <1>a, <1>d, <2>1 DEF EnqueueFails, DuplicatesAreOld, AddedIsNewToStore
<1>11. CASE DateCleaning
  BY <1>11, <1>e DEF DateCleaning
<1>12. CASE DeletePicksBefore
  BY <1>12, <1>e DEF DeletePicksBefore
<1>13. CASE Crash
  BY <1>13 DEF Crash, DuplicatesAreOld, AddedIsNewToStore
<1>14. CASE Restart
  <2>1. store' \subseteq database'
    BY <1>14, CleanedProperties DEF Restart, Loaded
  <2>2. processor' = "idle"
    BY <1>14 DEF StoreInv, Restart
  <2>. QED BY <1>b, <2>1, <2>2 DEF PicksAreUnique, DuplicatesAreOld, AddedIsNewToStore
<1>15. CASE UNCHANGED vars
  BY <1>15, <1>e DEF vars
<1>. QED BY <1>c, <1>1, <1>2, <1>3, <1>4, <1>5, <1>6, <1>7, <1>8, <1>9, <1>10, <1>11,
            <1>12, <1>13, <1>14, <1>15 DEF Next, ProcessPick, CleanDatabase

\* processPick and the cleaner: the store holds a pick twice only with an item that
\* the database was free to forget, also when a restart empties the database.
THEOREM StoreDuplicatesAreOld == ASSUME BrokerAssumption PROVE Spec => []DuplicatesAreOld
<1>1. Init => DuplicatesInv
  BY DEF Init, DuplicatesInv, PicksAreUnique, DuplicatesAreOld, AddedIsNewToStore
<1>2. StoreInv /\ DuplicatesInv /\ [Next]_vars => DuplicatesInv'
  BY DuplicatesInvNext
<1>3. DuplicatesInv => DuplicatesAreOld
  BY DEF DuplicatesInv
<1>. QED BY <1>1, <1>2, <1>3, StoreInvHolds, PTL DEF Spec
=============================================================================
