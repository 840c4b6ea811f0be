------------------------------ MODULE PickStore -----------------------------
(***************************************************************************)
(* The in-memory pick store (pickStore.cpp): one deque of picks ordered by *)
(* receipt time, one read cursor per subscriber, one mutex.  The only      *)
(* writer is the broker's pick processor thread (Broker::processPick); the *)
(* readers and the (un)subscribers are gRPC threads.                       *)
(*                                                                         *)
(* enqueue takes the mutex twice - to purge old picks and then to insert - *)
(* and reads the clock before the first of them, so it is four steps here; *)
(* everything else is one critical section, hence one step.                *)
(***************************************************************************)
EXTENDS Integers, Sequences, FiniteSets, Functions

CONSTANTS Subscribers,           \* context addresses
          Picks,                 \* pick messages
          MaxHistory,            \* mMaxHistory
          MaxQueueCapacity,      \* mMaxQueueCapacity
          MaximumNumberOfPicks,  \* the chunk a writer asks getPicks for
          MaxTime,               \* MAX_TIME, the cursor of a new live subscriber
          ClockBound,            \* bound: the model stops the clock here
          StartTime,             \* the clock when the store is constructed
          Backfills,             \* what Database::load may return at start up
          MinInsertTicks,        \* time that surely passes while a pick is
                                 \* inserted in the database
          MaxStepBack,           \* how far the system clock may be set back
          MaxStored              \* bound on the items loaded and inserted

ASSUME StoreAssumption ==
    /\ MaxHistory \in Nat \ {0} /\ MaxQueueCapacity \in Nat \ {0}
    /\ MaximumNumberOfPicks \in Nat \ {0}
    /\ ClockBound \in Nat /\ StartTime \in 0..ClockBound
    /\ MaxTime \in Nat /\ MaxTime > ClockBound + 1
    /\ MinInsertTicks \in Nat /\ MaxStepBack \in Nat /\ MaxStored \in Nat

Time == 0..ClockBound
Item == [time : Time, pick : Picks]

\* The database holds a pick once (proto is UNIQUE).
ASSUME BackfillAssumption ==
    /\ Picks # {}
    /\ \A loaded \in Backfills : loaded \in Seq(Item) /\ IsInjective(loaded)

VARIABLES clock,       \* high_resolution_clock, that is the system clock
          pc,          \* what the pick processor thread does next
          item,        \* the pick it is enqueueing, with its receivedTime
          oldest,      \* the oldestPickToKeep of its latest cleanDeque
          mDeque,      \* Seq(Item)
          mCursorMap,  \* [Subscribers -> cursor, or NoCursor]
          stored,      \* history: every item loaded or inserted
          since,       \* history: [Subscribers -> start time asked for]
          owed,        \* history: [Subscribers -> items the subscription is for]
          delivered    \* history: [Subscribers -> items getPicks returned]

enqueueVars == <<pc, item, oldest>>
historyVars == <<since, owed, delivered>>
vars == <<clock, enqueueVars, mDeque, mCursorMap, stored, historyVars>>

NoCursor == -1          \* absent from mCursorMap
Subscribed(s) == mCursorMap[s] # NoCursor

-----------------------------------------------------------------------------
(* std::sort: any arrangement of q that is ordered by time.  It is not     *)
(* stable, so that picks with equal times may change places.               *)
Sorted(q) == \A j, k \in DOMAIN q : j < k => q[j].time <= q[k].time

Arrangements(q) ==
    { [k \in 1..Len(q) |-> q[b[k]]] : b \in Bijection(1..Len(q), 1..Len(q)) }

Sortings(q) == { r \in Arrangements(q) : Sorted(r) }

\* Mutants of Pops: a pick exactly as old as the contract allows is popped; and
\* the deque is left alone until it is full.
PopsTheOldestToKeep(q, oldestPickToKeep) ==
    IF Len(q) < MaxQueueCapacity \div 2
    THEN {0}
    ELSE { n \in 0..Len(q) :
             /\ \A k \in 1..n : q[k].time <= oldestPickToKeep
             /\ n < Len(q) => q[n + 1].time > oldestPickToKeep }

PopsWhenFull(q, oldestPickToKeep) ==
    IF Len(q) < MaxQueueCapacity
    THEN {0}
    ELSE { n \in 0..Len(q) :
             /\ \A k \in 1..n : q[k].time < oldestPickToKeep
             /\ n < Len(q) => q[n + 1].time >= oldestPickToKeep }

\* How many picks cleanDeque(oldestPickToKeep) pops off the front of q: none
\* while the deque is less than half full, else all the leading old ones.
Pops(q, oldestPickToKeep) ==
    IF Len(q) < MaxQueueCapacity \div 2
    THEN {0}
    ELSE { n \in 0..Len(q) :
             /\ \A k \in 1..n : q[k].time < oldestPickToKeep
             /\ n < Len(q) => q[n + 1].time >= oldestPickToKeep }

PopFront(q, n) == SubSeq(q, n + 1, Len(q))

-----------------------------------------------------------------------------
(* The constructor with a backfill: sort, then cleanDeque().               *)
Init ==
    /\ clock = StartTime
    /\ pc = "idle"
    /\ item = [time |-> StartTime, pick |-> CHOOSE p \in Picks : TRUE]
    /\ oldest = StartTime - MaxHistory
    /\ \E loaded \in Backfills : \E q \in Sortings(loaded) : \E n \in Pops(q, oldest) :
          /\ mDeque = PopFront(q, n)
          /\ stored = Range(loaded)
    /\ mCursorMap = [s \in Subscribers |-> NoCursor]
    /\ since = [s \in Subscribers |-> 0]
    /\ owed = [s \in Subscribers |-> {}]
    /\ delivered = [s \in Subscribers |-> <<>>]

\* Time passes.
Tick ==
    /\ clock < ClockBound
    /\ clock' = clock + 1
    /\ UNCHANGED <<enqueueVars, mDeque, mCursorMap, stored, historyVars>>

\* The system clock is set back (high_resolution_clock is not steady).
StepBack ==
    /\ \E t \in Time : t < clock /\ t >= clock - MaxStepBack /\ clock' = t
    /\ UNCHANGED <<enqueueVars, mDeque, mCursorMap, stored, historyVars>>

-----------------------------------------------------------------------------
(* The pick processor: a pick popped from the input queue is stamped and   *)
(* stored in the database, then enqueued here.  The database turns down a  *)
(* pick that it holds; it forgets one after an interval of its own, so     *)
(* that the pick may come again, though not at the same time.              *)
Receive(p) ==
    /\ pc = "idle"
    /\ [time |-> clock, pick |-> p] \notin stored
    /\ Cardinality(stored) < MaxStored
    /\ clock + MinInsertTicks <= ClockBound
    /\ item' = [time |-> clock, pick |-> p]
    /\ clock' = clock + MinInsertTicks
    /\ pc' = "date"
    /\ UNCHANGED <<oldest, mDeque, mCursorMap, stored, historyVars>>

\* cleanDeque() reads the clock before it takes the mutex ...
DateRetention ==
    /\ pc = "date"
    /\ oldest' = clock - MaxHistory
    /\ pc' = "clean"
    /\ UNCHANGED <<clock, item, mDeque, mCursorMap, stored, historyVars>>

\* ... which cleanDeque(oldestPickToKeep) holds while it pops ...
CleanDeque ==
    /\ pc = "clean"
    /\ \E n \in Pops(mDeque, oldest) : mDeque' = PopFront(mDeque, n)
    /\ pc' = "insert"
    /\ UNCHANGED <<clock, item, oldest, mCursorMap, stored, historyVars>>

\* Mutant of WithItem: the deque is not re-sorted.
WithItemUnsorted == {Append(mDeque, item)}

\* Mutant of FirstCursor: newly arrived subscribers are not let in.
FirstCursorNever(cursor, lastTime) == cursor

WithItem ==
    LET q == Append(mDeque, item) IN
    IF mDeque # <<>> /\ mDeque[Len(mDeque)].time > item.time
    THEN Sortings(q) ELSE {q}

FirstCursor(cursor, lastTime) == IF cursor = MaxTime THEN lastTime ELSE cursor

\* ... and enqueue takes again to insert the pick, sort if it is out of order,
\* and let the live subscribers that have none yet start with a cursor.
Insert ==
    /\ pc = "insert"
    /\ mDeque' \in WithItem
    /\ mCursorMap' = [s \in Subscribers |->
                        FirstCursor(mCursorMap[s], mDeque'[Len(mDeque')].time)]
    /\ stored' = stored \cup {item}
    /\ owed' = [s \in Subscribers |->
                  IF Subscribed(s) /\ item.time >= since[s]
                  THEN owed[s] \cup {item} ELSE owed[s]]
    /\ pc' = "idle"
    /\ UNCHANGED <<clock, item, oldest, since, delivered>>

-----------------------------------------------------------------------------
(* The subscribers.                                                        *)
\* A subscription begins, or ends: its history starts afresh.
SetCursor(s, cursor, start, backfill) ==
    /\ mCursorMap' = [mCursorMap EXCEPT ![s] = cursor]
    /\ since' = [since EXCEPT ![s] = start]
    /\ owed' = [owed EXCEPT ![s] = backfill]
    /\ delivered' = [delivered EXCEPT ![s] = <<>>]
    /\ UNCHANGED <<clock, enqueueVars, mDeque, stored>>

\* Mutant of Subscribe: a live subscription starts at the front of the deque.
SubscribeFromTheFront(s) == SetCursor(s, 0, 0, {})

\* subscribe(contextAddress): only the picks that are yet to be inserted.
Subscribe(s) == SetCursor(s, MaxTime, 0, {})

\* Mutant of SubscribeSince: the start time itself is left out.
SubscribeAfter(s, startTime) ==
    /\ startTime <= clock
    /\ SetCursor(s, startTime + 1, startTime,
                 { i \in Range(mDeque) : i.time >= startTime })

\* subscribe(contextAddress, startTime): the retained picks from startTime on,
\* and the later ones.  A start time in the future throws.
SubscribeSince(s, startTime) ==
    /\ startTime <= clock
    /\ SetCursor(s, startTime, startTime,
                 { i \in Range(mDeque) : i.time >= startTime })

Unsubscribe(s) == SetCursor(s, NoCursor, 0, {})

\* getPicks scans the deque from the front for picks at or past the cursor,
\* up to the maximum.
Pending(s) == { k \in DOMAIN mDeque : mDeque[k].time >= mCursorMap[s] }

Scanned(s) ==
    { k \in Pending(s) :
        Cardinality({ j \in Pending(s) : j <= k }) <= MaximumNumberOfPicks }

Ascending(S) ==
    { f \in [1..Cardinality(S) -> S] : \A j, k \in DOMAIN f : j < k => f[j] < f[k] }

\* Mutants of CursorAfter: the last pick is read again; the tolerance covers
\* the next nanosecond too; it is given in another unit.
CursorAtLast(lastReadTime) == lastReadTime
CursorPastNext(lastReadTime) == lastReadTime + 2
CursorInMicroseconds(lastReadTime) == lastReadTime + 1000

\* epsilon, the step past the last pick that was read
CursorAfter(lastReadTime) == lastReadTime + 1

GetPicks(s) ==
    /\ Subscribed(s)
    /\ Scanned(s) # {}
    /\ \E f \in Ascending(Scanned(s)) :
          LET result == [k \in 1..Len(f) |-> mDeque[f[k]]] IN
          /\ delivered' = [delivered EXCEPT ![s] = @ \o result]
          /\ mCursorMap' = [mCursorMap EXCEPT
                              ![s] = CursorAfter(result[Len(result)].time)]
    /\ UNCHANGED <<clock, enqueueVars, mDeque, stored, since, owed>>

-----------------------------------------------------------------------------
Enqueue == DateRetention \/ CleanDeque \/ Insert

Next ==
    \/ Tick
    \/ StepBack
    \/ \E p \in Picks : Receive(p)
    \/ DateRetention
    \/ CleanDeque
    \/ Insert
    \/ \E s \in Subscribers :
          \/ Subscribe(s)
          \/ \E startTime \in Time : SubscribeSince(s, startTime)
          \/ Unsubscribe(s)
          \/ GetPicks(s)

Spec == Init /\ [][Next]_vars

\* The pick processor thread keeps running, and a writer with nothing left to
\* write calls getPicks over and over (AsynchronousWriter::nextWrite).
FairSpec ==
    /\ Spec
    /\ WF_vars(Enqueue)
    /\ \A s \in Subscribers : WF_vars(GetPicks(s))

-----------------------------------------------------------------------------
(* Properties.                                                             *)

TypeOK ==
    /\ clock \in Time
    /\ pc \in {"idle", "date", "clean", "insert"}
    /\ item \in Item
    /\ oldest \in Int
    /\ mDeque \in Seq(Item)
    /\ mCursorMap \in [Subscribers -> 0..(ClockBound + 1) \cup {NoCursor, MaxTime}]
    /\ stored \subseteq Item
    /\ since \in [Subscribers -> Time]
    /\ owed \in [Subscribers -> SUBSET Item]
    /\ delivered \in [Subscribers -> Seq(Item)]

\* The deque is ordered by receipt time whatever the clock does: enqueue looks
\* at the back only to decide whether to sort, cleanDeque stops at the first
\* young pick, and getPicks takes the last scanned time for the largest.
DequeSorted == Sorted(mDeque)

\* A subscription never sees a pick twice, nor an older one after a newer one,
\* even when the clock is set back and enqueue re-sorts the deque under it.
DeliveredInOrder ==
    \A s \in Subscribers : Sorted(delivered[s]) /\ IsInjective(delivered[s])

\* The retention contract (comment at cleanDeque): while the clock only moves
\* forward, every pick younger than the maximum history is still in the deque,
\* whatever the pressure on the queue.
RetentionContract ==
    \A i \in stored : i.time >= clock - MaxHistory => i \in Range(mDeque)

\* The other half of the contract, generous only while there is space: once the
\* deque has been cleaned, and until the clock is read for the next cleaning, at
\* most half the capacity (at least one) is spent on picks that were too old.
ExpiredPicksBounded ==
    LET Half == MaxQueueCapacity \div 2 IN
    pc # "clean" =>
        Cardinality({ k \in DOMAIN mDeque : mDeque[k].time < oldest })
            <= (IF Half > 1 THEN Half ELSE 1)

\* A pick a subscription is for is never skipped: it was read, or it is in the
\* deque at or past the cursor, or it is too old to be kept.
NoPickSkipped ==
    \A s \in Subscribers : Subscribed(s) =>
        \A i \in owed[s] :
            \/ i \in Range(delivered[s])
            \/ i \in Range(mDeque) /\ i.time >= mCursorMap[s]
            \/ i.time < clock - MaxHistory

\* Nor is a subscriber sent a pick that is not part of its subscription: an
\* older one than it asked for or, when live, one from before it subscribed.
OnlyOwedDelivered ==
    \A s \in Subscribers : Range(delivered[s]) \subseteq owed[s]

\* The debug assertion of getPicks, lastReadTime > cursor, for the read each
\* subscriber would do next.
LastReadPastCursor ==
    \A s \in Subscribers : Subscribed(s) /\ Scanned(s) # {} =>
        \E k \in Scanned(s) : mDeque[k].time > mCursorMap[s]

\* Every subscription gets every pick it is for, however often that was received,
\* unless the pick expires first or the subscription ends.
Delivery ==
    \A s \in Subscribers, p \in Picks :
        (Subscribed(s) /\ \E i \in owed[s] : i.pick = p)
            ~> \/ \A i \in owed[s] : i.pick = p =>
                      i \in Range(delivered[s]) \/ i.time < clock - MaxHistory
               \/ ~ Subscribed(s)
=============================================================================
