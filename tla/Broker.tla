-------------------------------- MODULE Broker ------------------------------
(***************************************************************************)
(* The way of a pick through the broker (broker.cpp, database.cpp):        *)
(*                                                                         *)
(*   publishers -> addPickCallback -> mInputQueue -> processPick           *)
(*                    -> Database::add -> PickStore::enqueue               *)
(*                                                                         *)
(* with the database cleaner beside it, and crashes after which the store  *)
(* is loaded from the database again.  Publishers, the pick processor and  *)
(* the cleaner are threads; they share the queue (mMutex), the database    *)
(* (its own mutex) and the clock.  The store is kept here as the set of    *)
(* its items, which SubscriptionProofs shows to change as the deque of     *)
(* PickStore does.  One thread receives the picks: no two of one pick have *)
(* one receipt time, as a set of items needs.                              *)
(***************************************************************************)
EXTENDS PickNormalization, FiniteSets

CONSTANTS Messages,                \* what publishers may send
          QueueCapacity,           \* mMaximumInputQueueSize
          PickRetentionInterval,   \* of the database
          MaxHistory,              \* of the store
          MaxQueueCapacity,        \* of the store
          DeleteDatabaseIfExists,  \* Database::Mode::Create at a restart
          ClockBound,              \* bound: the model stops the clock here
          MaxSubmissions,          \* bound on the picks accepted
          Publishers               \* bound on the callbacks that run at once

ASSUME BrokerAssumption ==
    /\ QueueCapacity \in Nat \ {0}
    /\ PickRetentionInterval \in Nat \ {0} /\ MaxHistory \in Nat \ {0}
    /\ MaxQueueCapacity \in Nat \ {0}
    /\ ClockBound \in Nat /\ MaxSubmissions \in Nat /\ Publishers \in Nat
    /\ DeleteDatabaseIfExists \in BOOLEAN
    /\ Messages \subseteq [text : [Fields -> Texts], time : Int]
    /\ \E m \in Messages : IsValid(m, m.time)

\* The picks are the messages that may be accepted, in the form that the broker
\* gives them.
Picks == { Fixed(m) : m \in { n \in Messages : IsValid(n, n.time) } }

Time == 0..ClockBound
Item == [time : Time, pick : Picks]

VARIABLES clock,        \* high_resolution_clock, never set back here
          running,      \* the process is up
          mInputQueue,  \* picks accepted and not yet processed
          processor,    \* where processPick is
          item,         \* the pick it works on, and its receivedTime
          cleaner,      \* where cleanDatabase is
          oldestLoadTime,  \* its cutoff
          database,     \* the picks table: survives crashes
          store,        \* the items of the pick store
          metrics,      \* MetricsSingleton's counters of this process
          uncounted,    \* callbacks that have queued their pick, not yet counted it
          outcome,      \* history: picks this process added, or failed to
          broadcast,    \* history: items handed to the subscribers as new
          missed        \* history: added to the database but not to the store

processorVars == <<processor, item>>
cleanerVars == <<cleaner, oldestLoadTime>>
historyVars == <<outcome, broadcast, missed>>
metricsVars == <<metrics, uncounted>>
vars == <<clock, running, mInputQueue, processorVars, cleanerVars, database,
          store, metricsVars, historyVars>>

NoMetrics == [received |-> 0, overflow |-> 0, duplicates |-> 0]

\* Before a pick is popped, and before the cutoff of a cleaning is read, the locals of
\* the two loops have no value to go by; these stand for it.
NoItem == [time |-> 0, pick |-> CHOOSE p \in Picks : TRUE]
NoLoadTime == 0 - PickRetentionInterval

-----------------------------------------------------------------------------
\* PickStore::cleanDeque on the items of the store.
Cleaned(items, oldestPickToKeep) ==
    IF Cardinality(items) < MaxQueueCapacity \div 2
    THEN items
    ELSE { i \in items : i.time >= oldestPickToKeep }

Init ==
    /\ clock = 0
    /\ running = TRUE
    /\ mInputQueue = <<>>
    /\ processor = "idle"
    /\ item = NoItem
    /\ cleaner = "waiting"
    /\ oldestLoadTime = NoLoadTime
    /\ database = {}
    /\ store = {}
    /\ metrics = NoMetrics
    /\ uncounted = 0
    /\ outcome = [added |-> 0, failed |-> 0]
    /\ broadcast = {}
    /\ missed = {}

Tick ==
    /\ clock < ClockBound
    /\ clock' = clock + 1
    /\ UNCHANGED <<running, mInputQueue, processorVars, cleanerVars, database,
                   store, metricsVars, historyVars>>

-----------------------------------------------------------------------------
(* addPickCallback, on a publisher's thread.                               *)

\* Mutant of Overflow: room for one pick too many.
OverflowPastCapacity == IF Len(mInputQueue) > QueueCapacity
                        THEN Len(mInputQueue) - QueueCapacity + 1 ELSE 0

\* A full queue makes room by losing its oldest picks.
Overflow == IF Len(mInputQueue) >= QueueCapacity
            THEN Len(mInputQueue) - QueueCapacity + 1 ELSE 0

\* What may be queued of a message, if anything is: a refusal changes nothing.  When
\* a name is too long for its capitals that is any pick, or the process crashes.
Taken(message) ==
    IF ~ InBounds(message) THEN Picks
    ELSE IF IsValid(message, clock) THEN {Fixed(message)} ELSE {}

AddPickCallback(message) ==
    /\ running
    /\ metrics.received + uncounted < MaxSubmissions
    /\ uncounted < Publishers
    /\ \E pick \in Taken(message) :
          mInputQueue' =
              Append(SubSeq(mInputQueue, Overflow + 1, Len(mInputQueue)), pick)
    /\ metrics' = [metrics EXCEPT !.overflow = @ + Overflow]
    /\ uncounted' = uncounted + 1
    /\ UNCHANGED <<clock, running, processorVars, cleanerVars, database, store,
                   historyVars>>

\* The pick is counted once the queue is unlocked, when it may be processed already.
CountReceived ==
    /\ running
    /\ uncounted > 0
    /\ metrics' = [metrics EXCEPT !.received = @ + 1]
    /\ uncounted' = uncounted - 1
    /\ UNCHANGED <<clock, running, mInputQueue, processorVars, cleanerVars, database,
                   store, historyVars>>

-----------------------------------------------------------------------------
(* processPick, on the pick processor's thread.                            *)

PopPick ==
    /\ running /\ processor = "idle"
    /\ mInputQueue # <<>>
    /\ item' = [item EXCEPT !.pick = Head(mInputQueue)]
    /\ mInputQueue' = Tail(mInputQueue)
    /\ processor' = "popped"
    /\ UNCHANGED <<clock, running, cleanerVars, database, store, metricsVars, historyVars>>

StampPick ==
    /\ running /\ processor = "popped"
    /\ item' = [item EXCEPT !.time = clock]
    /\ processor' = "stamped"
    /\ UNCHANGED <<clock, running, mInputQueue, cleanerVars, database, store,
                   metricsVars, historyVars>>

\* Mutant of KnownToDatabase: a row is unique only with its receipt time.
KnownAtReceivedTime(p) == \E i \in database : i.pick = p /\ i.time = item.time

\* The table holds this pick already: INSERT OR IGNORE changes nothing.
KnownToDatabase(p) == \E i \in database : i.pick = p

AddPick ==
    /\ running /\ processor = "stamped"
    /\ ~ KnownToDatabase(item.pick)
    /\ database' = database \cup {item}
    /\ outcome' = [outcome EXCEPT !.added = @ + 1]
    /\ processor' = "added"
    /\ UNCHANGED <<clock, running, mInputQueue, item, cleanerVars, store, metricsVars,
                   broadcast, missed>>

\* Mutant of RejectDuplicate: the counter is forgotten.
RejectDuplicateUncounted ==
    /\ running /\ processor = "stamped"
    /\ KnownToDatabase(item.pick)
    /\ processor' = "idle"
    /\ item' = NoItem
    /\ UNCHANGED <<clock, running, mInputQueue, cleanerVars, database, store,
                   metricsVars, historyVars>>

\* DuplicatePickException: the pick is not propagated.
RejectDuplicate ==
    /\ running /\ processor = "stamped"
    /\ KnownToDatabase(item.pick)
    /\ metrics' = [metrics EXCEPT !.duplicates = @ + 1]
    /\ processor' = "idle"
    /\ item' = NoItem
    /\ UNCHANGED <<clock, running, mInputQueue, cleanerVars, database, store,
                   uncounted, historyVars>>

\* Mutant of AddFails: the exception ends the thread.
AddFailureEndsThread ==
    /\ running /\ processor = "stamped"
    /\ outcome' = [outcome EXCEPT !.failed = @ + 1]
    /\ processor' = "ended"
    /\ UNCHANGED <<clock, running, mInputQueue, item, cleanerVars, database, store,
                   metricsVars, broadcast, missed>>

\* Any other exception of Database::add (busy or full disk): nor is it then.
AddFails ==
    /\ running /\ processor = "stamped"
    /\ outcome' = [outcome EXCEPT !.failed = @ + 1]
    /\ processor' = "idle"
    /\ item' = NoItem
    /\ UNCHANGED <<clock, running, mInputQueue, cleanerVars, database, store,
                   metricsVars, broadcast, missed>>

\* SubscribeService::enqueue, that is PickStore::enqueue.
EnqueuePick ==
    /\ running /\ processor = "added"
    /\ store' = Cleaned(store, clock - MaxHistory) \cup {item}
    /\ broadcast' = broadcast \cup {item}
    /\ processor' = "idle"
    /\ item' = NoItem
    /\ UNCHANGED <<clock, running, mInputQueue, cleanerVars, database,
                   metricsVars, outcome, missed>>

\* It throws, before or after it has cleaned the deque: the exception is logged and
\* the pick stays in the database only.
EnqueueFails ==
    /\ running /\ processor = "added"
    /\ store' \in {store, Cleaned(store, clock - MaxHistory)}
    /\ missed' = missed \cup {item}
    /\ processor' = "idle"
    /\ item' = NoItem
    /\ UNCHANGED <<clock, running, mInputQueue, cleanerVars, database,
                   metricsVars, outcome, broadcast>>

-----------------------------------------------------------------------------
(* cleanDatabase, on the database cleaner's thread.                        *)

DateCleaning ==
    /\ running /\ cleaner = "waiting"
    /\ oldestLoadTime' = clock - PickRetentionInterval
    /\ cleaner' = "dated"
    /\ UNCHANGED <<clock, running, mInputQueue, processorVars, database, store,
                   metricsVars, historyVars>>

\* Mutant of KeptFrom: the cutoff itself is deleted too.
KeptAfter(items, time) == { i \in items : i.time > time }

\* DELETE FROM picks WHERE received_time < ?
KeptFrom(items, time) == { i \in items : i.time >= time }

\* A delete that does not complete cleanly is logged and leaves the table alone.
DeletePicksBefore ==
    /\ running /\ cleaner = "dated"
    /\ database' \in {KeptFrom(database, oldestLoadTime), database}
    /\ cleaner' = "waiting"
    /\ oldestLoadTime' = NoLoadTime
    /\ UNCHANGED <<clock, running, mInputQueue, processorVars, store,
                   metricsVars, historyVars>>

-----------------------------------------------------------------------------
\* The process ends: only the database survives.
Crash ==
    /\ running
    /\ running' = FALSE
    /\ mInputQueue' = <<>>
    /\ processor' = "idle"
    /\ cleaner' = "waiting"
    /\ store' = {}
    /\ metrics' = NoMetrics
    /\ uncounted' = 0
    /\ outcome' = [added |-> 0, failed |-> 0]
    /\ missed' = {}
    /\ item' = NoItem /\ oldestLoadTime' = NoLoadTime
    /\ UNCHANGED <<clock, database, broadcast>>

\* Mutant of Loaded: the constructor without a backfill is used.
LoadedNothing(items) == {}

\* BrokerImpl's constructor: Database::load, and the backfill of the store.
Loaded(items) == Cleaned(items, clock - MaxHistory)

Restart ==
    /\ ~ running
    /\ running' = TRUE
    /\ database' = (IF DeleteDatabaseIfExists THEN {} ELSE database)
    /\ store' = Loaded(database')
    /\ UNCHANGED <<clock, mInputQueue, processorVars, cleanerVars, metricsVars, historyVars>>

-----------------------------------------------------------------------------
ProcessPick ==
    \/ PopPick \/ StampPick \/ AddPick \/ RejectDuplicate \/ AddFails
    \/ EnqueuePick \/ EnqueueFails

CleanDatabase == DateCleaning \/ DeletePicksBefore

Next ==
    \/ Tick
    \/ \E message \in Messages : AddPickCallback(message)
    \/ CountReceived
    \/ ProcessPick
    \/ CleanDatabase
    \/ Crash
    \/ Restart

Spec == Init /\ [][Next]_vars

\* The pick processor polls its queue for as long as the process runs.
FairSpec == Spec /\ WF_vars(ProcessPick)

-----------------------------------------------------------------------------
(* Properties.                                                             *)

TypeOK ==
    /\ clock \in Time
    /\ running \in BOOLEAN
    /\ mInputQueue \in Seq(Picks) /\ Len(mInputQueue) <= QueueCapacity
    /\ processor \in {"idle", "popped", "stamped", "added"}
    /\ item \in Item
    /\ cleaner \in {"waiting", "dated"}
    /\ oldestLoadTime \in Int
    /\ database \subseteq Item
    /\ store \subseteq Item
    /\ metrics \in [received : 0..MaxSubmissions, overflow : 0..MaxSubmissions,
                    duplicates : 0..MaxSubmissions]
    /\ uncounted \in 0..MaxSubmissions
    /\ outcome \in [added : 0..MaxSubmissions, failed : 0..MaxSubmissions]
    /\ broadcast \subseteq Item
    /\ missed \subseteq Item

\* A crash loses nothing that subscribers could already have seen: what is in
\* the store is in the database until it is too old for the database to keep.
StoredPicksArePersisted ==
    \A i \in store : i.time >= clock - PickRetentionInterval => i \in database

\* Conversely what the database holds and is young enough for the store is
\* served, also after any number of restarts, unless enqueue failed on it or is
\* yet to come.
PersistedPicksAreServed ==
    running => \A i \in database : i.time >= clock - MaxHistory =>
        i \in store \/ i \in missed \/ (processor = "added" /\ i = item)

\* Messages of one spelling are one pick, however many blanks their publishers put
\* in the names and whatever they left out for the default; and a pick has the
\* spelling of a message.
OneSpellingOnePick ==
    /\ \A i, j \in database : SameSpelling(i.pick, j.pick) => i = j
    /\ \A i \in database : \E m \in Messages : SameSpelling(m, i.pick)

\* "collects and deduplicates pick messages": those that tell of one arrival are one
\* pick, also where one publisher writes its names in capitals and another does not.
OneArrivalOnePick == \A i, j \in database : SameArrival(i.pick, j.pick) => i = j

\* Deduplication: a pick is handed to the subscribers a second time only when
\* the retention interval of the database has passed since it was received the
\* first time, restarts, failures and a concurrent cleaner notwithstanding.
\* (Its second receivedTime may still be within the interval: it is read before
\* Database::add waits for the mutex, and the cleaner may delete meanwhile.)
RebroadcastOnlyAfterRetention ==
    [][\A i \in broadcast' \ broadcast : \A j \in broadcast :
          i.pick = j.pick => clock - j.time > PickRetentionInterval]_vars

Settled == metrics.overflow + metrics.duplicates + outcome.added + outcome.failed

\* Every pick accepted, be it counted as received or about to be, is queued, being
\* processed, or counted once more as what became of it.
EveryPickAccountedFor ==
    metrics.received + uncounted =
        Settled + Len(mInputQueue)
        + (IF processor \in {"popped", "stamped"} THEN 1 ELSE 0)

\* "A utility that collects and deduplicates pick messages": the store holds no
\* pick twice.
NoDuplicateInStore == \A i, j \in store : i.pick = j.pick => i = j
=============================================================================
