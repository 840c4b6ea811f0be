# A verification project for uFilterPickerPickBroker

The broker takes seismic picks from many publishers, removes duplicates, keeps
them for a while and streams them to many subscribers. This directory holds
TLA+ modules that model it, TLC configurations that check them on small
instances, and theorems that the TLAPS proof system checks for every instance.
`PROJECT.json` lists the components, the runs, what every definition stands for
in the source, the disagreements found, the hazards and the theorems.

Contents: [the system](#the-system), [modules](#the-modules-and-the-code),
[runs](#what-the-runs-show), [bounds](#bounds), [fairness](#fairness),
[proofs](#what-is-proved), [disagreements](#disagreements-between-code-and-text),
[not modelled](#what-is-not-modelled), [plan](#plan).

## The system

```
 publishers -> PublishService -> mInputQueue -> processPick -> Database::add
   (gRPC)       reader per RPC      (mutex)       (thread)        |
                                                     |      cleanDatabase (thread)
                                                     v
 subscribers <- SubscribeService <- getPicks <-  PickStore
   (gRPC)        writer per RPC    (polling)      (mutex)
```

| component | state | operations | works with |
|---|---|---|---|
| PickStore (`pickStore.cpp`) | deque of picks by receipt time, a cursor for each subscriber, one mutex | enqueue (with a purge before it), subscribe, unsubscribe, getPicks | written by the pick processor, read by every writer |
| Database (`database.cpp`) | table of picks, the serialized pick unique; survives crashes | add, load, deletePicksBefore, open, close | pick processor, cleaner, constructor of the broker |
| Broker pipeline (`broker.cpp`) | input queue, its mutex; two threads | addPickCallback, processPick, cleanDatabase | called by readers; calls Database and PickStore |
| Broker lifecycle (`broker.cpp`) | flags, four futures, owned services | start, stop, checkFuturesOkay | the main thread |
| PublishService (`publishService.cpp`) | publisher count, mKeepRunning, server; a reader per RPC with its counters | constructor, OnReadDone, OnDone, start, stop | gRPC threads; addPickCallback |
| SubscribeService (`subscribeService.cpp`) | subscriber count, mKeepRunning, server; a writer per RPC with its queue | constructor, nextWrite, OnWriteDone, OnCancel, OnDone, start, stop | gRPC threads; PickStore |
| Process (`main.cpp`) | options, signal flag, the last report | set-up, main loop, summary, signal handler, clean-up | Broker, logger, metrics |
| Program options (`programOptions.hpp`, the option classes) | what the initialization file says | parsing, conversions, setters that refuse | read once by main() |
| Logger, metrics exporter (`logger.hpp`, `metrics.hpp`, `otelSpdlogSink.hpp`) | the two OpenTelemetry providers | initialize, cleanup, callbacks, the sink | main(); every thread that logs |
| MetricsSingleton | atomic counters, two gauges | increments, loads | everyone |
| version, protocol buffers | none | | |

What is hard in it, and what makes each part correct:

* **PickStore.** The purge and the insertion of one enqueue are two critical
  sections; the clock that dates picks can be set back; the cursor of a
  subscriber is a time, so equal times and chunk boundaries matter. Correct
  means: ordered, no young pick dropped, no pick skipped, repeated, reordered or
  sent to a subscriber it is not for, and in the end every pick delivered.
* **Pipeline.** A pick is in the queue, in the hands of the processor, in the
  database and in the store one after the other, each step can fail or be the
  last one before a crash, and the cleaner deletes beside it. Correct means:
  what subscribers can see is persisted, what is persisted is served after a
  restart, a pick is not broadcast twice while it is remembered, and every
  accepted pick is accounted for.
* **Services.** gRPC calls the reactions of different RPCs concurrently, a
  cancellation concurrently with anything else; the limits are checked in one
  step and counted in another; stop() may meet an RPC, or the start, anywhere.
  Correct means: counts are right, an RPC is finished once, subscriptions do
  not leak, streams have no gaps, and stop() returns.
* **Process.** Logger, metrics, database, broker are set up one after the other;
  each can fail and must undo what came before it; the file of the database
  outlives a process that is killed in between; summaries are made while picks
  are counted. Correct means: the broker runs only with options that its parts
  are meant for and with a table, failures leave nothing behind, summaries add
  up, and whatever ends the process, its threads are joined and use nothing that
  is gone.

How the parts are put together, from a publisher to a subscriber:
`PublishService` takes messages from sessions and hands them to the callback;
`Broker` is everything from there to the store, and implements `PickRelay`: a
line of accepted picks that moves, of which each is remembered, recognized as
known, or counted as a fault; `PickStore` is what comes of a pick that is put in
the store, and implements `PickFeed`: a backlog per subscriber; `SubscribeService`
takes such a backlog to the wire. Each module uses the one beside it only through
what that is proved to be: `Broker` has of the store its set of items
(`StoreIsItsItems`), `SubscribeService` the numbers of its picks (`StoreIsBacklog`),
and `BrokerLifecycle` of the services their servers (`ServiceIsServer`).

The full list, each at its line, is under "hazards" in `PROJECT.json`.

## The modules and the code

| module | models | state and actions |
|---|---|---|
| `PickFeed` | what the store promises | a backlog per subscriber; publish, expire, subscribe, read a part of it in order |
| `PickStore` | `pickStore.cpp` | `mDeque`, `mCursorMap` as in the code; `pc`, `item`, `oldest` are the locals of `enqueue`, whose three parts are `DateRetention` (the cutoff), `CleanDeque` and `Insert` (the two critical sections); `GetPicks`, `Subscribe`, `SubscribeSince`, `Unsubscribe` are one critical section each. `stored`, `since`, `owed` and `delivered` are history |
| `PickBacklog` | the store as a writer sees it | the number of picks, and of each subscription the last pick before what it will get; enqueue, subscribe, unsubscribe, getPicks |
| `PickStoreFeed` | | two mappings. To `PickFeed`: a subscriber's backlog is the part of the deque at or after its cursor. To `PickBacklog`: its number is that of the picks below its cursor (`Place`), the one on its way to the deque included |
| `PickStoreProofs`, `SubscriptionProofs`, `PickFeedProofs` | | theorems about `PickStore`, that it implements `PickFeed`, and that it is what `Broker` and `SubscribeService` have in its stead |
| `PickNormalization` | `broker.cpp` 46-115 and the validation of addPickCallback | pure operators on messages: `IsValid`, `Fixed`, and `InBounds`, where they are what the code does: a name whose capitals do not fit behind it (`HasRoom`) is undefined behaviour. `SameSpelling` and `SameArrival` are references that say without them which messages are written alike but for blanks and defaults, and which tell of one arrival |
| `Broker` | `broker.cpp` (pipeline), `database.cpp` | `AddPickCallback` and `CountReceived` on a publisher's thread, the first taking of a message what `Taken` says: its fixed form, nothing, or any pick where the code is undefined; `PopPick`, `StampPick`, then `AddPick`, `RejectDuplicate` or `AddFails`, then `EnqueuePick` or `EnqueueFails` on the processor's; `DateCleaning` and `DeletePicksBefore` on the cleaner's; `Crash` and `Restart`. The store is the set of its items: `StoreIsItsItems` proves that purge, insertion and load are those of the set. It would merge two items of one pick and one receipt time, which only the model's coarse clock could make: one thread receives the picks, and the database has each only once |
| `PickRelay` | what the pipeline promises | a line of accepted picks; `Accept`, `AcceptFull` (the oldest makes room), `Remember`, `Recognize`, `Fault`, `Forget`, `Fail`, `Recover` |
| `BrokerRelay` | | the refinement mapping: the line is the pick in the processor's hands, then the queue |
| `BrokerProofs` | | theorems about `Broker`, and that it implements `PickRelay` |
| `GrpcServer` | `start` and `stop` of both services | the two threads, step by step, and what they share |
| `PublishService` | `publishService.cpp` | one record per RPC; the constructor in the steps `AdmitPublisher`/`RefusePublisher`, `RejectToken`/`Register`; `OnReadDone` with the outcome of the callback, `OnReadDoneNotOk`, `OnDone`; an instance of `GrpcServer` |
| `PublishServiceProofs` | | theorems about `PublishService` |
| `SubscribeService` | `subscribeService.cpp` | one record per RPC; the constructor in the steps `CheckLimit`, `CheckToken`, `Subscribe`/`SubscribeFails`, `Register`; the loop of `nextWrite` as `GetPicks`, `WriteFront`, `LeaveLoop`; `OnWriteDone`, `OnWriteDoneNotOk`, `Cancel`, `OnCancel`, `OnDone`; an instance of `GrpcServer`. The store is `PickBacklog`, which `StoreIsBacklog` proves `PickStore` to be from one purge to the next |
| `SubscribeServiceProofs` | | theorems about `SubscribeService` |
| `BrokerLifecycle` | `broker.cpp` (start, stop, checkFuturesOkay), the destructors of the services, `main.cpp` (main loop) | `main` goes through the main loop and stop() line by line; destroying a service is `Destroy...`, the second stop() of its destructor, and `Free...`. `processor` and `cleaner` are where the two threads are in their loops, reduced to what they touch; `alive` and `mDatabase` are what is left of the owned objects; `valid` and `joining` are the futures. Two instances of `GrpcServer`, whose stop may overtake their start, and whose port may be taken (`ServerMissing`). `crashed` is what the process has died of. `slowest`, chosen at the start from `Paces`, is how many milliseconds each thread takes at most for what it is in the middle of: a start() on its way to Wait(), the return of Wait(), a turn of `processPick` and one of `cleanDatabase`. `paused` adds up stop()'s pauses (`StopPause`, `BrokerPause`, `DestructorPause`), and a pause does not end before what must have ended by then (`IsLate`); nothing else waits for a thread |
| `BrokerLifecycleProofs` | | theorems about `BrokerLifecycle` |
| `ProgramOptions` | `programOptions.hpp`, the option classes | pure operators: `Refuses` is everything that throws for an initialization file, a function from section and key to a value, and `Options` is what comes of one that is not refused |
| `Process` | `main.cpp`, `logger.hpp`, `metrics.hpp`, `otelSpdlogSink.hpp`, the file of `database.cpp` | `main` goes through main(): each part of the set-up with its failure, the launch, the loop with the summary in three steps (the two counters are loaded one after the other), the clean-up; `Interrupt`, `Killed` and `StartAgain`, which keeps the file; `Count`, `Observe` and `ThreadLogs` are the other threads |
| `ProcessProofs` | | theorems about `Process` and `ProgramOptions` |
| `MC...` | | constants of the runs |

Conventions: a lock-protected block is one action; what happens between two
locks, or between the load and the update of an atomic, is in different
actions. Where two steps of one thread touch nothing another thread can observe
between them they are one action. Definitions that begin with "Mutant of" in
their comment are plausible mistakes: each property is seen to fail when one of
them takes the place of the definition it names.

## What the runs show

Runs that must pass:

| run | configuration | shows |
|---|---|---|
| store_forward | MCPickStoreForward | with a clock that is not set back: the retention contract, no pick skipped, none sent that is not owed, expired picks bounded by half the capacity once the deque is cleaned, every owed pick delivered or expired in the end; `PickStore` implements `PickFeed`, liveness included |
| store_step_back | MCPickStoreStepBack | with a clock that is set back, and so coarse that picks share a time: the deque stays ordered, delivery is strictly in order |
| broker_pipeline | MCBroker | persistence, service after restart, no second broadcast, accounting, one pick for one spelling whatever blanks and defaults tell its messages apart, across crashes and failures; `Broker` implements `PickRelay`, liveness included: picks go their way in the order in which they were accepted, and a crash takes no more of them than the queue holds and one |
| publish | MCPublishService | the publisher count is right at every step, and how far the limit can be passed; purges are deserved and responses add up, over all sequences of four messages; stop() returns |
| subscribe | MCSubscribeService | no cursor leaks, no second Finish of a writer that was not refused; from the store to the wire without gap or repetition, every pick in the end, and stop() returns |
| lifecycle | MCBrokerLifecycle | a signal or a failure of the cleaner ends the process, every thread is joined, the process does not go on with one service, and threads that are as slow as stop()'s pauses allow use nothing that is gone |
| process | MCProcess | whatever the initialization file says and whatever fails or is killed, over three starts: the broker runs with sound options, a token only with the key and certificate that make it count, and a table; failures are cleaned up; summaries add up and come in the end |

Runs that must find a violation are listed under
[disagreements](#disagreements-between-code-and-text).

Deadlock is checked wherever the system cannot stop, that is for the store and
the pipeline. A service stops: when stop() has returned and every RPC is over
nothing is left to do, and so does the process; their runs say so.

## Bounds

* `ClockBound` stops the clock; it exceeds the retention times by enough for a
  pick to be received, expire, be purged and be submitted again.
  `PickStore` begins at `StartTime` so that backfills from before the start exist.
* Capacities are 4 and 2 (store) and 2 (input queue): below half, at half and at
  the limit are all reached with the picks of the run. The chunk is 2 in the runs
  of the store and 1 in those of the service, so that chunk boundaries fall
  between, before and after picks of equal time. `PickStore` starts from an empty
  database, from one with an expired pick before a young one, and from one with
  nothing that is young.
* `broker_pipeline` restarts with the database it finds
  (`DeleteDatabaseIfExists = FALSE`): with one that is created anew neither service
  after a restart nor deduplication is promised.
* `MinInsertTicks = 0` lets two picks have the same time; `MaxStepBack = 2` lets
  the clock return behind every pick of the deque. Both are 1 and 0 in runs about
  what the code shows only for a clock that moves forward.
* `MaxStored` bounds the items that `PickStore` ever loads and inserts: four of two
  picks, which may come again, or three of three with a clock that is set back.
* Three submissions, at most two of them in callbacks at once (`Publishers`), are the
  fewest for a duplicate, an overflow and a pick behind them. The messages are one
  pick in two spellings, the same written small, the same in a name too long for
  its capitals, and two that are refused. `LocalCapacity = 1` instead of 15 makes
  that name two letters long; a name of two letters and a blank has room.
* Two subscribers are the fewest for one to act between two steps of the other.
* `MaximumConsecutiveInvalidMessages = 2` with four messages: streaks below, at and
  past the limit, and every other outcome before, in and after them.
* `MCPaces` in `lifecycle`: threads as slow as `Quick` lets them be (34, 24, 84 and
  119 ms), and for each of the four one that is a millisecond slower. Each of these
  reaches the use of what is gone: take one away from `Quick` and TLC finds it.
* `subscribe` has a chunk of one pick, two picks, and a stop() that comes after the
  start; `lifecycle` has the stop() that overtakes it.
* `MaxStarts = 3` in `process`: a start that is killed with a file but no table, one
  that meets that file, and one after it. `MaxCount = 2` picks: one counted before
  and one while a summary is made. The hundred initialization files give every
  number that is read its ends and a text that is none, both servers every
  combination of key, certificate and token, and the exporters every choice.
  `UIntValues` is 2^20 instead of 2^32, which TLC's integers do not hold; nothing
  but the wrap of a negative number depends on it.
* `HandlerThreads = 2` and a limit of 1: two constructors between the check
  and the count.

## Fairness

* The pick processor's loop runs as long as the process does (`broker.cpp`
  319-382: it sleeps 25 ms and looks again): weak fairness of `ProcessPick`, and of
  `Enqueue` in `PickStore`. From the first follows what `PickRelay` asks, that its
  line moves.
* `nextWrite` polls (`subscribeService.cpp` 183-222: it sleeps 15 ms and looks
  again): weak fairness of `GetPicks` and of `NextWrite`.
* The threads that run start() and, once called, stop() run, and so does the main
  thread. The cleaner's wait ends after a minute (`broker.cpp` 388, 410) if it is
  not notified.
* gRPC ends a started write, calls OnCancel for a cancelled RPC and OnDone for a
  finished one, and cancels what is outstanding when Shutdown's deadline passes.
  In `BrokerLifecycle` a thread that would use what is gone counts as running: it
  takes the step or the process dies of it.
* main()'s loop looks at the futures and at the time about eight times a second
  (`main.cpp` 236-265): weak fairness of `Watch`, and of `IntervalPasses`, as time
  passes.
* Nobody is made to publish, subscribe, cancel, fail, crash or call stop().

## What is proved

Every theorem is of its module's `Spec`, without fairness, for every value of the
constants that the module's named assumption admits. Those assumptions say that
the sets are what they are and that limits and capacities are positive; that they
hold of the program, whatever its initialization file, is itself a theorem
(`OptionsAreSound`). What a theorem assumes besides is in its row.

**The pick store** (`PickStoreProofs`, `SubscriptionProofs`, `PickFeedProofs`)

| theorem | property | argument |
|---|---|---|
| `TypeCorrect` | `TypeOK` | inductive by itself, given that the sort, the purge and the chunk return sequences of items |
| `DequeIsSorted` | `DequeSorted` | `DequeInv`: ordered, without repetition, its items are in `stored`, and the item in flight is not. Each part needs the others: a sorted insertion keeps the order only of a deque without the item, and the item is new because no pick has two receipts at one time, and the item in flight is not in the deque yet |
| `DeliveryIsInOrder` | `DeliveredInOrder` | `OrderInv` on top of `DequeInv`: everything a subscriber was given lies before its cursor. A chunk is an ordered part of the deque from the cursor on, so it extends what was given in order; the new cursor is past its last time. New items below the cursor, which a clock set back can bring, are then never given |
| `RetentionIsKept` | `RetentionContract` | for `MaxStepBack = 0`. `RetentionInv` adds that the cutoff the pick processor last read is no later than the one of now, since the clock has only advanced since; the purge pops a prefix that is older than the cutoff it read, and the insertion keeps every item |
| `ExpiredAreFew` | `ExpiredPicksBounded` | `ExpiredInv`: a purge of an ordered deque leaves no old pick or one less than half, and the insertion adds one. The deque holds no item twice, so that its places can be counted by their items, in whichever order the insertion leaves them |
| `NoneIsSkipped`, `OnlyOwedIsDelivered` | `NoPickSkipped`, `OnlyOwedDelivered` | for `Forward`: a clock that is not set back, an insertion into the database that takes a tick of it, and a backfill with distinct times from before the start. `FreshInv`: times are then distinct and the item in flight is the youngest, so that it is appended. `SubscriptionInv`, for each subscriber: its cursor is its start time or comes from a stored pick, what is in the deque from the cursor on is owed, what is owed is delivered, ahead or expired, and no more is delivered. A chunk is what is pending up to a place in the deque (`BatchIsPrefix`, `BatchIsComplete`), so that the cursor passes nothing else |
| `StoreIsFeed` | (the safety part of `ImplementsFeed`) | for `Forward`. Of an ordered deque the picks below a cursor are the first ones (`BelowIsPrefix`), so that a backlog is known by the picks on both sides of its cut (`Cut`). A purge shortens the deque and the backlogs that reach into what is popped (`ShortenedDeque`); the pick that is appended joins the backlogs whose cursor it is not below, which `SubscriptionInv` shows to be those it is for (`FeedPublish`); a chunk is the first places after the cut, in their order (`BatchPlaces`) |
| `StoreIsItsItems` | | `PoppedItems`: of an ordered deque a purge takes the items before the cutoff, or none while it is less than half full, and a sort takes none; that is `Cleaned` of `Broker`. Needs `DequeInv` |
| `StoreIsBacklog` | | for `Forward`. `PastInv`, on top of what `StoreIsFeed` needs: a cursor lies in the past or at the end of time, so that a pick received from now on is not behind it. `PlaceIs`: a subscription's number is how many picks lie below its cursor, and one more if the pick on its way does, which is younger than the deque. Then a chunk is the numbers after it, up to as many as asked for; an insertion changes no number, because it was counted before; a purge lowers all by what it pops |

`RetentionIsKept` needs its assumption: a clock that is set back and runs on lets
a pick be purged while it is young again. So do those for `Forward`: with equal times on
both sides of the end of a chunk, or a pick that is sorted below a cursor, picks
are skipped.

**The pipeline** (`BrokerProofs`)

| theorem | property | argument |
|---|---|---|
| `TypeCorrect`, `NoPickUnaccounted` | `TypeOK`, `EveryPickAccountedFor` | `CountInv`: the picks accepted, counted yet or not, are those settled, queued and in hand. The bounds on the counters in `TypeOK` follow from the balance, not from any step of their own |
| `StoreIsPersisted`, `DatabaseIsServed` | `StoredPicksArePersisted`, `PersistedPicksAreServed` | `StoreInv` holds both, and that the cutoff the cleaner has read lies in the past and that an item between the table and the store is in the table. A deletion removes only what is too old for the store; an enqueue that fails is `missed` until the next restart |
| `NoEarlyRebroadcast` | `RebroadcastOnlyAfterRetention` | for `DeleteDatabaseIfExists = FALSE`. `BroadcastInv`: what was broadcast and is recent is in the table, and an item that was added is none of these |
| `SpellingDecides`, `FixedIsNormal` | | for messages `InBounds`, whose names leave room for their capitals. Each conversion of a text is said place by place: which characters it keeps and in which order. `CapitalizeAndRemoveBlanks` is a recursive function of the place, and what it yields is proved by the least place at which it would not, without an induction theorem. What is taken of two valid messages is then equal exactly if they have the `SameSpelling`, which does not mention the conversions |
| `OnePickIsOneArrival` | | for messages `InBounds`. Of one pick follows one spelling, and capitals keep the blanks where they are, so that it is one arrival (`SameArrival`, which disregards case). The converse is what `broker_case` refutes |
| `OneSpellingIsOnePick` | `OneSpellingOnePick` | from these, with `PicksAreUnique`: the table holds a pick once, and what is queued, in hand or in the table is the fixed form of a message, also where the code is undefined |
| `StoreDuplicatesAreOld` | | `DuplicatesInv`: of two items of one pick in the store one is older than the database remembers, also when a restart deletes the database, since the store goes with it; this is how far `NoDuplicateInStore` fails |
| `PipelineIsRelay` | (the safety part of `ImplementsRelay`) | each step of `Broker` is a step of `PickRelay` or a stutter: a callback is `Accept` or `AcceptFull`; from the hand a pick is remembered, recognized or a fault; the cleaner forgets |

**The services** (`PublishServiceProofs`, `SubscribeServiceProofs`)

| theorem | property | argument |
|---|---|---|
| `TypeCorrect` (twice) | `TypeOK` | with the invariants below: that a write in progress has the pick it writes, or that a publisher turned away has sent nothing, is not inductive by itself |
| `CountIsExact` | `CountIsRegistered` | for `StopBeforeStart = FALSE`. `InTurn` says where the server is when start() and stop() are where they are: a reset meets no registered reader, since before the server serves there is none and after Shutdown has returned all are done |
| `OvershootIsBounded` | `OvershootBounded` | `AdmissionInv`: the count and the constructors past the check together stay below limit and handler threads, whatever the resets of the count do |
| `PurgesAreDeserved` | `PurgeIsDeserved` | `Streak`: the reader's counter is the number of invalid messages in a streak that ends the session so far; at the purge that is one more than the limit, and hence as many (`DeservedIsMore`) |
| `ResponsesAddUp` | `ResponseAddsUp` | `Tallied`: each counter of the reader is the number of the session's messages of its kind, and a response is made of the counters once no more is read; of the kinds of outcome, those accepted and those rejected have none in common (`TalliesAddUp`) |
| `StreamIsBacklog` | `WritesFollowTheStore` | `InOrder`: written, then queue, then cursor continue each other, from where the subscription began |
| `SubscriptionsEnd` | `NoSubscriptionLeaks` | `Placed`: in which part of a writer's life it is bound, registered and subscribed, also when it was refused and is served nonetheless |
| `OneFinish` | `FinishedAtMostOnce` | `Unfinished`: a writer that polls or writes, and was not refused, has not been finished |
| `ReadersEndOnce`, `NoWriterIsStranded` | (what `ShutdownDrains` needs of safety) | `EndInv` of each service: an RPC that is open is in a read or a write that gRPC ends, is polling, or was finished; when it is done it was finished, and a reader that was not purged exactly once |
| `LimitIsOfAllSinceStart` | | `CountedInv`: until stop() has reset it, the count is of all writers that were ever registered. Where `RefusedOnlyWhenFull` fails, this is what holds |
| `ServiceIsServer` (twice) | | a step of a service is one of `GrpcServer`, whose Shutdown finds nothing outstanding, or changes none of its state |

**The process** (`BrokerLifecycleProofs`, `ProcessProofs`)

| theorem | property | argument |
|---|---|---|
| `TypeCorrect` (twice) | `TypeOK` | from the invariants below; that the ports and the limit of invalid messages lie in their ranges is arithmetic of the conversions |
| `NothingIsUsedAfterDestruction` | `NoUseAfterDestruction` | `OrderInv`: once main() has lowered mKeepRunning no turn of a loop begins, and `paused` is what the pauses add up to where main() is (`Paced`); a thread that is in a turn, in its start or its return has been so for no longer than `slowest` (`OnTime`). When a thing is gone, `paused` has passed what `Quick` allows those that use it (`Gone`), so that none is in the middle of it; and a start() that the first look of stop() missed is in Wait() by the second (`InTime`). For every set of paces |
| `EveryThreadIsJoined` | `ThreadsAreJoined` | `JoinInv`: a future whose result was taken is of a thread that has ended, and stop() has yet to wait for all others |
| `OptionsAreSound`, `TokensAreSecured` | `RunsWithinAssumptions`, `TokenIsSecured` | `OptionsInv`: the options are those of no file or of one that was not refused; and what is refused. For every set of initialization files |
| `TableIsThere`, `FailuresAreCleanedUp` | `RunsWithTable`, `FailureCleansUp` | `PhaseInv`: what there is, in each phase of main(): `BrokerInv` for broker and table, `ProviderInv` for the providers |
| `SummariesAddUp` | `ReportsAddUp` | `CountInv`: last report, what is loaded and what is counted follow each other, since counters only grow within a start |

Lemmas about the operators (`PopFrontProperties`, `SortingsProperties`,
`WithItemProperties`, `ScannedProperties`, `ExtendInOrder`, `RoomIsMade`,
`FinishedProperties`) carry the data part and are cited by name.

Only model-checked: liveness under fairness (`Delivery`, `ShutdownDrains`,
`EveryPickReachesTheSubscriber`, `StopReturns`, `BothServeOrNone`,
`EveryPickIsReported`, and the liveness parts of `ImplementsFeed` and
`ImplementsRelay`), which is out of the prover's reach. Every invariant and every
action property that a run checks is proved.

## Disagreements between code and text

Each row is a run that must end in a violation; the finding in `PROJECT.json` quotes
the line.

| run | property | what happens |
|---|---|---|
| store_assertion | LastReadPastCursor | `assert(lastReadTime > cursor)` fails when the cursor is the time of the only pick read, as it is for a live subscriber's first pick |
| broker_duplicate | NoDuplicateInStore | the database forgets a pick before the store does; submitted again, it is stored twice. `StoreDuplicatesAreOld` says how far this goes |
| broker_case | OneArrivalOnePick | `capitalizeAndRemoveBlanks` leaves the case of a name as it is: two messages of one arrival, written in capitals and small, are two picks. `OnePickIsOneArrival` is the direction that holds |
| publish_purge | PurgedIsSilenced | no return after the Finish of a purge: the RPC reads on, and is finished twice. No other reader is (`ReadersEndOnce`) |
| subscribe_refused | RefusedOnlyWhenFull | the subscriber count is never lowered: it is of all since the start (`LimitIsOfAllSinceStart`) |

Seen while modelling, in the models' behaviours but not a run:

* `pickStore.cpp` 106-125: nothing is purged for space. Picks younger than the
  retention time pass "the maximum number of pick messages that can be stored"
  (`pickStoreOptions.hpp` 22), and none "may be purged" (24-25).
* `pickStore.cpp` 159-170: after the clock is set back a new pick is sorted below
  cursors that have passed it, and is never sent to their subscribers.
* `pickStore.cpp` 85-98: a subscription whose start lies after the receipt of a pick
  that is still on its way to the store does not get that pick, though it is put in
  the store later; its start time asks for this, but a writer that goes by the
  order of arrival would not expect it. `BackfillStarts` has it.
* `publishService.cpp` 94 and 116: publishers admitted at once pass the limit;
  `OvershootBounded` says by how many.
* `publishService.cpp` 150-151 and 192-194: invalid picks are not among
  `picks_rejected`, though `publish_response.proto` 12-13 says that the accepted
  picks are the total less the rejected ones, and 17-18 that the invalid ones are the
  rejected less the duplicates. `ResponseAddsUp` states only what both have.
  Besides, `addPickCallback` never throws the exception of a duplicate, which the
  pick processor meets later: in the whole program `duplicate_picks` is 0.
* `publishService.cpp` 152: a publisher is purged after more invalid messages than
  the limit, where `publishServiceOptions.hpp` 51-52 says "after submitting this many
  invalid messages consecutively"; and duplicates and failures between them do not
  reset the count (163-174), after which they are hardly consecutive.
  `PurgeIsDeserved` requires what both have: as many as the limit, and no accepted
  pick between them.
* `publishService.cpp` 373, and the same in `subscribeService.cpp`: a stop() that
  overtakes start()'s thread finds no server and comes to nothing; start() then
  serves. The second stop(), of the destructor, shuts that server down if it is
  there by then; a start() that is slower than both pauses meets a service that is
  destroyed.
* `subscribeService.cpp` 104, 119 and 144: no return after the Finish of a refusal,
  so that the refused subscriber is subscribed, counted and served, and finished
  again.
* `broker.cpp` 51: the capitals are written past the end of the name instead of over
  it. Names of up to eight characters without their blanks keep their case
  (`broker_case`); longer ones, unless many of their characters were blanks, are
  written past the end of the string object, which is undefined. Nor is `phase_hint`
  filled in, as the location and the algorithm are: unset and unknown are two picks.
* `broker.cpp` 218-242: stop() destroys the subscribe service and the database before
  it joins the threads that use them. A pick that takes the processor 85 ms, or a
  deletion that takes the cleaner 120 ms, when stop() is called, meets a null pointer;
  so does a start() that takes 35 ms when stop() overtakes it, and a return from
  Wait() that takes 25 ms meets a destroyed service (`Quick` in `BrokerLifecycle`).
* `publishService.cpp` 386, and the same in `subscribeService.cpp`: stop() destroys
  the server without waiting for start()'s thread to come out of `Wait()` on it.
* `main.cpp` 250-256 and 408-417: a cleaner that fails ends the process with
  EXIT_SUCCESS when the main loop sees it, with EXIT_FAILURE when stop() does.
* `publishService.cpp` 363-365: `BuildAndStart` returns null when a port is taken,
  which is dereferenced; the process dies instead of failing with a message.
* `main.cpp` 408-417: after a launch that fails the logger is cleaned up, which
  leaves OpenTelemetry a null provider, before ~Process ends the threads that were
  launched; one that logs dereferences it. The exit that succeeds cleans no
  provider up.
* `database.cpp` 110 and `main.cpp` 74: a process that dies between the creation of
  the file and that of the table leaves a file that every later start takes for a
  database, and fails on, until it is deleted.
* `programOptions.hpp`: a key without its certificate is ignored without a word,
  and so are numbers that do not convert; a port past 65535 or below -65535 becomes
  the default and other negative ones wrap; a negative limit of invalid messages
  (247-252) is one of more than four thousand
  million; the default summary interval, 900 seconds, is taken for minutes. The
  key of the server is read from `clientKey`.
* Nothing calls `incrementInvalidPicksReceivedCounter`, so that the invalid picks
  that `main.cpp` 115 exports are always 0.

Outside the models: `main.cpp` 154 and 163 give the gauges of both services one
name; the default port of a collector is 4218 where OpenTelemetry's are 4317 and
4318; `Broker::isRunning` is never true; the initialization file's
`maximumPickAgeInMinutes` and `maximumQueueSize` are not read by
`programOptions.hpp`, so that retention cannot be configured.

## What is not modelled

* Text and wire formats, what is logged, URLs and names: no property depends on
  them. Certificates are present, empty or missing. A message without a stream
  identifier, algorithm or time is one whose names, version or time is refused.
* The two utilization gauges and reflection: they decide nothing.
* SQLite and gRPC themselves: external, by what the code relies on. What gRPC does
  at a second Finish is not: the models count it and go on. That `mServer` is reset
  while start()'s thread is in `Wait()` on it is outside the models, too.
* The memory of the store, and the time a copy of a large deque takes.
* The tests, the version and the generated code of the protocol buffers: no state
  of the program.

## Plan

Done: every component that keeps state, its runs, and the theorems above: every
invariant that is checked is proved, and so are the interfaces at which one module
stands for another. Left to a later
hand: if the code comes to purge for space, or to lower the subscriber count, the runs
that now find a violation become invariants, and `ExpiredPicksBounded` a bound
on the whole deque.
