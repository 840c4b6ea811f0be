--------------------------- MODULE BrokerLifecycle --------------------------
(***************************************************************************)
(* How the process starts, watches and stops the broker (main.cpp, and     *)
(* start, stop and checkFuturesOkay of broker.cpp).  The broker owns two   *)
(* services and the database; four threads use them - the two servers',    *)
(* the pick processor and the database cleaner - and the main thread has a *)
(* future of each.  stop() destroys what the broker owns before it waits   *)
(* for the threads: it only pauses, for a tenth of a second in all.        *)
(*                                                                         *)
(* Time is counted in milliseconds, and only while stop() pauses: what     *)
(* happens besides may take any time, or none.  How long each thread takes *)
(* at most for what it is in the middle of is chosen at the start.         *)
(*                                                                         *)
(* The servers are GrpcServer, whose stop() may overtake their start() and *)
(* is called again by the destructor; that their RPCs drain is shown in    *)
(* PublishService and SubscribeService.                                    *)
(***************************************************************************)
EXTENDS Integers, Sequences

CONSTANT Paces   \* how slow the threads may be, in milliseconds

ASSUME PacesAssumption ==
    /\ Paces # {}
    /\ Paces \subseteq [starting : Nat,     \* start(), from its call to Wait()
                       returning : Nat,    \* Wait(), once the server is shut down
                       processing : Nat,   \* a turn of processPick with a pick
                       cleaning : Nat]     \* a turn of cleanDatabase, up to its wait

VARIABLES main,          \* where the main thread is
          mInterrupted,  \* a signal has come
          joining,       \* the futures stop() has yet to wait for
          valid,         \* the futures whose result has not been taken
          exit,          \* the exit status of main()
          mKeepRunning, mShutdownRequested,
          held,          \* mPublishService, mSubscribeService: not yet null
          alive,         \* what they point to: not yet destroyed
          mDatabase,     \* "open", "closed" or "gone"
          processor,     \* where processPick is
          cleaner,       \* where cleanDatabase is
          crashed,       \* what the process has died of: the use of what is
                         \* "gone", or of the "null" server of a port that is taken
          slowest,       \* how long what a thread is in the middle of takes at most
          paused,        \* how long stop() has paused
          shutAt         \* how long it had when the server of a service was shut down

VARIABLES pKeepRunning, pServer, pServerStarted, pStarter, pStopper,
          sKeepRunning, sServer, sServerStarted, sStarter, sStopper

futureVars == <<joining, valid, exit>>
flagVars == <<mKeepRunning, mShutdownRequested>>
ownedVars == <<held, alive, mDatabase>>
timeVars == <<slowest, paused, shutAt>>
runVars == <<mInterrupted, crashed>>
publishVars == <<pKeepRunning, pServer, pServerStarted, pStarter, pStopper>>
subscribeVars == <<sKeepRunning, sServer, sServerStarted, sStarter, sStopper>>
serverVars == <<publishVars, subscribeVars>>
vars == <<main, futureVars, flagVars, ownedVars, processor, cleaner, runVars,
          timeVars, serverVars>>

P == INSTANCE GrpcServer WITH
        StopBeforeStart <- TRUE, count <- 0, mKeepRunning <- pKeepRunning,
        server <- pServer, mServerStarted <- pServerStarted,
        starter <- pStarter, stopper <- pStopper
S == INSTANCE GrpcServer WITH
        StopBeforeStart <- TRUE, count <- 0, mKeepRunning <- sKeepRunning,
        server <- sServer, mServerStarted <- sServerStarted,
        starter <- sStarter, stopper <- sStopper

Services == {"publish", "subscribe"}

\* Mutant of JoinOrder: the cleaner's future is left to itself.
JoinAllButCleaner == <<"publish", "processor", "subscribe">>

\* stop() waits for the futures in this order.
JoinOrder == <<"publish", "processor", "subscribe", "cleaner">>
Futures == {"publish", "processor", "subscribe", "cleaner"}

Ended(f) ==
    \/ f = "publish" /\ pStarter = "returned"
    \/ f = "subscribe" /\ sStarter = "returned"
    \/ f = "processor" /\ processor = "returned"
    \/ f = "cleaner" /\ cleaner \in {"returned", "failed"}

Failed(f) == f = "cleaner" /\ cleaner = "failed"

Init ==
    /\ main = "start"
    /\ mInterrupted = FALSE
    /\ joining = <<>> /\ valid = {} /\ exit = "none"
    /\ mKeepRunning = TRUE /\ mShutdownRequested = FALSE
    /\ held = Services /\ alive = Services /\ mDatabase = "open"
    /\ processor = "top" /\ cleaner = "top"
    /\ crashed = "no"
    /\ slowest \in Paces /\ paused = 0 /\ shutAt = [f \in Services |-> 0]
    /\ P!ServerInit /\ S!ServerInit

\* A thread touches what is gone: the null pointer ends the process, and so may
\* what is freed while it is in use.
Fault(cause) ==
    /\ crashed' = cause
    /\ UNCHANGED <<main, futureVars, flagVars, ownedVars, processor, cleaner,
                   mInterrupted, timeVars, serverVars>>

-----------------------------------------------------------------------------
(* The pauses.  sleep_for sleeps at least as long as it is told.           *)

StopPause == 10         \* in stop() of a service, before it looks for its server
BrokerPause == 15       \* in stop() of the broker, between stop() and destruction
DestructorPause == 25   \* in the destructor of a service, at its end

\* The server's thread has still to come to Wait(), or to return from it.
ServerIsLate(f, starter, server, now) ==
    \/ starter \in {"called", "building", "built"} /\ now > slowest.starting
    \/ /\ starter = "waiting" /\ server = "shut_down"
       /\ now > shutAt[f] + slowest.returning

\* No turn of a loop begins once mKeepRunning is lowered, which is before the
\* first pause: a turn lasts at least as long as stop() has paused during it.
IsLate(now) ==
    \/ ServerIsLate("publish", pStarter, pServer, now)
    \/ ServerIsLate("subscribe", sStarter, sServer, now)
    \/ processor \in {"turn", "adding", "added", "enqueueing"} /\ now > slowest.processing
    \/ cleaner \in {"looking", "dated", "deleting"} /\ now > slowest.cleaning

\* The pause ends: no thread has taken longer than it may.
Pause(milliseconds) ==
    /\ paused' = paused + milliseconds
    /\ ~ IsLate(paused')
    /\ UNCHANGED <<slowest, shutAt>>

-----------------------------------------------------------------------------
(* The main thread: Process::start, handleMainThread.                      *)

MainGoes(from, to) ==
    /\ main = from
    /\ main' = to
    /\ UNCHANGED <<processor, runVars>>

\* The four launches are one step: the threads share nothing with the main thread
\* before it watches them, and mStarted only keeps it from a second start.
StartBroker ==
    /\ MainGoes("start", "watch")
    /\ mShutdownRequested' = FALSE /\ mKeepRunning' = TRUE
    /\ valid' = Futures
    /\ UNCHANGED <<joining, exit, ownedVars, cleaner, timeVars, serverVars>>

\* stdSignalHandler, once stdCatchSignals has installed it.
Interrupt ==
    /\ main # "start"
    /\ ~ mInterrupted
    /\ mInterrupted' = TRUE
    /\ UNCHANGED <<main, futureVars, flagVars, ownedVars, processor, cleaner,
                   crashed, timeVars, serverVars>>

HandleInterrupt ==
    /\ mInterrupted
    /\ MainGoes("watch", "lower")
    /\ UNCHANGED <<futureVars, flagVars, ownedVars, cleaner, timeVars, serverVars>>

\* Mutant of Okay: only the services are watched.
OkayServices ==
    \A f \in Services : f \in valid /\ ~ (Ended(f) /\ Failed(f))

\* wait_for throws on a future that has been taken, and get what its thread threw.
Okay == \A f \in Futures : f \in valid /\ ~ (Ended(f) /\ Failed(f))

CheckFuturesOkay ==
    /\ ~ mInterrupted
    /\ MainGoes("watch", IF Okay THEN "watch" ELSE "lower")
    /\ valid' = { f \in valid : ~ Ended(f) }
    /\ UNCHANGED <<joining, exit, flagVars, ownedVars, cleaner, timeVars, serverVars>>

-----------------------------------------------------------------------------
(* Broker::stop, on the main thread.                                       *)

\* Mutant of LowerKeepRunning: the threads are not told.
LowerNothing ==
    /\ MainGoes("lower", "request")
    /\ UNCHANGED <<futureVars, flagVars, ownedVars, cleaner, timeVars, serverVars>>

LowerKeepRunning ==
    /\ MainGoes("lower", "request")
    /\ mKeepRunning' = FALSE
    /\ UNCHANGED <<futureVars, mShutdownRequested, ownedVars, cleaner, timeVars, serverVars>>

\* mShutdownRequested is set without the mutex of its condition variable.
RequestShutdown ==
    /\ MainGoes("request", "notify")
    /\ mShutdownRequested' = TRUE
    /\ UNCHANGED <<futureVars, mKeepRunning, ownedVars, cleaner, timeVars, serverVars>>

Notify ==
    /\ MainGoes("notify", "stop_publish")
    /\ cleaner' = IF cleaner = "blocked" THEN "testing" ELSE cleaner
    /\ UNCHANGED <<futureVars, flagVars, ownedVars, timeVars, serverVars>>

\* When stop() of a service has paused it shuts down the server that it finds.
PausedStop(f, stopper, server) ==
    IF stopper = "pausing" THEN Pause(StopPause)
    ELSE /\ shutAt' = IF server' # server THEN [shutAt EXCEPT ![f] = paused] ELSE shutAt
         /\ UNCHANGED <<slowest, paused>>

StopPublish ==
    /\ main \in {"stop_publish", "destroy_publish"}
    /\ P!Stop({})
    /\ PausedStop("publish", pStopper, pServer)
    /\ MainGoes(main, IF pStopper' # "stopped" THEN main
                      ELSE IF main = "stop_publish" THEN "leave_publish"
                      ELSE "free_publish")
    /\ UNCHANGED <<futureVars, flagVars, ownedVars, cleaner, subscribeVars>>

\* After another pause mPublishService = nullptr, which takes the pointer away and
\* then calls the destructor.  That calls stop() again ...
DestroyPublish ==
    /\ MainGoes("leave_publish", "destroy_publish")
    /\ Pause(BrokerPause)
    /\ held' = held \ {"publish"}
    /\ pStopper' = "none"
    /\ UNCHANGED <<futureVars, flagVars, alive, mDatabase, cleaner, subscribeVars,
                   pKeepRunning, pServer, pServerStarted, pStarter>>

\* ... and pauses, and the service is gone.
FreePublish ==
    /\ MainGoes("free_publish", "stop_subscribe")
    /\ Pause(DestructorPause)
    /\ alive' = alive \ {"publish"}
    /\ UNCHANGED <<futureVars, flagVars, held, mDatabase, cleaner, serverVars>>

StopSubscribe ==
    /\ main \in {"stop_subscribe", "destroy_subscribe"}
    /\ S!Stop({})
    /\ PausedStop("subscribe", sStopper, sServer)
    /\ MainGoes(main, IF sStopper' # "stopped" THEN main
                      ELSE IF main = "stop_subscribe" THEN "leave_subscribe"
                      ELSE "free_subscribe")
    /\ UNCHANGED <<futureVars, flagVars, ownedVars, cleaner, publishVars>>

\* Mutant of DestroySubscribe: without the pause.
DestroySubscribeAtOnce ==
    /\ MainGoes("leave_subscribe", "destroy_subscribe")
    /\ Pause(0)
    /\ held' = held \ {"subscribe"}
    /\ sStopper' = "none"
    /\ UNCHANGED <<futureVars, flagVars, alive, mDatabase, cleaner, publishVars,
                   sKeepRunning, sServer, sServerStarted, sStarter>>

DestroySubscribe ==
    /\ MainGoes("leave_subscribe", "destroy_subscribe")
    /\ Pause(BrokerPause)
    /\ held' = held \ {"subscribe"}
    /\ sStopper' = "none"
    /\ UNCHANGED <<futureVars, flagVars, alive, mDatabase, cleaner, publishVars,
                   sKeepRunning, sServer, sServerStarted, sStarter>>

FreeSubscribe ==
    /\ MainGoes("free_subscribe", "close")
    /\ Pause(DestructorPause)
    /\ alive' = alive \ {"subscribe"}
    /\ UNCHANGED <<futureVars, flagVars, held, mDatabase, cleaner, serverVars>>

CloseDatabase ==
    /\ MainGoes("close", "destroy_database")
    /\ mDatabase' = "closed"
    /\ UNCHANGED <<futureVars, flagVars, held, alive, cleaner, timeVars, serverVars>>

DestroyDatabase ==
    /\ MainGoes("destroy_database", "join")
    /\ mDatabase' = "gone"
    /\ joining' = JoinOrder
    /\ UNCHANGED <<valid, exit, flagVars, held, alive, cleaner, timeVars, serverVars>>

\* get() waits for the thread and throws what it threw; main() then fails, and
\* what is left is joined by the stop() of ~Process.
Join ==
    /\ MainGoes("join", "join")
    /\ joining # <<>>
    /\ LET f == Head(joining) IN
         /\ f \in valid => Ended(f)
         /\ exit' = IF f \in valid /\ Failed(f) THEN "failure" ELSE exit
         /\ valid' = valid \ {f}
    /\ joining' = Tail(joining)
    /\ UNCHANGED <<flagVars, ownedVars, cleaner, timeVars, serverVars>>

End ==
    /\ joining = <<>>
    /\ MainGoes("join", "ended")
    /\ exit' = IF exit = "none" THEN "success" ELSE exit
    /\ UNCHANGED <<joining, valid, flagVars, ownedVars, cleaner, timeVars, serverVars>>

-----------------------------------------------------------------------------
(* The threads of the servers.  Each has its service until it returns.     *)

StartPublish ==
    /\ main # "start"
    /\ "publish" \in alive
    /\ P!Start
    /\ UNCHANGED <<main, futureVars, flagVars, ownedVars, processor, cleaner,
                   runVars, timeVars, subscribeVars>>

\* Mutant of StartSubscribe: a deferred future, which runs when stop() gets it.
StartSubscribeDeferred ==
    /\ main = "join"
    /\ S!Start
    /\ UNCHANGED <<main, futureVars, flagVars, ownedVars, processor, cleaner,
                   runVars, timeVars, publishVars>>

StartSubscribe ==
    /\ main # "start"
    /\ "subscribe" \in alive
    /\ S!Start
    /\ UNCHANGED <<main, futureVars, flagVars, ownedVars, processor, cleaner,
                   runVars, timeVars, publishVars>>

\* BuildAndStart returns no server, and Wait() is called on it.
PortIsTaken(starter) == starter = "building" /\ Fault("null")

ServerMissing ==
    \/ "publish" \in alive /\ PortIsTaken(pStarter)
    \/ "subscribe" \in alive /\ PortIsTaken(sStarter)

\* The thread goes on with a service that has been destroyed.
ServerFaults ==
    /\ main # "start"
    /\ \/ "publish" \notin alive /\ pStarter # "returned"
       \/ "subscribe" \notin alive /\ sStarter # "returned"
    /\ Fault("gone")

-----------------------------------------------------------------------------
(* processPick.                                                            *)

Processor(from, to) ==
    /\ main # "start"
    /\ processor = from
    /\ processor' = to
    /\ UNCHANGED <<main, futureVars, flagVars, ownedVars, cleaner, runVars,
                   timeVars, serverVars>>

ProcessorTurns == Processor("top", IF mKeepRunning THEN "turn" ELSE "returned")

\* There is no pick.
ProcessorSleeps == Processor("turn", "top")

\* There is one.  A database that is closed throws, which is caught.
ProcessorAdds ==
    /\ mDatabase # "gone"
    /\ Processor("turn", IF mDatabase = "open" THEN "adding" ELSE "top")

\* It has been added, or not.
ProcessorAdded == Processor("adding", "added") \/ Processor("adding", "top")

ProcessorEnqueues == "subscribe" \in held /\ Processor("added", "enqueueing")

ProcessorEnqueued == Processor("enqueueing", "top")

ProcessorFaults ==
    /\ \/ mDatabase = "gone" /\ processor \in {"turn", "adding"}
       \/ "subscribe" \notin held /\ processor = "added"
       \/ "subscribe" \notin alive /\ processor = "enqueueing"
    /\ Fault("gone")

-----------------------------------------------------------------------------
(* cleanDatabase.                                                          *)

Cleaner(from, to) ==
    /\ main # "start"
    /\ cleaner = from
    /\ cleaner' = to
    /\ UNCHANGED <<main, futureVars, flagVars, ownedVars, processor, runVars,
                   timeVars, serverVars>>

CleanerTurns == Cleaner("top", IF mKeepRunning THEN "looking" ELSE "returned")

\* mDatabase->isOpen() ...
CleanerLooks ==
    /\ mDatabase # "gone"
    /\ Cleaner("looking", IF mDatabase = "open" THEN "dated" ELSE "testing")

\* ... may have become false when deletePicksBefore tests it, and throws.
CleanerDeletes ==
    /\ mDatabase # "gone"
    /\ Cleaner("dated", IF mDatabase = "open" THEN "deleting" ELSE "failed")

CleanerDeleted == Cleaner("deleting", "testing")

\* The statement cannot be prepared: nothing catches what is thrown.
DeleteFails == Cleaner("deleting", "failed")

\* The predicate of wait_for, before and after a wait.  A plain bool is read, so
\* that an old value may be seen.
CleanerTests ==
    \E seen \in {FALSE, mShutdownRequested} :
        Cleaner("testing", IF seen THEN "top" ELSE "blocking")

\* A notification between the test and the wait is missed.
CleanerBlocks == Cleaner("blocking", "blocked")

\* Mutant of CleanerTimesOut: wait for wait_for.
CleanerWaits == FALSE /\ Cleaner("blocked", "top")

CleanerTimesOut == Cleaner("blocked", "top")

CleanerFaults ==
    /\ mDatabase = "gone" /\ cleaner \in {"looking", "dated", "deleting"}
    /\ Fault("gone")

-----------------------------------------------------------------------------
MainThread ==
    \/ StartBroker \/ HandleInterrupt \/ CheckFuturesOkay
    \/ LowerKeepRunning \/ RequestShutdown \/ Notify
    \/ StopPublish \/ DestroyPublish \/ FreePublish
    \/ StopSubscribe \/ DestroySubscribe \/ FreeSubscribe
    \/ CloseDatabase \/ DestroyDatabase \/ Join \/ End

PickProcessor ==
    \/ ProcessorTurns \/ ProcessorSleeps \/ ProcessorAdds \/ ProcessorAdded
    \/ ProcessorEnqueues \/ ProcessorEnqueued

DatabaseCleaner ==
    \/ CleanerTurns \/ CleanerLooks \/ CleanerDeletes \/ CleanerDeleted \/ DeleteFails
    \/ CleanerTests \/ CleanerBlocks \/ CleanerTimesOut

Step ==
    \/ MainThread \/ Interrupt
    \/ StartPublish \/ StartSubscribe \/ ServerMissing \/ ServerFaults
    \/ PickProcessor \/ ProcessorFaults
    \/ DatabaseCleaner \/ CleanerFaults

Running == crashed = "no"

Next == Running /\ Step

Spec == Init /\ [][Next]_vars

\* Every thread runs; the cleaner's wait ends after a minute at the latest.
FairSpec ==
    /\ Spec
    /\ WF_vars(Running /\ MainThread)
    /\ WF_vars(Running /\ (StartPublish \/ ServerFaults))
    /\ WF_vars(Running /\ (StartSubscribe \/ ServerFaults))
    /\ WF_vars(Running /\ (PickProcessor \/ ProcessorFaults))
    /\ WF_vars(Running /\ (DatabaseCleaner \/ CleanerFaults))

-----------------------------------------------------------------------------
(* Properties.                                                             *)

TypeOK ==
    /\ main \in {"start", "watch", "lower", "request", "notify", "stop_publish",
                 "leave_publish", "destroy_publish", "free_publish",
                 "stop_subscribe", "leave_subscribe", "destroy_subscribe",
                 "free_subscribe", "close", "destroy_database", "join", "ended"}
    /\ mInterrupted \in BOOLEAN
    /\ joining \in Seq(Futures) /\ valid \subseteq Futures
    /\ exit \in {"none", "success", "failure"}
    /\ mKeepRunning \in BOOLEAN /\ mShutdownRequested \in BOOLEAN
    /\ held \subseteq Services /\ alive \subseteq Services
    /\ mDatabase \in {"open", "closed", "gone"}
    /\ processor \in {"top", "turn", "adding", "added", "enqueueing", "returned"}
    /\ cleaner \in {"top", "looking", "dated", "deleting", "testing", "blocking",
                    "blocked", "returned", "failed"}
    /\ crashed \in {"no", "gone", "null"}
    /\ slowest \in Paces /\ paused \in Nat /\ shutAt \in [Services -> Nat]
    /\ P!ServerTypeOK /\ S!ServerTypeOK
    /\ main = "ended" => valid = {} /\ exit # "none"

\* What the pauses add up to from the moment that mKeepRunning is lowered: until
\* the destructor of the publish service looks for a server for the last time,
\* until mSubscribeService is null, and until mDatabase is.
Quick ==
    /\ slowest.starting < StopPause + BrokerPause + StopPause
    /\ slowest.returning < DestructorPause
    /\ slowest.processing <
          (StopPause + BrokerPause + StopPause + DestructorPause) + StopPause + BrokerPause
    /\ slowest.cleaning < 2 * (StopPause + BrokerPause + StopPause + DestructorPause)

\* stop() destroys what its threads use before it waits for them, on the strength
\* of its pauses.  They suffice for threads that are Quick, wherever these are in
\* their turns when it begins, and for a start() that stop() has overtaken: none
\* uses a service or the database that is gone.
NoUseAfterDestruction == Quick => crashed # "gone"

\* No thread of the broker outlives main(), whatever ended it.
ThreadsAreJoined == main = "ended" => \A f \in Futures : Ended(f)

\* A signal ends the process, though the cleaner can miss the notification and
\* sleep on; and so does a failure of the cleaner, which only its future tells.
StopReturns == mInterrupted \/ cleaner = "failed" ~> main = "ended" \/ ~ Running

\* The process does not go on with one service when the port of the other is
\* taken, though no exception of a service ever comes: both serve, or it ends.
BothServeOrNone ==
    main = "watch" ~> \/ pServer = "serving" /\ sServer = "serving"
                      \/ main # "watch" \/ ~ Running
=============================================================================
