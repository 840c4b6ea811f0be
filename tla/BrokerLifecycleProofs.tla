------------------------ MODULE BrokerLifecycleProofs -----------------------
(***************************************************************************)
(* Theorems about BrokerLifecycle, for threads of any pace.                *)
(***************************************************************************)
EXTENDS BrokerLifecycle, SequenceTheorems, TLAPS

-----------------------------------------------------------------------------
(* Types.                                                                  *)

Phases ==
    {"start", "watch", "lower", "request", "notify", "stop_publish",
     "leave_publish", "destroy_publish", "free_publish", "stop_subscribe",
     "leave_subscribe", "destroy_subscribe", "free_subscribe", "close",
     "destroy_database", "join", "ended"}

Places ==
    /\ main \in Phases
    /\ exit \in {"none", "success", "failure"}
    /\ mDatabase \in {"open", "closed", "gone"}
    /\ processor \in {"top", "turn", "adding", "added", "enqueueing", "returned"}
    /\ cleaner \in {"top", "looking", "dated", "deleting", "testing", "blocking",
                    "blocked", "returned", "failed"}
    /\ crashed \in {"no", "gone", "null"}

Flags ==
    /\ mInterrupted \in BOOLEAN
    /\ mKeepRunning \in BOOLEAN /\ mShutdownRequested \in BOOLEAN

Sets ==
    /\ joining \in Seq(Futures) /\ valid \subseteq Futures
    /\ held \subseteq Services /\ alive \subseteq Services

Times == slowest \in Paces /\ paused \in Nat /\ shutAt \in [Services -> Nat]

ServersTyped == P!ServerTypeOK /\ S!ServerTypeOK

-----------------------------------------------------------------------------
(* The order of stop(), and its time.                                      *)

\* main() has taken back mKeepRunning, and each thing it has let go of later.
Closing == {"close", "destroy_database", "join", "ended"}
Late ==
    {"request", "notify", "stop_publish", "leave_publish", "destroy_publish",
     "free_publish", "stop_subscribe", "leave_subscribe", "destroy_subscribe",
     "free_subscribe"} \cup Closing

Lowered == main \in Late => ~ mKeepRunning

\* Where stop() is tells how long it has paused.
Looked(stopper) == stopper \notin {"none", "pausing"}
Lapse ==
    CASE main = "stop_publish" -> IF Looked(pStopper) THEN 10 ELSE 0
      [] main = "leave_publish" -> 10
      [] main = "destroy_publish" -> IF Looked(pStopper) THEN 35 ELSE 25
      [] main = "free_publish" -> 35
      [] main = "stop_subscribe" -> IF Looked(sStopper) THEN 70 ELSE 60
      [] main = "leave_subscribe" -> 70
      [] main = "destroy_subscribe" -> IF Looked(sStopper) THEN 95 ELSE 85
      [] main = "free_subscribe" -> 95
      [] main \in Closing -> 120
      [] OTHER -> 0

Stoppers ==
    /\ main \in {"leave_publish", "free_publish"} => pStopper = "stopped"
    /\ main \notin Late \ {"request", "notify"} => pStopper = "none"
    /\ main \in {"leave_subscribe", "free_subscribe"} => sStopper = "stopped"
    /\ main \notin {"stop_subscribe", "leave_subscribe", "destroy_subscribe",
                    "free_subscribe"} \cup Closing => sStopper = "none"

Paced == paused = Lapse /\ Stoppers

\* What is gone, is gone after so long.
Gone ==
    /\ "publish" \notin alive => paused >= 60
    /\ "subscribe" \notin held => paused >= 85
    /\ "subscribe" \notin alive => paused >= 120
    /\ mDatabase = "gone" => main \in Closing

\* What start() and stop() of a service have agreed on.
Agreed(server, started, starter, stopper) ==
    /\ starter \in {"called", "building"} => server = "none"
    /\ starter = "built" => server = "serving"
    /\ starter = "waiting" =>
          (server = "serving" /\ started) \/ server \in {"shutting_down", "shut_down"}
    /\ starter # "waiting" => ~ started
    /\ server = "shutting_down" <=> stopper = "draining"

ServersAgreed ==
    /\ Agreed(pServer, pServerStarted, pStarter, pStopper)
    /\ Agreed(sServer, sServerStarted, sStarter, sStopper)

\* A server is shut down at one of the two looks that stop() has for it.
ShutInTime ==
    /\ shutAt["publish"] <= paused /\ shutAt["publish"] <= 35
    /\ shutAt["subscribe"] <= paused /\ shutAt["subscribe"] <= 95

OnTime == ~ IsLate(paused)

\* A start() that the first look has missed is there by the second.
PublishCaught ==
    (main = "destroy_publish" /\ pStopper = "resetting") \/ main = "free_publish"
        => (pStarter = "waiting" => pServer = "shut_down")
SubscribeCaught ==
    (main = "destroy_subscribe" /\ sStopper = "resetting") \/ main = "free_subscribe"
        => (sStarter = "waiting" => sServer = "shut_down")

\* When a service goes, its thread has returned.
PublishReturned == "publish" \notin alive => pStarter = "returned"
SubscribeReturned == "subscribe" \notin alive => sStarter = "returned"

InTime ==
    Quick => /\ PublishCaught /\ SubscribeCaught
             /\ PublishReturned /\ SubscribeReturned

OrderInv ==
    /\ Lowered /\ Paced /\ Gone /\ ServersAgreed /\ ShutInTime /\ OnTime /\ InTime
    /\ NoUseAfterDestruction

\* A future whose result has been taken is of a thread that has ended, and stop()
\* has yet to wait for all others.
JoinInv ==
    /\ main # "start" => \A f \in Futures \ valid : Ended(f)
    /\ main = "join" => \A f \in valid : \E i \in 1..Len(joining) : joining[i] = f
    /\ main = "ended" => valid = {} /\ exit # "none"

LifeInv == Places /\ Flags /\ Sets /\ Times /\ ServersTyped /\ OrderInv /\ JoinInv

LEMMA ServersTypedInit == ASSUME Init PROVE ServersTyped
<1>1. P!ServerTypeOK
  <2>1. 0 \in Int
    OBVIOUS
  <2>2. pKeepRunning \in BOOLEAN /\ pServerStarted \in BOOLEAN
    BY DEF Init, P!ServerInit
  <2>. QED BY <2>1, <2>2 DEF Init, P!ServerInit, P!ServerTypeOK
<1>2. S!ServerTypeOK
  <2>1. 0 \in Int
    OBVIOUS
  <2>2. sKeepRunning \in BOOLEAN /\ sServerStarted \in BOOLEAN
    BY DEF Init, S!ServerInit
  <2>. QED BY <2>1, <2>2 DEF Init, S!ServerInit, S!ServerTypeOK
<1>. QED BY <1>1, <1>2 DEF ServersTyped

LEMMA SlowestTyped ==
    ASSUME Times
    PROVE  /\ slowest.starting \in Nat /\ slowest.returning \in Nat
           /\ slowest.processing \in Nat /\ slowest.cleaning \in Nat
           /\ paused \in Nat
           /\ shutAt["publish"] \in Nat /\ shutAt["subscribe"] \in Nat
BY PacesAssumption DEF Times, Services

LEMMA LifeInvInit == ASSUME Init PROVE LifeInv
<1>1. Places
  BY DEF Init, Places, Phases
<1>2. Flags
  BY DEF Init, Flags
<1>3. Sets
  BY DEF Init, Sets
<1>4. Times
  BY DEF Init, Times
<1>5. JoinInv
  BY DEF Init, JoinInv
<1>6. ServersAgreed
  BY DEF Init, P!ServerInit, S!ServerInit, ServersAgreed, Agreed
<1>7. Paced
  BY DEF Init, P!ServerInit, S!ServerInit, Paced, Stoppers, Lapse, Late, Closing
<1>8. OnTime
  <2>1. /\ slowest.starting \in Nat /\ slowest.returning \in Nat
        /\ slowest.processing \in Nat /\ slowest.cleaning \in Nat
        /\ paused = 0
    BY <1>4, SlowestTyped DEF Init
  <2>. QED BY <2>1 DEF Init, P!ServerInit, S!ServerInit, OnTime, IsLate, ServerIsLate
<1>9. Lowered /\ Gone /\ ShutInTime /\ InTime /\ NoUseAfterDestruction
  BY DEF Init, Lowered, Late, Closing, Gone, ShutInTime, InTime, PublishCaught, SubscribeCaught,
         PublishReturned, SubscribeReturned, NoUseAfterDestruction, Services
<1>. QED BY <1>1, <1>2, <1>3, <1>4, <1>5, <1>6, <1>7, <1>8, <1>9, ServersTypedInit
        DEF LifeInv, OrderInv

-----------------------------------------------------------------------------
(* Every step keeps the types.                                             *)

LEMMA PlacesNext == ASSUME LifeInv, [Next]_vars PROVE Places'
<1>1. CASE StartBroker \/ HandleInterrupt \/ CheckFuturesOkay \/ LowerKeepRunning \/
          RequestShutdown \/ Notify
  BY <1>1
     DEF StartBroker, HandleInterrupt, CheckFuturesOkay, LowerKeepRunning,
         RequestShutdown, Notify, MainGoes, futureVars, flagVars, ownedVars,
         runVars, serverVars, publishVars, subscribeVars, Places, Phases, LifeInv
<1>2. CASE DestroyPublish \/ FreePublish \/ DestroySubscribe \/ FreeSubscribe
  BY <1>2
     DEF DestroyPublish, FreePublish, DestroySubscribe, FreeSubscribe, MainGoes,
         futureVars, flagVars, ownedVars, runVars, serverVars, publishVars,
         subscribeVars, Places, Phases, LifeInv
<1>3. CASE CloseDatabase \/ DestroyDatabase \/ Join \/ End
  BY <1>3
     DEF CloseDatabase, DestroyDatabase, Join, End, MainGoes, futureVars, flagVars,
         ownedVars, runVars, serverVars, publishVars, subscribeVars, Places, Phases,
         LifeInv
<1>4. CASE StopPublish
  BY <1>4
     DEF StopPublish, P!Stop, P!BeginStop, P!Shutdown, P!NothingToShutDown,
         P!ShutdownReturns, P!ResetCount, MainGoes, futureVars, flagVars, ownedVars,
         runVars, serverVars, publishVars, subscribeVars, Places, Phases, LifeInv
<1>5. CASE StopSubscribe
  BY <1>5
     DEF StopSubscribe, S!Stop, S!BeginStop, S!Shutdown, S!NothingToShutDown,
         S!ShutdownReturns, S!ResetCount, MainGoes, futureVars, flagVars, ownedVars,
         runVars, serverVars, publishVars, subscribeVars, Places, Phases, LifeInv
<1>6. CASE StartPublish \/ StartSubscribe
  BY <1>6
     DEF StartPublish, P!Start, P!BeginStart, P!BuildAndStart, P!MarkStarted,
         P!WaitReturns, StartSubscribe, S!Start, S!BeginStart, S!BuildAndStart,
         S!MarkStarted, S!WaitReturns, futureVars, flagVars, ownedVars, runVars,
         serverVars, publishVars, subscribeVars, Places, Phases, LifeInv
<1>7. CASE Interrupt
  <2>1. /\ main' = main /\ exit' = exit /\ mDatabase' = mDatabase
        /\ processor' = processor /\ cleaner' = cleaner /\ crashed' = crashed
    BY <1>7 DEF Interrupt, futureVars, ownedVars
  <2>. QED BY <2>1 DEF Places, LifeInv
<1>8. CASE PickProcessor
  BY <1>8
     DEF PickProcessor, ProcessorTurns, ProcessorSleeps, ProcessorAdds,
         ProcessorAdded, ProcessorEnqueues, ProcessorEnqueued, Processor,
         futureVars, flagVars, ownedVars, runVars, serverVars, publishVars,
         subscribeVars, Places, Phases, LifeInv
<1>9. CASE DatabaseCleaner
  BY <1>9
     DEF DatabaseCleaner, CleanerTurns, CleanerLooks, CleanerDeletes,
         CleanerDeleted, DeleteFails, CleanerTests, CleanerBlocks, CleanerTimesOut,
         Cleaner, futureVars, flagVars, ownedVars, runVars, serverVars, publishVars,
         subscribeVars, Places, Phases, LifeInv
<1>10. CASE ServerMissing \/ ServerFaults \/ ProcessorFaults \/ CleanerFaults
  BY <1>10
     DEF ServerMissing, PortIsTaken, ServerFaults, ProcessorFaults, CleanerFaults,
         Fault, futureVars, flagVars, ownedVars, runVars, serverVars, publishVars,
         subscribeVars, Places, Phases, LifeInv
<1>11. CASE UNCHANGED vars
  <2>1. /\ main' = main /\ exit' = exit /\ mDatabase' = mDatabase
        /\ processor' = processor /\ cleaner' = cleaner /\ crashed' = crashed
    BY <1>11 DEF vars, futureVars, ownedVars, runVars
  <2>. QED BY <2>1 DEF Places, LifeInv
<1>. QED BY <1>1, <1>2, <1>3, <1>4, <1>5, <1>6, <1>7, <1>8, <1>9, <1>10, <1>11 DEF Next, Step, MainThread

LEMMA FlagsNext == ASSUME LifeInv, [Next]_vars PROVE Flags'
<1>1. CASE StartBroker \/ HandleInterrupt \/ CheckFuturesOkay \/ LowerKeepRunning \/
          RequestShutdown \/ Notify
  BY <1>1
     DEF StartBroker, HandleInterrupt, CheckFuturesOkay, LowerKeepRunning,
         RequestShutdown, Notify, MainGoes, futureVars, flagVars, ownedVars,
         runVars, serverVars, publishVars, subscribeVars, Flags, LifeInv
<1>2. CASE DestroyPublish \/ FreePublish \/ DestroySubscribe \/ FreeSubscribe
  BY <1>2
     DEF DestroyPublish, FreePublish, DestroySubscribe, FreeSubscribe, MainGoes,
         futureVars, flagVars, ownedVars, runVars, serverVars, publishVars,
         subscribeVars, Flags, LifeInv
<1>3. CASE CloseDatabase \/ DestroyDatabase \/ Join \/ End
  BY <1>3
     DEF CloseDatabase, DestroyDatabase, Join, End, MainGoes, futureVars, flagVars,
         ownedVars, runVars, serverVars, publishVars, subscribeVars, Flags, LifeInv
<1>4. CASE StopPublish \/ StopSubscribe
  BY <1>4
     DEF StopPublish, P!Stop, P!BeginStop, P!Shutdown, P!NothingToShutDown,
         P!ShutdownReturns, P!ResetCount, StopSubscribe, S!Stop, S!BeginStop,
         S!Shutdown, S!NothingToShutDown, S!ShutdownReturns, S!ResetCount, MainGoes,
         futureVars, flagVars, ownedVars, runVars, serverVars, publishVars,
         subscribeVars, Flags, LifeInv
<1>5. CASE StartPublish \/ StartSubscribe
  BY <1>5
     DEF StartPublish, P!Start, P!BeginStart, P!BuildAndStart, P!MarkStarted,
         P!WaitReturns, StartSubscribe, S!Start, S!BeginStart, S!BuildAndStart,
         S!MarkStarted, S!WaitReturns, futureVars, flagVars, ownedVars, runVars,
         serverVars, publishVars, subscribeVars, Flags, LifeInv
<1>6. CASE Interrupt
  BY <1>6
     DEF Interrupt, futureVars, flagVars, ownedVars, runVars, serverVars,
         publishVars, subscribeVars, Flags, LifeInv
<1>7. CASE PickProcessor
  BY <1>7
     DEF PickProcessor, ProcessorTurns, ProcessorSleeps, ProcessorAdds,
         ProcessorAdded, ProcessorEnqueues, ProcessorEnqueued, Processor,
         futureVars, flagVars, ownedVars, runVars, serverVars, publishVars,
         subscribeVars, Flags, LifeInv
<1>8. CASE DatabaseCleaner
  BY <1>8
     DEF DatabaseCleaner, CleanerTurns, CleanerLooks, CleanerDeletes,
         CleanerDeleted, DeleteFails, CleanerTests, CleanerBlocks, CleanerTimesOut,
         Cleaner, futureVars, flagVars, ownedVars, runVars, serverVars, publishVars,
         subscribeVars, Flags, LifeInv
<1>9. CASE ServerMissing \/ ServerFaults \/ ProcessorFaults \/ CleanerFaults
  BY <1>9
     DEF ServerMissing, PortIsTaken, ServerFaults, ProcessorFaults, CleanerFaults,
         Fault, futureVars, flagVars, ownedVars, runVars, serverVars, publishVars,
         subscribeVars, Flags, LifeInv
<1>10. CASE UNCHANGED vars
  BY <1>10
     DEF vars, futureVars, flagVars, ownedVars, runVars, serverVars, publishVars,
         subscribeVars, Flags, LifeInv
<1>. QED BY <1>1, <1>2, <1>3, <1>4, <1>5, <1>6, <1>7, <1>8, <1>9, <1>10 DEF Next, Step, MainThread

LEMMA SetsNext == ASSUME LifeInv, [Next]_vars PROVE Sets'
<1>1. CASE StartBroker \/ HandleInterrupt \/ CheckFuturesOkay \/ LowerKeepRunning \/
          RequestShutdown \/ Notify
  BY <1>1
     DEF StartBroker, HandleInterrupt, CheckFuturesOkay, LowerKeepRunning,
         RequestShutdown, Notify, MainGoes, futureVars, flagVars, ownedVars,
         runVars, serverVars, publishVars, subscribeVars, Sets, LifeInv
<1>2. CASE DestroyPublish \/ FreePublish \/ DestroySubscribe \/ FreeSubscribe
  BY <1>2
     DEF DestroyPublish, FreePublish, DestroySubscribe, FreeSubscribe, MainGoes,
         futureVars, flagVars, ownedVars, runVars, serverVars, publishVars,
         subscribeVars, Sets, LifeInv
<1>3. CASE CloseDatabase \/ End
  BY <1>3
     DEF CloseDatabase, End, MainGoes, futureVars, flagVars, ownedVars, runVars,
         serverVars, publishVars, subscribeVars, Sets, LifeInv
<1>4. CASE DestroyDatabase
  <2>1. JoinOrder \in Seq(Futures)
    <3>1. /\ "publish" \in Futures /\ "processor" \in Futures
          /\ "subscribe" \in Futures /\ "cleaner" \in Futures
      BY DEF Futures
    <3>. QED BY <3>1 DEF JoinOrder
  <2>. QED BY <1>4, <2>1 DEF DestroyDatabase, MainGoes, Sets, LifeInv
<1>5. CASE Join
  <2>1. Tail(joining) \in Seq(Futures)
    BY <1>5 DEF Join, LifeInv, Sets
  <2>. QED BY <1>5, <2>1 DEF Join, MainGoes, ownedVars, Sets, LifeInv
<1>6. CASE StopPublish \/ StopSubscribe
  BY <1>6
     DEF StopPublish, P!Stop, P!BeginStop, P!Shutdown, P!NothingToShutDown,
         P!ShutdownReturns, P!ResetCount, StopSubscribe, S!Stop, S!BeginStop,
         S!Shutdown, S!NothingToShutDown, S!ShutdownReturns, S!ResetCount, MainGoes,
         futureVars, flagVars, ownedVars, runVars, serverVars, publishVars,
         subscribeVars, Sets, LifeInv
<1>7. CASE StartPublish \/ StartSubscribe
  BY <1>7
     DEF StartPublish, P!Start, P!BeginStart, P!BuildAndStart, P!MarkStarted,
         P!WaitReturns, StartSubscribe, S!Start, S!BeginStart, S!BuildAndStart,
         S!MarkStarted, S!WaitReturns, futureVars, flagVars, ownedVars, runVars,
         serverVars, publishVars, subscribeVars, Sets, LifeInv
<1>8. CASE Interrupt
  BY <1>8
     DEF Interrupt, futureVars, flagVars, ownedVars, runVars, serverVars,
         publishVars, subscribeVars, Sets, LifeInv
<1>9. CASE PickProcessor
  BY <1>9
     DEF PickProcessor, ProcessorTurns, ProcessorSleeps, ProcessorAdds,
         ProcessorAdded, ProcessorEnqueues, ProcessorEnqueued, Processor,
         futureVars, flagVars, ownedVars, runVars, serverVars, publishVars,
         subscribeVars, Sets, LifeInv
<1>10. CASE DatabaseCleaner
  BY <1>10
     DEF DatabaseCleaner, CleanerTurns, CleanerLooks, CleanerDeletes,
         CleanerDeleted, DeleteFails, CleanerTests, CleanerBlocks, CleanerTimesOut,
         Cleaner, futureVars, flagVars, ownedVars, runVars, serverVars, publishVars,
         subscribeVars, Sets, LifeInv
<1>11. CASE ServerMissing \/ ServerFaults \/ ProcessorFaults \/ CleanerFaults
  BY <1>11
     DEF ServerMissing, PortIsTaken, ServerFaults, ProcessorFaults, CleanerFaults,
         Fault, futureVars, flagVars, ownedVars, runVars, serverVars, publishVars,
         subscribeVars, Sets, LifeInv
<1>12. CASE UNCHANGED vars
  BY <1>12
     DEF vars, futureVars, flagVars, ownedVars, runVars, serverVars, publishVars,
         subscribeVars, Sets, LifeInv
<1>. QED BY <1>1, <1>2, <1>3, <1>4, <1>5, <1>6, <1>7, <1>8, <1>9, <1>10, <1>11,
            <1>12 DEF Next, Step, MainThread

LEMMA ServersKept == ASSUME ServersTyped, UNCHANGED serverVars PROVE ServersTyped'
<1>1. P!ServerTypeOK'
  BY DEF ServersTyped, P!ServerTypeOK, serverVars, publishVars
<1>2. S!ServerTypeOK'
  BY DEF ServersTyped, S!ServerTypeOK, serverVars, subscribeVars
<1>. QED BY <1>1, <1>2 DEF ServersTyped

LEMMA ServersTypedNext == ASSUME LifeInv, [Next]_vars PROVE ServersTyped'
<1>1. CASE UNCHANGED serverVars
  BY <1>1, ServersKept DEF LifeInv
<1>2. CASE StopPublish \/ StartPublish \/ DestroyPublish
  <2>1. S!ServerTypeOK'
    BY <1>2 DEF StopPublish, StartPublish, DestroyPublish, subscribeVars, S!ServerTypeOK,
           ServersTyped, LifeInv
  <2>2. pServer' \in {"none", "serving", "shutting_down", "shut_down"}
        /\ pStarter' \in {"called", "building", "built", "waiting", "returned"}
        /\ pStopper' \in {"none", "pausing", "draining", "resetting", "stopped"}
    BY <1>2
       DEF StopPublish, StartPublish, DestroyPublish, P!Stop, P!BeginStop,
           P!Shutdown, P!NothingToShutDown, P!ShutdownReturns, P!ResetCount,
           P!Start, P!BeginStart, P!BuildAndStart, P!MarkStarted, P!WaitReturns,
           P!ServerTypeOK, ServersTyped, LifeInv
  <2>3. pKeepRunning' \in BOOLEAN /\ pServerStarted' \in BOOLEAN
    BY <1>2
       DEF StopPublish, StartPublish, DestroyPublish, P!Stop, P!BeginStop,
           P!Shutdown, P!NothingToShutDown, P!ShutdownReturns, P!ResetCount,
           P!Start, P!BeginStart, P!BuildAndStart, P!MarkStarted, P!WaitReturns,
           P!ServerTypeOK, ServersTyped, LifeInv
  <2>4. 0 \in Int
    OBVIOUS
  <2>5. P!ServerTypeOK'
    BY <2>2, <2>3, <2>4 DEF P!ServerTypeOK
  <2>. QED BY <2>1, <2>5 DEF ServersTyped
<1>3. CASE StopSubscribe \/ StartSubscribe \/ DestroySubscribe
  <2>1. P!ServerTypeOK'
    BY <1>3 DEF StopSubscribe, StartSubscribe, DestroySubscribe, publishVars, P!ServerTypeOK,
           ServersTyped, LifeInv
  <2>2. sServer' \in {"none", "serving", "shutting_down", "shut_down"}
        /\ sStarter' \in {"called", "building", "built", "waiting", "returned"}
        /\ sStopper' \in {"none", "pausing", "draining", "resetting", "stopped"}
    BY <1>3
       DEF StopSubscribe, StartSubscribe, DestroySubscribe, S!Stop, S!BeginStop,
           S!Shutdown, S!NothingToShutDown, S!ShutdownReturns, S!ResetCount,
           S!Start, S!BeginStart, S!BuildAndStart, S!MarkStarted, S!WaitReturns,
           S!ServerTypeOK, ServersTyped, LifeInv
  <2>3. sKeepRunning' \in BOOLEAN /\ sServerStarted' \in BOOLEAN
    BY <1>3
       DEF StopSubscribe, StartSubscribe, DestroySubscribe, S!Stop, S!BeginStop,
           S!Shutdown, S!NothingToShutDown, S!ShutdownReturns, S!ResetCount,
           S!Start, S!BeginStart, S!BuildAndStart, S!MarkStarted, S!WaitReturns,
           S!ServerTypeOK, ServersTyped, LifeInv
  <2>4. 0 \in Int
    OBVIOUS
  <2>5. S!ServerTypeOK'
    BY <2>2, <2>3, <2>4 DEF S!ServerTypeOK
  <2>. QED BY <2>1, <2>5 DEF ServersTyped
<1>4. ASSUME MainThread PROVE UNCHANGED serverVars \/ StopPublish \/ StopSubscribe
                                      \/ DestroyPublish \/ DestroySubscribe
  BY <1>4
     DEF MainThread, StartBroker, HandleInterrupt, CheckFuturesOkay,
         LowerKeepRunning, RequestShutdown, Notify, FreePublish, FreeSubscribe,
         CloseDatabase, DestroyDatabase, Join, End
<1>5. PickProcessor \/ DatabaseCleaner => UNCHANGED serverVars
  BY DEF PickProcessor, ProcessorTurns, ProcessorSleeps, ProcessorAdds,
         ProcessorAdded, ProcessorEnqueues, ProcessorEnqueued, Processor,
         DatabaseCleaner, CleanerTurns, CleanerLooks, CleanerDeletes,
         CleanerDeleted, DeleteFails, CleanerTests, CleanerBlocks, CleanerTimesOut,
         Cleaner
<1>6. Interrupt \/ ServerMissing \/ ServerFaults \/ ProcessorFaults \/ CleanerFaults
        => UNCHANGED serverVars
  BY DEF Interrupt, ServerMissing, PortIsTaken, ServerFaults, ProcessorFaults, CleanerFaults,
         Fault
<1>. QED BY <1>1, <1>2, <1>3, <1>4, <1>5, <1>6 DEF Next, Step, vars

-----------------------------------------------------------------------------
(* What each kind of step leaves alone.                                    *)

ThreadStep ==
    \/ PickProcessor \/ DatabaseCleaner \/ Interrupt
    \/ ServerMissing \/ ServerFaults \/ ProcessorFaults \/ CleanerFaults
    \/ UNCHANGED vars

WatchStep ==
    \/ StartBroker \/ HandleInterrupt \/ CheckFuturesOkay
    \/ LowerKeepRunning \/ RequestShutdown \/ Notify

CloseStep == CloseDatabase \/ DestroyDatabase \/ Join \/ End

LEMMA StepKinds ==
    ASSUME [Next]_vars
    PROVE  \/ ThreadStep \/ WatchStep \/ CloseStep \/ StartPublish \/ StartSubscribe
           \/ StopPublish \/ DestroyPublish \/ FreePublish
           \/ StopSubscribe \/ DestroySubscribe \/ FreeSubscribe
BY DEF Next, Step, MainThread, ThreadStep, WatchStep, CloseStep

LEMMA ThreadFrame ==
    ASSUME ThreadStep
    PROVE  /\ UNCHANGED main /\ UNCHANGED mKeepRunning /\ UNCHANGED ownedVars
           /\ UNCHANGED timeVars /\ UNCHANGED serverVars
<1>1. CASE PickProcessor \/ ProcessorFaults
  BY <1>1 DEF PickProcessor, ProcessorTurns, ProcessorSleeps, ProcessorAdds, ProcessorAdded,
         ProcessorEnqueues, ProcessorEnqueued, Processor, ProcessorFaults, Fault, flagVars
<1>2. CASE DatabaseCleaner \/ CleanerFaults
  BY <1>2 DEF DatabaseCleaner, CleanerTurns, CleanerLooks, CleanerDeletes, CleanerDeleted,
         DeleteFails, CleanerTests, CleanerBlocks, CleanerTimesOut, Cleaner, CleanerFaults,
         Fault, flagVars
<1>3. CASE Interrupt \/ ServerMissing \/ ServerFaults
  BY <1>3 DEF Interrupt, ServerMissing, PortIsTaken, ServerFaults, Fault, flagVars
<1>4. CASE UNCHANGED vars
  BY <1>4 DEF vars, flagVars
<1>. QED BY <1>1, <1>2, <1>3, <1>4 DEF ThreadStep

LEMMA WatchFrame ==
    ASSUME WatchStep
    PROVE  /\ main \notin Late \ {"request", "notify"}
           /\ main' \in {"watch", "lower", "request", "notify", "stop_publish"}
           /\ main' = "stop_publish" => main = "notify"
           /\ UNCHANGED ownedVars /\ UNCHANGED timeVars /\ UNCHANGED serverVars
           /\ UNCHANGED processor /\ UNCHANGED crashed
           /\ cleaner' = cleaner \/ cleaner' = "testing"
BY DEF WatchStep, StartBroker, HandleInterrupt, CheckFuturesOkay, LowerKeepRunning,
       RequestShutdown, Notify, MainGoes, runVars, Late, Closing

LEMMA CloseFrame ==
    ASSUME CloseStep
    PROVE  /\ main \in Closing /\ main' \in Closing
           /\ UNCHANGED mKeepRunning /\ UNCHANGED held /\ UNCHANGED alive
           /\ UNCHANGED timeVars /\ UNCHANGED serverVars
           /\ UNCHANGED processor /\ UNCHANGED cleaner /\ UNCHANGED crashed
BY DEF CloseStep, CloseDatabase, DestroyDatabase, Join, End, MainGoes, runVars, Closing,
       flagVars, ownedVars

LEMMA StartPublishFrame ==
    ASSUME StartPublish
    PROVE  /\ UNCHANGED main /\ UNCHANGED mKeepRunning /\ UNCHANGED ownedVars
           /\ UNCHANGED timeVars /\ UNCHANGED subscribeVars /\ UNCHANGED pStopper
           /\ UNCHANGED processor /\ UNCHANGED cleaner /\ UNCHANGED crashed
           /\ "publish" \in alive
           /\ \/ /\ pStarter = "called" /\ pStarter' = "building"
                 /\ UNCHANGED <<pServer, pServerStarted>>
              \/ /\ pStarter = "building" /\ pStarter' = "built"
                 /\ pServer' = "serving" /\ UNCHANGED pServerStarted
              \/ /\ pStarter = "built" /\ pStarter' = "waiting"
                 /\ pServerStarted' = TRUE /\ UNCHANGED pServer
              \/ /\ pStarter = "waiting" /\ pStarter' = "returned" /\ pServer = "shut_down"
                 /\ pServerStarted' = FALSE /\ UNCHANGED pServer
BY DEF StartPublish, P!Start, P!BeginStart, P!BuildAndStart, P!MarkStarted, P!WaitReturns,
       flagVars, runVars

LEMMA StartSubscribeFrame ==
    ASSUME StartSubscribe
    PROVE  /\ UNCHANGED main /\ UNCHANGED mKeepRunning /\ UNCHANGED ownedVars
           /\ UNCHANGED timeVars /\ UNCHANGED publishVars /\ UNCHANGED sStopper
           /\ UNCHANGED processor /\ UNCHANGED cleaner /\ UNCHANGED crashed
           /\ "subscribe" \in alive
           /\ \/ /\ sStarter = "called" /\ sStarter' = "building"
                 /\ UNCHANGED <<sServer, sServerStarted>>
              \/ /\ sStarter = "building" /\ sStarter' = "built"
                 /\ sServer' = "serving" /\ UNCHANGED sServerStarted
              \/ /\ sStarter = "built" /\ sStarter' = "waiting"
                 /\ sServerStarted' = TRUE /\ UNCHANGED sServer
              \/ /\ sStarter = "waiting" /\ sStarter' = "returned" /\ sServer = "shut_down"
                 /\ sServerStarted' = FALSE /\ UNCHANGED sServer
BY DEF StartSubscribe, S!Start, S!BeginStart, S!BuildAndStart, S!MarkStarted, S!WaitReturns,
       flagVars, runVars

\* Of the steps of stop() of a service only the end of its pause takes time.
StopSteps(f, server, server1, started, started1, stopper, stopper1) ==
    \/ /\ stopper = "none" /\ stopper1 = "pausing"
       /\ server1 = server /\ started1 = started /\ UNCHANGED <<paused, shutAt>>
    \/ /\ stopper = "pausing" /\ stopper1 = "draining"
       /\ server = "serving" /\ started /\ server1 = "shutting_down" /\ started1 = started
       /\ paused' = paused + 10 /\ UNCHANGED shutAt /\ ~ IsLate(paused')
    \/ /\ stopper = "pausing" /\ stopper1 = "resetting"
       /\ ~ (server = "serving" /\ started) /\ server1 = server /\ started1 = started
       /\ paused' = paused + 10 /\ UNCHANGED shutAt /\ ~ IsLate(paused')
    \/ /\ stopper = "draining" /\ stopper1 = "resetting"
       /\ server1 = "shut_down" /\ ~ started1
       /\ paused' = paused
       /\ shutAt' = IF server1 # server THEN [shutAt EXCEPT ![f] = paused] ELSE shutAt
    \/ /\ stopper = "resetting" /\ stopper1 = "stopped"
       /\ server1 = server /\ started1 = started /\ UNCHANGED <<paused, shutAt>>

LEMMA StopPublishFrame ==
    ASSUME StopPublish
    PROVE  /\ main \in {"stop_publish", "destroy_publish"}
           /\ main' = IF pStopper' # "stopped" THEN main
                      ELSE IF main = "stop_publish" THEN "leave_publish"
                      ELSE "free_publish"
           /\ UNCHANGED mKeepRunning /\ UNCHANGED ownedVars /\ UNCHANGED slowest
           /\ UNCHANGED subscribeVars /\ UNCHANGED pStarter
           /\ UNCHANGED processor /\ UNCHANGED cleaner /\ UNCHANGED crashed
           /\ StopSteps("publish", pServer, pServer', pServerStarted, pServerStarted',
                        pStopper, pStopper')
<1>1. /\ main \in {"stop_publish", "destroy_publish"}
      /\ main' = IF pStopper' # "stopped" THEN main
                 ELSE IF main = "stop_publish" THEN "leave_publish"
                 ELSE "free_publish"
      /\ UNCHANGED processor /\ UNCHANGED cleaner /\ UNCHANGED crashed
      /\ UNCHANGED mKeepRunning /\ UNCHANGED ownedVars /\ UNCHANGED subscribeVars
  BY DEF StopPublish, MainGoes, flagVars, runVars
<1>2. UNCHANGED slowest
  BY DEF StopPublish, PausedStop, Pause
<1>3. CASE P!BeginStop
  BY <1>1, <1>2, <1>3 DEF StopPublish, P!BeginStop, PausedStop, StopSteps
<1>4. CASE P!Shutdown
  BY <1>1, <1>2, <1>4 DEF StopPublish, P!Shutdown, PausedStop, Pause, StopPause, StopSteps
<1>5. CASE P!NothingToShutDown
  BY <1>1, <1>2, <1>5 DEF StopPublish, P!NothingToShutDown, PausedStop, Pause, StopPause, StopSteps
<1>6. CASE P!ShutdownReturns({})
  BY <1>1, <1>2, <1>6 DEF StopPublish, P!ShutdownReturns, PausedStop, StopSteps
<1>7. CASE P!ResetCount
  BY <1>1, <1>2, <1>7 DEF StopPublish, P!ResetCount, PausedStop, StopSteps
<1>. QED BY <1>3, <1>4, <1>5, <1>6, <1>7 DEF StopPublish, P!Stop

LEMMA StopSubscribeFrame ==
    ASSUME StopSubscribe
    PROVE  /\ main \in {"stop_subscribe", "destroy_subscribe"}
           /\ main' = IF sStopper' # "stopped" THEN main
                      ELSE IF main = "stop_subscribe" THEN "leave_subscribe"
                      ELSE "free_subscribe"
           /\ UNCHANGED mKeepRunning /\ UNCHANGED ownedVars /\ UNCHANGED slowest
           /\ UNCHANGED publishVars /\ UNCHANGED sStarter
           /\ UNCHANGED processor /\ UNCHANGED cleaner /\ UNCHANGED crashed
           /\ StopSteps("subscribe", sServer, sServer', sServerStarted, sServerStarted',
                        sStopper, sStopper')
<1>1. /\ main \in {"stop_subscribe", "destroy_subscribe"}
      /\ main' = IF sStopper' # "stopped" THEN main
                 ELSE IF main = "stop_subscribe" THEN "leave_subscribe"
                 ELSE "free_subscribe"
      /\ UNCHANGED processor /\ UNCHANGED cleaner /\ UNCHANGED crashed
      /\ UNCHANGED mKeepRunning /\ UNCHANGED ownedVars /\ UNCHANGED publishVars
  BY DEF StopSubscribe, MainGoes, flagVars, runVars
<1>2. UNCHANGED slowest
  BY DEF StopSubscribe, PausedStop, Pause
<1>3. CASE S!BeginStop
  BY <1>1, <1>2, <1>3 DEF StopSubscribe, S!BeginStop, PausedStop, StopSteps
<1>4. CASE S!Shutdown
  BY <1>1, <1>2, <1>4 DEF StopSubscribe, S!Shutdown, PausedStop, Pause, StopPause, StopSteps
<1>5. CASE S!NothingToShutDown
  BY <1>1, <1>2, <1>5 DEF StopSubscribe, S!NothingToShutDown, PausedStop, Pause, StopPause, StopSteps
<1>6. CASE S!ShutdownReturns({})
  BY <1>1, <1>2, <1>6 DEF StopSubscribe, S!ShutdownReturns, PausedStop, StopSteps
<1>7. CASE S!ResetCount
  BY <1>1, <1>2, <1>7 DEF StopSubscribe, S!ResetCount, PausedStop, StopSteps
<1>. QED BY <1>3, <1>4, <1>5, <1>6, <1>7 DEF StopSubscribe, S!Stop

\* The destruction of a service: its pointer first, itself in the end.
LEMMA DestroyPublishFrame ==
    ASSUME DestroyPublish
    PROVE  /\ main = "leave_publish" /\ main' = "destroy_publish"
           /\ paused' = paused + 15 /\ ~ IsLate(paused') /\ UNCHANGED <<slowest, shutAt>>
           /\ held' = held \ {"publish"} /\ UNCHANGED alive /\ UNCHANGED mDatabase
           /\ pStopper' = "none" /\ UNCHANGED <<pServer, pServerStarted, pStarter>>
           /\ UNCHANGED mKeepRunning /\ UNCHANGED subscribeVars
           /\ UNCHANGED processor /\ UNCHANGED cleaner /\ UNCHANGED crashed
BY DEF DestroyPublish, Pause, BrokerPause, MainGoes, flagVars, runVars

LEMMA FreePublishFrame ==
    ASSUME FreePublish
    PROVE  /\ main = "free_publish" /\ main' = "stop_subscribe"
           /\ paused' = paused + 25 /\ ~ IsLate(paused') /\ UNCHANGED <<slowest, shutAt>>
           /\ alive' = alive \ {"publish"} /\ UNCHANGED held /\ UNCHANGED mDatabase
           /\ UNCHANGED mKeepRunning /\ UNCHANGED serverVars
           /\ UNCHANGED processor /\ UNCHANGED cleaner /\ UNCHANGED crashed
BY DEF FreePublish, Pause, DestructorPause, MainGoes, flagVars, runVars

LEMMA DestroySubscribeFrame ==
    ASSUME DestroySubscribe
    PROVE  /\ main = "leave_subscribe" /\ main' = "destroy_subscribe"
           /\ paused' = paused + 15 /\ ~ IsLate(paused') /\ UNCHANGED <<slowest, shutAt>>
           /\ held' = held \ {"subscribe"} /\ UNCHANGED alive /\ UNCHANGED mDatabase
           /\ sStopper' = "none" /\ UNCHANGED <<sServer, sServerStarted, sStarter>>
           /\ UNCHANGED mKeepRunning /\ UNCHANGED publishVars
           /\ UNCHANGED processor /\ UNCHANGED cleaner /\ UNCHANGED crashed
BY DEF DestroySubscribe, Pause, BrokerPause, MainGoes, flagVars, runVars

LEMMA FreeSubscribeFrame ==
    ASSUME FreeSubscribe
    PROVE  /\ main = "free_subscribe" /\ main' = "close"
           /\ paused' = paused + 25 /\ ~ IsLate(paused') /\ UNCHANGED <<slowest, shutAt>>
           /\ alive' = alive \ {"subscribe"} /\ UNCHANGED held /\ UNCHANGED mDatabase
           /\ UNCHANGED mKeepRunning /\ UNCHANGED serverVars
           /\ UNCHANGED processor /\ UNCHANGED cleaner /\ UNCHANGED crashed
BY DEF FreeSubscribe, Pause, DestructorPause, MainGoes, flagVars, runVars

LEMMA TimesNext == ASSUME LifeInv, [Next]_vars PROVE Times'
<1>1. Times /\ 10 \in Nat /\ 15 \in Nat /\ 25 \in Nat
  BY DEF LifeInv
<1>2. CASE UNCHANGED timeVars
  BY <1>1, <1>2 DEF timeVars, Times
<1>3. CASE DestroyPublish \/ FreePublish \/ DestroySubscribe \/ FreeSubscribe
  BY <1>1, <1>3, DestroyPublishFrame, FreePublishFrame, DestroySubscribeFrame,
     FreeSubscribeFrame DEF Times
<1>4. CASE StopPublish
  BY <1>1, <1>4, StopPublishFrame DEF StopSteps, Times
<1>5. CASE StopSubscribe
  BY <1>1, <1>5, StopSubscribeFrame DEF StopSteps, Times
<1>. QED BY <1>2, <1>3, <1>4, <1>5, StepKinds, ThreadFrame, WatchFrame, CloseFrame,
         StartPublishFrame, StartSubscribeFrame

LEMMA SlowestStays == ASSUME [Next]_vars PROVE slowest' = slowest
BY StepKinds, ThreadFrame, WatchFrame, CloseFrame, StartPublishFrame, StartSubscribeFrame,
   StopPublishFrame, DestroyPublishFrame, FreePublishFrame, StopSubscribeFrame,
   DestroySubscribeFrame, FreeSubscribeFrame DEF timeVars

-----------------------------------------------------------------------------
(* Every step keeps the order of stop(), and its time.                     *)

LEMMA LoweredNext == ASSUME LifeInv, [Next]_vars PROVE Lowered'
<1>1. Lowered
  BY DEF LifeInv, OrderInv
<1>2. CASE WatchStep
  BY <1>1, <1>2 DEF WatchStep, StartBroker, HandleInterrupt, CheckFuturesOkay,
        LowerKeepRunning, RequestShutdown, Notify, MainGoes, flagVars, Lowered, Late, Closing
<1>3. CASE ThreadStep \/ StartPublish \/ StartSubscribe
  BY <1>1, <1>3, ThreadFrame, StartPublishFrame, StartSubscribeFrame DEF Lowered
<1>4. CASE CloseStep
  BY <1>1, <1>4, CloseFrame DEF Lowered, Late
<1>5. CASE StopPublish \/ StopSubscribe
  BY <1>1, <1>5, StopPublishFrame, StopSubscribeFrame DEF Lowered, Late
<1>6. CASE DestroyPublish \/ FreePublish \/ DestroySubscribe \/ FreeSubscribe
  BY <1>1, <1>6, DestroyPublishFrame, FreePublishFrame, DestroySubscribeFrame,
     FreeSubscribeFrame DEF Lowered, Late
<1>. QED BY <1>2, <1>3, <1>4, <1>5, <1>6, StepKinds

LEMMA PacedNext == ASSUME LifeInv, [Next]_vars PROVE Paced'
<1>1. Paced /\ paused \in Nat
  BY SlowestTyped DEF LifeInv, OrderInv
<1>2. CASE ThreadStep
  BY <1>1, <1>2, ThreadFrame
     DEF Paced, Lapse, Stoppers, timeVars, serverVars, publishVars, subscribeVars
<1>3. CASE StartPublish \/ StartSubscribe
  BY <1>1, <1>3, StartPublishFrame, StartSubscribeFrame
     DEF Paced, Lapse, Stoppers, timeVars, publishVars, subscribeVars
<1>4. CASE WatchStep
  <2>1. /\ pStopper' = pStopper /\ sStopper' = sStopper /\ paused' = paused
    BY <1>4, WatchFrame DEF timeVars, serverVars, publishVars, subscribeVars
  <2>2. paused = 0 /\ pStopper = "none" /\ sStopper = "none"
    BY <1>1, <1>4, WatchFrame DEF Paced, Lapse, Stoppers, Late, Closing
  <2>. QED BY <1>4, <2>1, <2>2, WatchFrame DEF Paced, Lapse, Stoppers, Late, Closing, Looked
<1>5. CASE CloseStep
  BY <1>1, <1>5, CloseFrame
     DEF Paced, Lapse, Stoppers, Late, Closing, timeVars, serverVars, publishVars, subscribeVars
<1>6. CASE StopPublish
  BY <1>1, <1>6, StopPublishFrame
     DEF Paced, Lapse, Stoppers, Late, Closing, StopSteps, subscribeVars, Looked
<1>7. CASE StopSubscribe
  BY <1>1, <1>7, StopSubscribeFrame
     DEF Paced, Lapse, Stoppers, Late, Closing, StopSteps, publishVars, Looked
<1>8. CASE DestroyPublish \/ FreePublish
  BY <1>1, <1>8, DestroyPublishFrame, FreePublishFrame
     DEF Paced, Lapse, Stoppers, Late, Closing, serverVars, publishVars, subscribeVars, Looked
<1>9. CASE DestroySubscribe \/ FreeSubscribe
  BY <1>1, <1>9, DestroySubscribeFrame, FreeSubscribeFrame
     DEF Paced, Lapse, Stoppers, Late, Closing, serverVars, publishVars, subscribeVars, Looked
<1>. QED BY <1>2, <1>3, <1>4, <1>5, <1>6, <1>7, <1>8, <1>9, StepKinds

LEMMA GoneNext == ASSUME LifeInv, [Next]_vars PROVE Gone'
<1>1. Gone /\ Paced /\ Paced' /\ paused \in Nat /\ paused' \in Nat
  BY PacedNext, TimesNext DEF LifeInv, OrderInv, Times
<1>2. CASE ThreadStep \/ StartPublish \/ StartSubscribe
  BY <1>1, <1>2, ThreadFrame, StartPublishFrame, StartSubscribeFrame
     DEF Gone, timeVars, ownedVars
<1>3. CASE WatchStep
  BY <1>1, <1>3, WatchFrame DEF Gone, timeVars, ownedVars, Late, Closing
<1>4. CASE CloseStep
  BY <1>1, <1>4, CloseFrame DEF Gone, timeVars
<1>5. CASE StopPublish \/ StopSubscribe
  <2>1. paused' >= paused /\ main \notin Closing
    BY <1>1, <1>5, StopPublishFrame, StopSubscribeFrame DEF StopSteps, Closing
  <2>. QED BY <1>1, <1>5, <2>1, StopPublishFrame, StopSubscribeFrame DEF Gone, ownedVars
<1>6. CASE DestroyPublish \/ DestroySubscribe
  <2>1. paused' >= paused /\ main \notin Closing
    BY <1>1, <1>6, DestroyPublishFrame, DestroySubscribeFrame DEF Closing
  <2>2. DestroySubscribe => paused' = 85
    BY <1>1, DestroySubscribeFrame DEF Paced, Lapse, Closing
  <2>. QED BY <1>1, <1>6, <2>1, <2>2, DestroyPublishFrame, DestroySubscribeFrame DEF Gone
<1>7. CASE FreePublish \/ FreeSubscribe
  <2>1. paused' >= paused /\ main \notin Closing
    BY <1>1, <1>7, FreePublishFrame, FreeSubscribeFrame DEF Closing
  <2>2. (FreePublish => paused' = 60) /\ (FreeSubscribe => paused' = 120)
    BY <1>1, FreePublishFrame, FreeSubscribeFrame DEF Paced, Lapse, Closing
  <2>. QED BY <1>1, <1>7, <2>1, <2>2, FreePublishFrame, FreeSubscribeFrame DEF Gone
<1>. QED BY <1>2, <1>3, <1>4, <1>5, <1>6, <1>7, StepKinds

LEMMA ServersAgreedNext == ASSUME LifeInv, [Next]_vars PROVE ServersAgreed'
<1>1. /\ ServersAgreed /\ Paced
      /\ pServerStarted \in BOOLEAN /\ sServerStarted \in BOOLEAN
  BY DEF LifeInv, OrderInv, ServersTyped, P!ServerTypeOK, S!ServerTypeOK
<1>2. CASE UNCHANGED serverVars
  BY <1>1, <1>2 DEF ServersAgreed, Agreed, serverVars, publishVars, subscribeVars
<1>3. CASE StartPublish
  <2>1. Agreed(sServer, sServerStarted, sStarter, sStopper)'
    BY <1>1, <1>3, StartPublishFrame DEF ServersAgreed, Agreed, subscribeVars
  <2>2. pStopper' = pStopper
    BY <1>3, StartPublishFrame
  <2>3. CASE pStarter = "called"
    BY <1>1, <1>3, <2>1, <2>2, <2>3, StartPublishFrame DEF ServersAgreed, Agreed
  <2>4. CASE pStarter = "building"
    BY <1>1, <1>3, <2>1, <2>2, <2>4, StartPublishFrame DEF ServersAgreed, Agreed
  <2>5. CASE pStarter = "built"
    BY <1>1, <1>3, <2>1, <2>2, <2>5, StartPublishFrame DEF ServersAgreed, Agreed
  <2>6. CASE pStarter = "waiting"
    BY <1>1, <1>3, <2>1, <2>2, <2>6, StartPublishFrame DEF ServersAgreed, Agreed
  <2>. QED BY <1>3, <2>3, <2>4, <2>5, <2>6, StartPublishFrame
<1>4. CASE StartSubscribe
  <2>1. Agreed(pServer, pServerStarted, pStarter, pStopper)'
    BY <1>1, <1>4, StartSubscribeFrame DEF ServersAgreed, Agreed, publishVars
  <2>2. sStopper' = sStopper
    BY <1>4, StartSubscribeFrame
  <2>3. CASE sStarter = "called"
    BY <1>1, <1>4, <2>1, <2>2, <2>3, StartSubscribeFrame DEF ServersAgreed, Agreed
  <2>4. CASE sStarter = "building"
    BY <1>1, <1>4, <2>1, <2>2, <2>4, StartSubscribeFrame DEF ServersAgreed, Agreed
  <2>5. CASE sStarter = "built"
    BY <1>1, <1>4, <2>1, <2>2, <2>5, StartSubscribeFrame DEF ServersAgreed, Agreed
  <2>6. CASE sStarter = "waiting"
    BY <1>1, <1>4, <2>1, <2>2, <2>6, StartSubscribeFrame DEF ServersAgreed, Agreed
  <2>. QED BY <1>4, <2>3, <2>4, <2>5, <2>6, StartSubscribeFrame
<1>5. CASE StopPublish
  BY <1>1, <1>5, StopPublishFrame DEF ServersAgreed, Agreed, StopSteps, subscribeVars
<1>6. CASE StopSubscribe
  BY <1>1, <1>6, StopSubscribeFrame DEF ServersAgreed, Agreed, StopSteps, publishVars
<1>7. CASE DestroyPublish
  <2>1. pStopper = "stopped"
    BY <1>1, <1>7, DestroyPublishFrame DEF Paced, Stoppers
  <2>. QED BY <1>1, <1>7, <2>1, DestroyPublishFrame DEF ServersAgreed, Agreed, subscribeVars
<1>8. CASE DestroySubscribe
  <2>1. sStopper = "stopped"
    BY <1>1, <1>8, DestroySubscribeFrame DEF Paced, Stoppers
  <2>. QED BY <1>1, <1>8, <2>1, DestroySubscribeFrame DEF ServersAgreed, Agreed, publishVars
<1>. QED BY <1>2, <1>3, <1>4, <1>5, <1>6, <1>7, <1>8, StepKinds, ThreadFrame, WatchFrame,
         CloseFrame, FreePublishFrame, FreeSubscribeFrame

LEMMA ShutInTimeNext == ASSUME LifeInv, [Next]_vars PROVE ShutInTime'
<1>1. /\ ShutInTime /\ Paced /\ paused \in Nat /\ paused' \in Nat
      /\ shutAt \in [Services -> Nat]
      /\ shutAt["publish"] \in Nat /\ shutAt["subscribe"] \in Nat
  BY SlowestTyped, TimesNext DEF LifeInv, OrderInv, Times
<1>2. CASE UNCHANGED timeVars
  BY <1>1, <1>2 DEF ShutInTime, timeVars
<1>3. CASE DestroyPublish \/ FreePublish \/ DestroySubscribe \/ FreeSubscribe
  <2>1. shutAt' = shutAt /\ paused' >= paused
    BY <1>1, <1>3, DestroyPublishFrame, FreePublishFrame, DestroySubscribeFrame, FreeSubscribeFrame
  <2>. QED BY <1>1, <2>1 DEF ShutInTime
<1>4. CASE StopPublish
  <2>1. CASE UNCHANGED shutAt
    <3>1. paused' >= paused
      BY <1>1, <1>4, StopPublishFrame DEF StopSteps
    <3>. QED BY <1>1, <2>1, <3>1 DEF ShutInTime
  <2>2. CASE shutAt' = [shutAt EXCEPT !["publish"] = paused] /\ paused' = paused
    <3>1. paused <= 35
      BY <1>1, <1>4, StopPublishFrame DEF Paced, Lapse, Closing, Looked
    <3>2. shutAt'["publish"] = paused /\ shutAt'["subscribe"] = shutAt["subscribe"]
      BY <1>1, <2>2 DEF Services
    <3>. QED BY <1>1, <2>2, <3>1, <3>2 DEF ShutInTime
  <2>. QED BY <1>4, <2>1, <2>2, StopPublishFrame DEF StopSteps
<1>5. CASE StopSubscribe
  <2>1. CASE UNCHANGED shutAt
    <3>1. paused' >= paused
      BY <1>1, <1>5, StopSubscribeFrame DEF StopSteps
    <3>. QED BY <1>1, <2>1, <3>1 DEF ShutInTime
  <2>2. CASE shutAt' = [shutAt EXCEPT !["subscribe"] = paused] /\ paused' = paused
    <3>1. paused <= 95
      BY <1>1, <1>5, StopSubscribeFrame DEF Paced, Lapse, Closing, Looked
    <3>2. shutAt'["subscribe"] = paused /\ shutAt'["publish"] = shutAt["publish"]
      BY <1>1, <2>2 DEF Services
    <3>. QED BY <1>1, <2>2, <3>1, <3>2 DEF ShutInTime
  <2>. QED BY <1>5, <2>1, <2>2, StopSubscribeFrame DEF StopSteps
<1>. QED BY <1>2, <1>3, <1>4, <1>5, StepKinds, ThreadFrame, WatchFrame, CloseFrame,
         StartPublishFrame, StartSubscribeFrame

\* A step of a thread, and of main() between its pauses, makes nothing late.
LEMMA OnTimeNext == ASSUME LifeInv, [Next]_vars PROVE OnTime'
<1>1. /\ OnTime /\ Paced /\ Lowered /\ ServersAgreed
      /\ paused \in Nat
      /\ slowest.starting \in Nat /\ slowest.returning \in Nat
      /\ slowest.processing \in Nat /\ slowest.cleaning \in Nat
      /\ shutAt["publish"] \in Nat /\ shutAt["subscribe"] \in Nat
  BY SlowestTyped DEF LifeInv, OrderInv
<1>2. main \notin Late => paused = 0
  BY <1>1 DEF Paced, Lapse, Late, Closing
<1>3. CASE paused = 0 /\ UNCHANGED timeVars
  BY <1>1, <1>3 DEF OnTime, IsLate, ServerIsLate, timeVars
<1>4. CASE PickProcessor /\ main \in Late
  <2>1. /\ processor' \in {"turn", "adding", "added", "enqueueing"}
             => processor \in {"turn", "adding", "added", "enqueueing"}
        /\ UNCHANGED timeVars /\ UNCHANGED serverVars /\ UNCHANGED cleaner
    BY <1>1, <1>4
       DEF PickProcessor, ProcessorTurns, ProcessorSleeps, ProcessorAdds, ProcessorAdded,
           ProcessorEnqueues, ProcessorEnqueued, Processor, Lowered
  <2>. QED BY <1>1, <2>1
        DEF OnTime, IsLate, ServerIsLate, timeVars, serverVars, publishVars, subscribeVars
<1>5. CASE DatabaseCleaner /\ main \in Late
  <2>1. /\ cleaner' \in {"looking", "dated", "deleting"}
             => cleaner \in {"looking", "dated", "deleting"}
        /\ UNCHANGED timeVars /\ UNCHANGED serverVars /\ UNCHANGED processor
    BY <1>1, <1>5
       DEF DatabaseCleaner, CleanerTurns, CleanerLooks, CleanerDeletes, CleanerDeleted,
           DeleteFails, CleanerTests, CleanerBlocks, CleanerTimesOut, Cleaner, Lowered
  <2>. QED BY <1>1, <2>1
        DEF OnTime, IsLate, ServerIsLate, timeVars, serverVars, publishVars, subscribeVars
<1>6. CASE UNCHANGED timeVars /\ UNCHANGED serverVars /\ UNCHANGED processor
           /\ (cleaner' = cleaner \/ cleaner' = "testing")
  BY <1>1, <1>6 DEF OnTime, IsLate, ServerIsLate, timeVars, serverVars, publishVars, subscribeVars
<1>7. CASE StartPublish
  <2>1. ~ ServerIsLate("publish", pStarter, pServer, paused)'
    BY <1>1, <1>7, StartPublishFrame
       DEF OnTime, IsLate, ServerIsLate, ServersAgreed, Agreed, timeVars
  <2>. QED BY <1>1, <1>7, <2>1, StartPublishFrame
        DEF OnTime, IsLate, ServerIsLate, timeVars, subscribeVars
<1>8. CASE StartSubscribe
  <2>1. ~ ServerIsLate("subscribe", sStarter, sServer, paused)'
    BY <1>1, <1>8, StartSubscribeFrame
       DEF OnTime, IsLate, ServerIsLate, ServersAgreed, Agreed, timeVars
  <2>. QED BY <1>1, <1>8, <2>1, StartSubscribeFrame
        DEF OnTime, IsLate, ServerIsLate, timeVars, publishVars
<1>9. CASE DestroyPublish \/ FreePublish \/ DestroySubscribe \/ FreeSubscribe
  BY <1>9, DestroyPublishFrame, FreePublishFrame, DestroySubscribeFrame, FreeSubscribeFrame
     DEF OnTime, IsLate, ServerIsLate, serverVars, publishVars, subscribeVars
<1>10. CASE StopPublish
  <2>1. CASE \/ /\ paused' = paused + 10 /\ ~ IsLate(paused') /\ shutAt' = shutAt
                /\ pServer' # "shut_down"
             \/ paused' = paused /\ shutAt' = shutAt /\ pServer' = pServer
    BY <1>1, <1>10, <2>1, StopPublishFrame DEF OnTime, IsLate, ServerIsLate, subscribeVars
  <2>2. CASE paused' = paused + 10 /\ ~ IsLate(paused') /\ shutAt' = shutAt /\ pServer' = pServer
    BY <1>1, <1>10, <2>2, StopPublishFrame DEF OnTime, IsLate, ServerIsLate, subscribeVars
  <2>3. CASE pStopper = "draining"
    <3>1. pServer = "shutting_down" /\ pServer' = "shut_down" /\ paused' = paused
          /\ shutAt' = [shutAt EXCEPT !["publish"] = paused]
      BY <1>1, <1>10, <2>3, StopPublishFrame DEF ServersAgreed, Agreed, StopSteps
    <3>2. shutAt'["publish"] = paused /\ shutAt'["subscribe"] = shutAt["subscribe"]
      BY <3>1 DEF LifeInv, Times, Services
    <3>. QED BY <1>1, <1>10, <3>1, <3>2, StopPublishFrame
          DEF OnTime, IsLate, ServerIsLate, subscribeVars
  <2>. QED BY <1>10, <2>1, <2>2, <2>3, StopPublishFrame DEF StopSteps
<1>11. CASE StopSubscribe
  <2>1. CASE \/ /\ paused' = paused + 10 /\ ~ IsLate(paused') /\ shutAt' = shutAt
                /\ sServer' # "shut_down"
             \/ paused' = paused /\ shutAt' = shutAt /\ sServer' = sServer
    BY <1>1, <1>11, <2>1, StopSubscribeFrame DEF OnTime, IsLate, ServerIsLate, publishVars
  <2>2. CASE paused' = paused + 10 /\ ~ IsLate(paused') /\ shutAt' = shutAt /\ sServer' = sServer
    BY <1>1, <1>11, <2>2, StopSubscribeFrame DEF OnTime, IsLate, ServerIsLate, publishVars
  <2>3. CASE sStopper = "draining"
    <3>1. sServer = "shutting_down" /\ sServer' = "shut_down" /\ paused' = paused
          /\ shutAt' = [shutAt EXCEPT !["subscribe"] = paused]
      BY <1>1, <1>11, <2>3, StopSubscribeFrame DEF ServersAgreed, Agreed, StopSteps
    <3>2. shutAt'["subscribe"] = paused /\ shutAt'["publish"] = shutAt["publish"]
      BY <3>1 DEF LifeInv, Times, Services
    <3>. QED BY <1>1, <1>11, <3>1, <3>2, StopSubscribeFrame
          DEF OnTime, IsLate, ServerIsLate, publishVars
  <2>. QED BY <1>11, <2>1, <2>2, <2>3, StopSubscribeFrame DEF StopSteps
<1>12. CASE ThreadStep
  <2>1. CASE PickProcessor \/ DatabaseCleaner
    BY <1>2, <1>3, <1>4, <1>5, <1>12, <2>1, ThreadFrame
  <2>2. CASE ~ (PickProcessor \/ DatabaseCleaner)
    <3>1. UNCHANGED processor /\ UNCHANGED cleaner
      BY <1>12, <2>2 DEF ThreadStep, Interrupt, ServerMissing, PortIsTaken, ServerFaults,
            ProcessorFaults, CleanerFaults, Fault, vars
    <3>. QED BY <1>6, <1>12, <3>1, ThreadFrame
  <2>. QED BY <2>1, <2>2
<1>. QED BY <1>6, <1>7, <1>8, <1>9, <1>10, <1>11, <1>12, StepKinds, WatchFrame, CloseFrame

\* What Quick says in milliseconds.
LEMMA QuickEnough ==
    ASSUME Quick, Times
    PROVE  /\ slowest.starting < 35 /\ slowest.returning < 25
           /\ slowest.processing < 85 /\ slowest.cleaning < 120
BY SlowestTyped DEF Quick, StopPause, BrokerPause, DestructorPause

\* After 35 milliseconds no start() is on its way any more.
LEMMA Arrived ==
    ASSUME LifeInv, Quick, NEW now \in Nat, now >= 35, ~ IsLate(now)
    PROVE  pStarter \in {"waiting", "returned"} /\ sStarter \in {"waiting", "returned"}
<1>1. P!ServerTypeOK /\ S!ServerTypeOK /\ Times
  BY DEF LifeInv, ServersTyped
<1>2. slowest.starting < now
  BY <1>1, QuickEnough, SlowestTyped
<1>. QED BY <1>1, <1>2 DEF IsLate, ServerIsLate, P!ServerTypeOK, S!ServerTypeOK

LEMMA PublishCaughtNext == ASSUME LifeInv, [Next]_vars, Quick PROVE PublishCaught'
<1>1. /\ PublishCaught /\ ServersAgreed /\ Paced /\ paused \in Nat /\ OnTime
  BY SlowestTyped DEF LifeInv, OrderInv, InTime
<1>2. CASE UNCHANGED main /\ UNCHANGED publishVars
  BY <1>1, <1>2 DEF PublishCaught, publishVars
<1>3. CASE StartPublish
  <2>1. ASSUME (main = "destroy_publish" /\ pStopper = "resetting") \/ main = "free_publish"
        PROVE  pStarter \in {"waiting", "returned"}
    <3>1. paused = 35
      BY <1>1, <2>1 DEF Paced, Lapse, Closing, Looked
    <3>. QED BY <1>1, <3>1, Arrived DEF OnTime
  <2>. QED BY <1>1, <1>3, <2>1, StartPublishFrame DEF PublishCaught
<1>4. CASE StopPublish
  <2>1. CASE pStopper = "pausing"
    <3>1. ASSUME main = "destroy_publish" PROVE pStarter \in {"waiting", "returned"}
      <4>1. paused' = 35 /\ ~ IsLate(paused')
        BY <1>1, <1>4, <2>1, <3>1, StopPublishFrame DEF Paced, Lapse, Closing, Looked, StopSteps
      <4>. QED BY <4>1, Arrived
    <3>. QED BY <1>1, <1>4, <2>1, <3>1, StopPublishFrame
          DEF PublishCaught, ServersAgreed, Agreed, StopSteps
  <2>2. CASE pStopper # "pausing"
    BY <1>1, <1>4, <2>2, StopPublishFrame DEF PublishCaught, ServersAgreed, Agreed, StopSteps
  <2>. QED BY <2>1, <2>2
<1>5. CASE WatchStep \/ CloseStep \/ DestroyPublish \/ FreePublish
           \/ DestroySubscribe \/ FreeSubscribe
  BY <1>5, WatchFrame, CloseFrame, DestroyPublishFrame, FreePublishFrame,
     DestroySubscribeFrame, FreeSubscribeFrame DEF PublishCaught, Closing
<1>6. CASE StopSubscribe
  BY <1>6, StopSubscribeFrame DEF PublishCaught
<1>. QED BY <1>2, <1>3, <1>4, <1>5, <1>6, StepKinds, ThreadFrame, StartSubscribeFrame
        DEF serverVars

LEMMA SubscribeCaughtNext == ASSUME LifeInv, [Next]_vars, Quick PROVE SubscribeCaught'
<1>1. /\ SubscribeCaught /\ ServersAgreed /\ Paced /\ paused \in Nat /\ OnTime
  BY SlowestTyped DEF LifeInv, OrderInv, InTime
<1>2. CASE UNCHANGED main /\ UNCHANGED subscribeVars
  BY <1>1, <1>2 DEF SubscribeCaught, subscribeVars
<1>3. CASE StartSubscribe
  <2>1. ASSUME (main = "destroy_subscribe" /\ sStopper = "resetting") \/ main = "free_subscribe"
        PROVE  sStarter \in {"waiting", "returned"}
    <3>1. paused = 95
      BY <1>1, <2>1 DEF Paced, Lapse, Closing, Looked
    <3>. QED BY <1>1, <3>1, Arrived DEF OnTime
  <2>. QED BY <1>1, <1>3, <2>1, StartSubscribeFrame DEF SubscribeCaught
<1>4. CASE StopSubscribe
  <2>1. CASE sStopper = "pausing"
    <3>1. ASSUME main = "destroy_subscribe" PROVE sStarter \in {"waiting", "returned"}
      <4>1. paused' = 95 /\ ~ IsLate(paused')
        BY <1>1, <1>4, <2>1, <3>1, StopSubscribeFrame DEF Paced, Lapse, Closing, Looked, StopSteps
      <4>. QED BY <4>1, Arrived
    <3>. QED BY <1>1, <1>4, <2>1, <3>1, StopSubscribeFrame
          DEF SubscribeCaught, ServersAgreed, Agreed, StopSteps
  <2>2. CASE sStopper # "pausing"
    BY <1>1, <1>4, <2>2, StopSubscribeFrame DEF SubscribeCaught, ServersAgreed, Agreed, StopSteps
  <2>. QED BY <2>1, <2>2
<1>5. CASE WatchStep \/ CloseStep \/ DestroyPublish \/ FreePublish
           \/ DestroySubscribe \/ FreeSubscribe
  BY <1>5, WatchFrame, CloseFrame, DestroyPublishFrame, FreePublishFrame,
     DestroySubscribeFrame, FreeSubscribeFrame DEF SubscribeCaught, Closing
<1>6. CASE StopPublish
  BY <1>6, StopPublishFrame DEF SubscribeCaught
<1>. QED BY <1>2, <1>3, <1>4, <1>5, <1>6, StepKinds, ThreadFrame, StartPublishFrame
        DEF serverVars

LEMMA ReturnedNext ==
    ASSUME LifeInv, [Next]_vars, Quick
    PROVE  PublishReturned' /\ SubscribeReturned'
<1>1. /\ PublishCaught /\ SubscribeCaught /\ PublishReturned /\ SubscribeReturned
      /\ Paced /\ ShutInTime /\ Times /\ paused \in Nat
      /\ shutAt["publish"] \in Nat /\ shutAt["subscribe"] \in Nat
      /\ slowest.returning \in Nat /\ slowest.returning < 25
  BY SlowestTyped, QuickEnough DEF LifeInv, OrderInv, InTime
<1>2. CASE FreePublish
  <2>1. main = "free_publish" /\ paused = 35 /\ paused' = 60 /\ ~ IsLate(paused')
    BY <1>1, <1>2, FreePublishFrame DEF Paced, Lapse, Closing
  <2>2. pStarter \in {"waiting", "returned"}
    BY <2>1, Arrived
  <2>3. ~ (pStarter = "waiting" /\ pServer = "shut_down")
    <3>1. 60 > shutAt["publish"] + slowest.returning
      BY <1>1 DEF ShutInTime
    <3>. QED BY <2>1, <3>1 DEF IsLate, ServerIsLate
  <2>4. pStarter = "returned"
    BY <1>1, <2>1, <2>2, <2>3 DEF PublishCaught
  <2>. QED BY <1>1, <1>2, <2>4, FreePublishFrame
        DEF PublishReturned, SubscribeReturned, serverVars, publishVars, subscribeVars
<1>3. CASE FreeSubscribe
  <2>1. main = "free_subscribe" /\ paused = 95 /\ paused' = 120 /\ ~ IsLate(paused')
    BY <1>1, <1>3, FreeSubscribeFrame DEF Paced, Lapse, Closing
  <2>2. sStarter \in {"waiting", "returned"}
    BY <2>1, Arrived
  <2>3. ~ (sStarter = "waiting" /\ sServer = "shut_down")
    <3>1. 120 > shutAt["subscribe"] + slowest.returning
      BY <1>1 DEF ShutInTime
    <3>. QED BY <2>1, <3>1 DEF IsLate, ServerIsLate
  <2>4. sStarter = "returned"
    BY <1>1, <2>1, <2>2, <2>3 DEF SubscribeCaught
  <2>. QED BY <1>1, <1>3, <2>4, FreeSubscribeFrame
        DEF PublishReturned, SubscribeReturned, serverVars, publishVars, subscribeVars
<1>4. CASE StartPublish \/ StartSubscribe
  BY <1>1, <1>4, StartPublishFrame, StartSubscribeFrame
     DEF PublishReturned, SubscribeReturned, ownedVars, publishVars, subscribeVars
<1>5. CASE UNCHANGED <<alive, pStarter, sStarter>>
  BY <1>1, <1>5 DEF PublishReturned, SubscribeReturned
<1>. QED BY <1>2, <1>3, <1>4, <1>5, StepKinds, ThreadFrame, WatchFrame, CloseFrame,
         StopPublishFrame, DestroyPublishFrame, StopSubscribeFrame, DestroySubscribeFrame
      DEF ownedVars, serverVars, publishVars, subscribeVars

LEMMA InTimeNext == ASSUME LifeInv, [Next]_vars PROVE InTime'
<1>1. Quick' <=> Quick
  BY SlowestStays DEF Quick
<1>. QED BY <1>1, PublishCaughtNext, SubscribeCaughtNext, ReturnedNext DEF InTime

\* What a thread that is Quick would use has not gone.
LEMMA NoFaultNext == ASSUME LifeInv, [Next]_vars PROVE NoUseAfterDestruction'
<1>1. Quick' <=> Quick
  BY SlowestStays DEF Quick
<1>2. SUFFICES ASSUME Quick, crashed' # crashed PROVE crashed' # "gone"
  BY <1>1 DEF LifeInv, OrderInv, NoUseAfterDestruction
<1>3. /\ PublishReturned /\ SubscribeReturned /\ Gone /\ OnTime /\ Paced
      /\ paused \in Nat
      /\ slowest.processing \in Nat /\ slowest.processing < 85
      /\ slowest.cleaning \in Nat /\ slowest.cleaning < 120
  BY <1>2, SlowestTyped, QuickEnough DEF LifeInv, OrderInv, InTime
<1>4. CASE ServerFaults
  BY <1>3, <1>4 DEF ServerFaults, PublishReturned, SubscribeReturned
<1>5. mDatabase = "gone" => paused = 120
  BY <1>3 DEF Gone, Paced, Lapse, Closing
<1>6. CASE ProcessorFaults
  <2>1. paused >= 85 /\ processor \in {"turn", "adding", "added", "enqueueing"}
    BY <1>3, <1>5, <1>6 DEF ProcessorFaults, Gone
  <2>. QED BY <1>3, <2>1 DEF OnTime, IsLate
<1>7. CASE CleanerFaults
  BY <1>3, <1>5, <1>7 DEF CleanerFaults, OnTime, IsLate
<1>8. CASE ServerMissing
  BY <1>8 DEF ServerMissing, PortIsTaken, Fault
<1>9. CASE PickProcessor \/ DatabaseCleaner \/ Interrupt \/ UNCHANGED vars
  BY <1>2, <1>9 DEF PickProcessor, ProcessorTurns, ProcessorSleeps, ProcessorAdds,
       ProcessorAdded, ProcessorEnqueues, ProcessorEnqueued, Processor, DatabaseCleaner,
       CleanerTurns, CleanerLooks, CleanerDeletes, CleanerDeleted, DeleteFails,
       CleanerTests, CleanerBlocks, CleanerTimesOut, Cleaner, Interrupt, runVars, vars
<1>. QED BY <1>2, <1>4, <1>6, <1>7, <1>8, <1>9, StepKinds, WatchFrame, CloseFrame,
         StartPublishFrame, StartSubscribeFrame, StopPublishFrame, DestroyPublishFrame,
         FreePublishFrame, StopSubscribeFrame, DestroySubscribeFrame, FreeSubscribeFrame
      DEF ThreadStep

LEMMA OrderInvNext == ASSUME LifeInv, [Next]_vars PROVE OrderInv'
BY LoweredNext, PacedNext, GoneNext, ServersAgreedNext, ShutInTimeNext, OnTimeNext,
   InTimeNext, NoFaultNext DEF OrderInv

-----------------------------------------------------------------------------
(* Every step keeps count of the futures.                                  *)

\* No thread that has ended goes on.
LEMMA EndedStays == ASSUME NEW f, Ended(f), [Next]_vars PROVE Ended(f)'
<1>1. CASE StartBroker \/ HandleInterrupt \/ CheckFuturesOkay \/ LowerKeepRunning \/
          RequestShutdown \/ Notify
  BY <1>1
     DEF StartBroker, HandleInterrupt, CheckFuturesOkay, LowerKeepRunning,
         RequestShutdown, Notify, MainGoes, futureVars, flagVars, ownedVars,
         runVars, serverVars, publishVars, subscribeVars, Ended
<1>2. CASE DestroyPublish \/ FreePublish \/ DestroySubscribe \/ FreeSubscribe
  BY <1>2
     DEF DestroyPublish, FreePublish, DestroySubscribe, FreeSubscribe, MainGoes,
         futureVars, flagVars, ownedVars, runVars, serverVars, publishVars,
         subscribeVars, Ended
<1>3. CASE CloseDatabase \/ DestroyDatabase \/ Join \/ End
  BY <1>3
     DEF CloseDatabase, DestroyDatabase, Join, End, MainGoes, futureVars, flagVars,
         ownedVars, runVars, serverVars, publishVars, subscribeVars, Ended
<1>4. CASE StopPublish
  BY <1>4
     DEF StopPublish, P!Stop, P!BeginStop, P!Shutdown, P!NothingToShutDown,
         P!ShutdownReturns, P!ResetCount, MainGoes, futureVars, flagVars, ownedVars,
         runVars, serverVars, publishVars, subscribeVars, Ended
<1>5. CASE StopSubscribe
  BY <1>5
     DEF StopSubscribe, S!Stop, S!BeginStop, S!Shutdown, S!NothingToShutDown,
         S!ShutdownReturns, S!ResetCount, MainGoes, futureVars, flagVars, ownedVars,
         runVars, serverVars, publishVars, subscribeVars, Ended
<1>6. CASE StartPublish
  BY <1>6
     DEF StartPublish, P!Start, P!BeginStart, P!BuildAndStart, P!MarkStarted,
         P!WaitReturns, futureVars, flagVars, ownedVars, runVars, serverVars,
         publishVars, subscribeVars, Ended
<1>7. CASE StartSubscribe
  BY <1>7
     DEF StartSubscribe, S!Start, S!BeginStart, S!BuildAndStart, S!MarkStarted,
         S!WaitReturns, futureVars, flagVars, ownedVars, runVars, serverVars,
         publishVars, subscribeVars, Ended
<1>8. CASE Interrupt
  BY <1>8
     DEF Interrupt, futureVars, flagVars, ownedVars, runVars, serverVars,
         publishVars, subscribeVars, Ended
<1>9. CASE PickProcessor
  BY <1>9
     DEF PickProcessor, ProcessorTurns, ProcessorSleeps, ProcessorAdds,
         ProcessorAdded, ProcessorEnqueues, ProcessorEnqueued, Processor,
         futureVars, flagVars, ownedVars, runVars, serverVars, publishVars,
         subscribeVars, Ended
<1>10. CASE DatabaseCleaner
  BY <1>10
     DEF DatabaseCleaner, CleanerTurns, CleanerLooks, CleanerDeletes,
         CleanerDeleted, DeleteFails, CleanerTests, CleanerBlocks, CleanerTimesOut,
         Cleaner, futureVars, flagVars, ownedVars, runVars, serverVars, publishVars,
         subscribeVars, Ended
<1>11. CASE ServerMissing \/ ServerFaults \/ ProcessorFaults \/ CleanerFaults
  BY <1>11
     DEF ServerMissing, PortIsTaken, ServerFaults, ProcessorFaults, CleanerFaults,
         Fault, futureVars, flagVars, ownedVars, runVars, serverVars, publishVars,
         subscribeVars, Ended
<1>12. CASE UNCHANGED vars
  BY <1>12
     DEF vars, futureVars, flagVars, ownedVars, runVars, serverVars, publishVars,
         subscribeVars, Ended
<1>. QED BY <1>1, <1>2, <1>3, <1>4, <1>5, <1>6, <1>7, <1>8, <1>9, <1>10, <1>11,
            <1>12 DEF Next, Step, MainThread

LEMMA Passes ==
    ASSUME JoinInv, main # "start", UNCHANGED valid, main' \notin {"join", "ended"},
           \A f \in Futures : Ended(f) => Ended(f)'
    PROVE  JoinInv'
BY DEF JoinInv

LEMMA Stays ==
    ASSUME JoinInv, UNCHANGED <<main, joining, valid, exit>>,
           \A f \in Futures : Ended(f) => Ended(f)'
    PROVE  JoinInv'
BY DEF JoinInv

LEMMA JoinInvDestroy == ASSUME LifeInv, [Next]_vars, DestroyDatabase PROVE JoinInv'
<1>1. \A f \in Futures : Ended(f) => Ended(f)'
  BY EndedStays
<1>2. /\ main = "destroy_database" /\ main' = "join"
      /\ joining' = JoinOrder /\ valid' = valid
  BY DEF DestroyDatabase, MainGoes
<1>3. \A f \in Futures : \E i \in 1..Len(JoinOrder) : JoinOrder[i] = f
  <2>1. /\ Len(JoinOrder) = 4
        /\ JoinOrder[1] = "publish" /\ JoinOrder[2] = "processor"
        /\ JoinOrder[3] = "subscribe" /\ JoinOrder[4] = "cleaner"
    BY DEF JoinOrder
  <2>2. 1 \in 1..4 /\ 2 \in 1..4 /\ 3 \in 1..4 /\ 4 \in 1..4
    OBVIOUS
  <2>. QED BY <2>1, <2>2 DEF Futures
<1>. QED BY <1>1, <1>2, <1>3 DEF LifeInv, Sets, JoinInv

\* The future at the head is done with, and any other is in the tail.
LEMMA JoinInvJoin == ASSUME LifeInv, [Next]_vars, Join PROVE JoinInv'
<1>. DEFINE f == Head(joining)
<1>1. \A g \in Futures : Ended(g) => Ended(g)'
  BY EndedStays
<1>2. /\ main = "join" /\ main' = "join" /\ joining # <<>>
      /\ f \in valid => Ended(f)
      /\ valid' = valid \ {f} /\ joining' = Tail(joining)
  BY DEF Join, MainGoes
<1>3. \A g \in Futures \ valid' : Ended(g)'
  BY <1>1, <1>2 DEF LifeInv, JoinInv
<1>4. ASSUME NEW g \in valid' PROVE \E i \in 1..Len(joining') : joining'[i] = g
  <2>1. PICK i \in 1..Len(joining) : joining[i] = g
    BY <1>2, <1>4 DEF LifeInv, JoinInv
  <2>2. joining \in Seq(Futures)
    BY DEF LifeInv, Sets
  <2>3. i # 1
    BY <1>2, <1>4, <2>1, <2>2
  <2>4. i - 1 \in 1..(Len(joining) - 1)
    BY <2>1, <2>2, <2>3
  <2>5. Len(joining') = Len(joining) - 1 /\ joining'[i - 1] = joining[i]
    BY <1>2, <2>1, <2>2, <2>4
  <2>. QED BY <2>1, <2>4, <2>5
<1>. QED BY <1>2, <1>3, <1>4 DEF JoinInv

LEMMA JoinInvEnd == ASSUME LifeInv, [Next]_vars, End PROVE JoinInv'
<1>1. /\ main = "join" /\ main' = "ended" /\ joining = <<>> /\ valid' = valid
      /\ exit' # "none"
  BY DEF End, MainGoes
<1>2. valid = {}
  <2>1. Len(joining) = 0
    BY <1>1
  <2>2. \A f \in valid : \E i \in 1..Len(joining) : joining[i] = f
    BY <1>1 DEF LifeInv, JoinInv
  <2>. QED BY <2>1, <2>2
<1>3. \A f \in Futures \ valid : Ended(f)'
  BY <1>1, EndedStays DEF LifeInv, JoinInv
<1>. QED BY <1>1, <1>2, <1>3 DEF JoinInv

LEMMA JoinInvNext == ASSUME LifeInv, [Next]_vars PROVE JoinInv'
<1>. USE DEF LifeInv
<1>1. \A f \in Futures : Ended(f) => Ended(f)'
  BY EndedStays
<1>2. CASE StartBroker
  BY <1>2 DEF StartBroker, MainGoes, JoinInv
<1>3. CASE CheckFuturesOkay
  <2>1. main = "watch" /\ main' \in {"watch", "lower"} /\ valid' = { f \in valid : ~ Ended(f) }
    BY <1>3 DEF CheckFuturesOkay, MainGoes
  <2>2. \A f \in Futures \ valid' : Ended(f)
    BY <2>1 DEF JoinInv
  <2>. QED BY <1>1, <2>1, <2>2 DEF JoinInv
<1>4. CASE HandleInterrupt \/ LowerKeepRunning \/ RequestShutdown \/ Notify
  BY <1>1, <1>4, Passes
     DEF HandleInterrupt, LowerKeepRunning, RequestShutdown, Notify, MainGoes, futureVars
<1>5. CASE StopPublish \/ DestroyPublish \/ FreePublish
  BY <1>1, <1>5, Passes DEF StopPublish, DestroyPublish, FreePublish, MainGoes, futureVars
<1>6. CASE StopSubscribe \/ DestroySubscribe \/ FreeSubscribe \/ CloseDatabase
  BY <1>1, <1>6, Passes
     DEF StopSubscribe, DestroySubscribe, FreeSubscribe, CloseDatabase, MainGoes, futureVars
<1>7. CASE DestroyDatabase \/ Join \/ End
  BY <1>7, JoinInvDestroy, JoinInvJoin, JoinInvEnd
<1>8. CASE UNCHANGED <<main, joining, valid, exit>>
  BY <1>1, <1>8, Stays
<1>9. Interrupt \/ StartPublish \/ StartSubscribe \/ ServerMissing \/ ServerFaults
        \/ ProcessorFaults \/ CleanerFaults \/ UNCHANGED vars
        => UNCHANGED <<main, joining, valid, exit>>
  BY DEF Interrupt, StartPublish, StartSubscribe, ServerMissing, PortIsTaken, ServerFaults,
         ProcessorFaults, CleanerFaults, Fault, vars, futureVars
<1>10. PickProcessor \/ DatabaseCleaner => UNCHANGED <<main, joining, valid, exit>>
  BY DEF PickProcessor, ProcessorTurns, ProcessorSleeps, ProcessorAdds, ProcessorAdded,
         ProcessorEnqueues, ProcessorEnqueued, Processor, DatabaseCleaner, CleanerTurns,
         CleanerLooks, CleanerDeletes, CleanerDeleted, DeleteFails, CleanerTests,
         CleanerBlocks, CleanerTimesOut, Cleaner, futureVars
<1>. QED BY <1>2, <1>3, <1>4, <1>5, <1>6, <1>7, <1>8, <1>9, <1>10
        DEF Next, Step, MainThread

-----------------------------------------------------------------------------
THEOREM Invariance == Spec => []LifeInv
<1>1. Init => LifeInv
  BY LifeInvInit
<1>2. LifeInv /\ [Next]_vars => LifeInv'
  BY PlacesNext, FlagsNext, SetsNext, TimesNext, ServersTypedNext, OrderInvNext, JoinInvNext
     DEF LifeInv
<1>. QED BY <1>1, <1>2, PTL DEF Spec

\* The types of TypeOK; and at the end of main() every future has been taken and
\* the exit status is decided.
THEOREM TypeCorrect == Spec => []TypeOK
<1>1. LifeInv => TypeOK
  <2>. SUFFICES ASSUME LifeInv PROVE TypeOK
    OBVIOUS
  <2>1. Places
    BY DEF LifeInv
  <2>2. main = "ended" => valid = {} /\ exit # "none"
    BY DEF LifeInv, JoinInv
  <2>. QED BY <2>1, <2>2 DEF LifeInv, Flags, Sets, Times, ServersTyped, Places, Phases, TypeOK
<1>. QED BY <1>1, Invariance, PTL

\* stop() destroys the services and the database before it waits for the threads
\* that use them.  However slow the threads are, none of them does so afterwards
\* if it takes less time for what it is in the middle of than the pauses leave it.
THEOREM NothingIsUsedAfterDestruction == Spec => []NoUseAfterDestruction
<1>1. LifeInv => NoUseAfterDestruction
  BY DEF LifeInv, OrderInv
<1>. QED BY <1>1, Invariance, PTL

\* main() ends after all four threads, although the futures that checkFuturesOkay
\* has taken are not waited for again.
THEOREM EveryThreadIsJoined == Spec => []ThreadsAreJoined
<1>1. LifeInv => ThreadsAreJoined
  BY DEF LifeInv, JoinInv, ThreadsAreJoined
<1>. QED BY <1>1, Invariance, PTL
=============================================================================
