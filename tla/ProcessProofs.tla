---------------------------- MODULE ProcessProofs ---------------------------
(***************************************************************************)
(* Theorems about Process, for every set of initialization files and every *)
(* bound.                                                                  *)
(***************************************************************************)
EXTENDS Process, TLAPS

-----------------------------------------------------------------------------
(* Options: a file that was not refused, or none.                          *)

OptionsInv ==
    \/ options = NoOptions
    \/ \E ini \in IniFiles : ~ Refuses(ini) /\ options = Options(ini)

LEMMA OptionsInvNext == ASSUME OptionsInv, [Next]_vars PROVE OptionsInv'
<1>1. CASE UNCHANGED options
  BY <1>1 DEF OptionsInv
<1>2. CASE ParseIniFile
  BY <1>2 DEF ParseIniFile, OptionsInv
<1>3. CASE StartAgain
  BY <1>3 DEF StartAgain, OptionsInv
<1>4. SetUp => UNCHANGED options \/ ParseIniFile
  BY DEF SetUp, ReadArguments, InitializeLogger, LoggerFails, InitializeMetrics,
         MetricsFail, OpenDatabase, CreateTables, DatabaseFails, ConstructBroker,
         BrokerFails, otherVars
<1>5. Run \/ CleanUp => UNCHANGED options
  BY DEF Run, BeginLaunch, Launch, LaunchFails, LeaveLoop, Watch, CheckFuturesOkay,
         SkipSummary, LoadReceived, LoadSent, Report, StopBroker,
         CleanUp, CleanUpMetrics, CleanUpLogger, Return
<1>6. Interrupt \/ IntervalPasses \/ Killed \/ ThreadLogs \/ UNCHANGED vars
        => UNCHANGED options
  BY DEF Interrupt, IntervalPasses, Killed, ThreadLogs, vars, phaseVars
<1>7. ASSUME NEW c, Count(c) \/ Observe(c) PROVE UNCHANGED options
  BY <1>7 DEF Count, Observe, phaseVars
<1>. QED BY <1>1, <1>2, <1>3, <1>4, <1>5, <1>6, <1>7 DEF Next, Main

-----------------------------------------------------------------------------
(* Where main() is, and what there is by then.                             *)

Phases ==
    {"arguments", "file", "logger", "metrics", "database", "table", "broker",
     "launch", "watch", "summary", "load sent", "report", "stop",
     "clean metrics", "clean logger", "return", "ended"}

PhaseTyped ==
    /\ main \in Phases
    /\ exit \in {"none", "success", "failure", "crashed", "killed"}
    /\ exit # "none" <=> main = "ended"
    /\ starts \in 1..MaxStarts
    /\ mInterrupted \in BOOLEAN
    /\ loggerProvider \in {"none", "set", "null"}
    /\ meterProvider \in {"none", "set"}
    /\ table \in {"absent", "empty", "ready"}
    /\ broker \in {"none", "built", "launching", "running"}

\* A broker is made last, of services and a table, and gone at the end.
BrokerInv ==
    /\ main \in {"arguments", "file", "logger", "metrics", "database", "table",
                 "broker", "ended"} => broker = "none"
    /\ main \in {"clean metrics", "clean logger", "return"}
          => broker \in {"none", "launching"}
    /\ broker # "none" => table = "ready" /\ options.services

\* A provider is set in its turn and taken away when main() fails.
ProviderInv ==
    /\ main \in {"arguments", "file", "logger"} => loggerProvider = "none"
    /\ main \in {"arguments", "file", "logger", "metrics", "clean logger", "return"}
          => meterProvider = "none"
    /\ main = "return" => loggerProvider # "set"
    /\ loggerProvider = "null" => main \in {"return", "ended"}
    /\ exit = "failure" => loggerProvider # "set" /\ meterProvider = "none"

PhaseInv == PhaseTyped /\ BrokerInv /\ ProviderInv

LEMMA PhaseInvInit == ASSUME Init PROVE PhaseInv
<1>1. 1 \in 1..MaxStarts
  BY ProcessAssumption
<1>. QED BY <1>1 DEF Init, PhaseInv, PhaseTyped, Phases, BrokerInv, ProviderInv

LEMMA PhaseInvSetUp == ASSUME PhaseInv, SetUp PROVE PhaseInv'
<1>1. CASE ReadArguments
  BY <1>1 DEF ReadArguments, Goes, Ends, otherVars, PhaseInv, PhaseTyped, Phases,
         BrokerInv, ProviderInv
<1>2. CASE ParseIniFile
  BY <1>2 DEF ParseIniFile, Goes, Ends, otherVars, PhaseInv, PhaseTyped, Phases,
         BrokerInv, ProviderInv
<1>3. CASE InitializeLogger
  BY <1>3 DEF InitializeLogger, Goes, PhaseInv, PhaseTyped, Phases,
         BrokerInv, ProviderInv
<1>4. CASE LoggerFails
  BY <1>4 DEF LoggerFails, Ends, otherVars, PhaseInv, PhaseTyped, Phases,
         BrokerInv, ProviderInv
<1>5. CASE InitializeMetrics
  BY <1>5 DEF InitializeMetrics, Goes, PhaseInv, PhaseTyped, Phases,
         BrokerInv, ProviderInv
<1>6. CASE MetricsFail
  BY <1>6 DEF MetricsFail, Goes, otherVars, PhaseInv, PhaseTyped, Phases,
         BrokerInv, ProviderInv
<1>7. CASE OpenDatabase
  BY <1>7 DEF OpenDatabase, Goes, PhaseInv, PhaseTyped, Phases,
         BrokerInv, ProviderInv
<1>8. CASE CreateTables
  BY <1>8 DEF CreateTables, Goes, PhaseInv, PhaseTyped, Phases,
         BrokerInv, ProviderInv
<1>9. CASE DatabaseFails
  BY <1>9 DEF DatabaseFails, Goes, PhaseInv, PhaseTyped, Phases,
         BrokerInv, ProviderInv
<1>10. CASE ConstructBroker
  BY <1>10 DEF ConstructBroker, Goes, Loads, PhaseInv, PhaseTyped, Phases,
         BrokerInv, ProviderInv
<1>11. CASE BrokerFails
  BY <1>11 DEF BrokerFails, Goes, otherVars, PhaseInv, PhaseTyped, Phases,
         BrokerInv, ProviderInv
<1>. QED BY <1>1, <1>2, <1>3, <1>4, <1>5, <1>6, <1>7, <1>8, <1>9, <1>10, <1>11 DEF SetUp

LEMMA PhaseInvWatch == ASSUME PhaseInv, Watch PROVE PhaseInv'
<1>1. CASE CheckFuturesOkay
  BY <1>1 DEF CheckFuturesOkay, Goes, otherVars, PhaseInv, PhaseTyped, Phases,
         BrokerInv, ProviderInv
<1>2. CASE SkipSummary
  BY <1>2 DEF SkipSummary, Goes, otherVars, PhaseInv, PhaseTyped, Phases,
         BrokerInv, ProviderInv
<1>3. CASE LoadReceived
  BY <1>3 DEF LoadReceived, otherVars, PhaseInv, PhaseTyped, Phases,
         BrokerInv, ProviderInv
<1>4. CASE LoadSent
  BY <1>4 DEF LoadSent, otherVars, PhaseInv, PhaseTyped, Phases,
         BrokerInv, ProviderInv
<1>5. CASE Report
  BY <1>5 DEF Report, otherVars, PhaseInv, PhaseTyped, Phases,
         BrokerInv, ProviderInv
<1>. QED BY <1>1, <1>2, <1>3, <1>4, <1>5 DEF Watch

LEMMA PhaseInvRun == ASSUME PhaseInv, Run PROVE PhaseInv'
<1>1. CASE BeginLaunch
  BY <1>1 DEF BeginLaunch, Goes, PhaseInv, PhaseTyped, Phases,
         BrokerInv, ProviderInv
<1>2. CASE Launch
  BY <1>2 DEF Launch, Goes, PhaseInv, PhaseTyped, Phases,
         BrokerInv, ProviderInv
<1>3. CASE LaunchFails
  BY <1>3 DEF LaunchFails, Goes, otherVars, PhaseInv, PhaseTyped, Phases,
         BrokerInv, ProviderInv
<1>4. CASE LeaveLoop
  BY <1>4 DEF LeaveLoop, Goes, otherVars, PhaseInv, PhaseTyped, Phases,
         BrokerInv, ProviderInv
<1>5. CASE StopBroker
  BY <1>5 DEF StopBroker, Goes, Ends, PhaseInv, PhaseTyped, Phases,
         BrokerInv, ProviderInv
<1>6. CASE Watch
  BY <1>6, PhaseInvWatch
<1>. QED BY <1>1, <1>2, <1>3, <1>4, <1>5, <1>6 DEF Run

LEMMA PhaseInvCleanUp == ASSUME PhaseInv, CleanUp PROVE PhaseInv'
<1>1. CASE CleanUpMetrics
  BY <1>1 DEF CleanUpMetrics, Goes, PhaseInv, PhaseTyped, Phases,
         BrokerInv, ProviderInv
<1>2. CASE CleanUpLogger
  BY <1>2 DEF CleanUpLogger, Goes, PhaseInv, PhaseTyped, Phases,
         BrokerInv, ProviderInv
<1>3. CASE Return
  BY <1>3 DEF Return, Ends, PhaseInv, PhaseTyped, Phases,
         BrokerInv, ProviderInv
<1>. QED BY <1>1, <1>2, <1>3 DEF CleanUp

LEMMA PhaseInvNext == ASSUME PhaseInv, [Next]_vars PROVE PhaseInv'
<1>. USE DEF PhaseInv, PhaseTyped, Phases, BrokerInv, ProviderInv
<1>1. CASE Main
  BY <1>1, PhaseInvSetUp, PhaseInvRun, PhaseInvCleanUp DEF Main
<1>2. CASE Interrupt
  BY <1>2 DEF Interrupt, otherVars
<1>3. CASE IntervalPasses
  BY <1>3 DEF IntervalPasses, phaseVars, otherVars
<1>4. CASE Killed
  BY <1>4 DEF Killed, Ends
<1>5. CASE StartAgain
  <2>1. starts + 1 \in 1..MaxStarts
    BY <1>5, ProcessAssumption DEF StartAgain
  <2>. QED BY <1>5, <2>1 DEF StartAgain
<1>6. CASE \E c \in Counted : Count(c)
  BY <1>6 DEF Count, phaseVars, otherVars
<1>7. CASE \E c \in Counters : Observe(c)
  BY <1>7 DEF Observe, phaseVars, otherVars
<1>8. CASE ThreadLogs
  BY <1>8 DEF ThreadLogs, Launched, Ends
<1>9. CASE UNCHANGED vars
  BY <1>9 DEF vars, phaseVars, otherVars
<1>. QED BY <1>1, <1>2, <1>3, <1>4, <1>5, <1>6, <1>7, <1>8, <1>9 DEF Next

-----------------------------------------------------------------------------
(* What is counted, exported and reported.                                 *)

Reports == {"received", "sent"}

CountTyped ==
    /\ counter \in [Counters -> Nat] /\ exported \in [Counters -> Nat]
    /\ loaded \in [Reports -> Nat]
    /\ lastReport \in [Reports -> Nat]
    /\ reported \in [Reports -> Nat]
    /\ due \in BOOLEAN

\* Nothing that was read of a counter is more than the counter, and the sum of
\* the differences is what the last of them was taken to.
Behind ==
    /\ \A c \in Counters : exported[c] <= counter[c]
    /\ \A c \in Reports : /\ loaded[c] <= counter[c]
                          /\ lastReport[c] <= counter[c]
                          /\ reported[c] = lastReport[c]

WithinBound ==
    /\ counter["received"] + counter["duplicate"] + counter["overflow"]
         + counter["sent"] <= MaxCount
    /\ counter["invalid"] = 0

CountInv == CountTyped /\ Behind /\ WithinBound

LEMMA ReportKeys == DOMAIN NoReport = Reports
BY DEF NoReport, Reports

LEMMA NothingReported == NoReport \in [Reports -> Nat] /\ \A c \in Reports : NoReport[c] = 0
BY DEF NoReport, Reports

LEMMA Beginning ==
    ASSUME counter' = NoCounts, exported' = NoCounts, due' = FALSE,
           loaded' = NoReport, lastReport' = NoReport, reported' = NoReport
    PROVE  CountInv'
<1>1. NoCounts \in [Counters -> Nat] /\ \A c \in Counters : NoCounts[c] = 0
  BY DEF NoCounts
<1>2. CountTyped'
  BY <1>1, NothingReported DEF CountTyped
<1>3. Behind'
  BY <1>1, NothingReported DEF Behind, Reports, Counters, Counted
<1>4. WithinBound'
  BY <1>1, ProcessAssumption DEF WithinBound, Counters, Counted
<1>. QED BY <1>2, <1>3, <1>4 DEF CountInv

LEMMA CountInvInit == ASSUME Init PROVE CountInv
<1>1. NoCounts \in [Counters -> Nat] /\ \A c \in Counters : NoCounts[c] = 0
  BY DEF NoCounts
<1>2. CountTyped
  BY <1>1, NothingReported DEF CountTyped, Init
<1>3. Behind
  BY <1>1, NothingReported DEF Behind, Init, Reports, Counters, Counted
<1>4. WithinBound
  BY <1>1, ProcessAssumption DEF WithinBound, Init, Counters, Counted
<1>. QED BY <1>2, <1>3, <1>4 DEF CountInv

LEMMA CountKept ==
    ASSUME CountInv, UNCHANGED <<countVars, summaryVars>>
    PROVE  CountInv'
BY DEF CountInv, CountTyped, Behind, WithinBound, countVars, summaryVars

LEMMA CountInvLoad ==
    ASSUME CountInv, UNCHANGED <<countVars, lastReport, reported>>, due' \in BOOLEAN,
           NEW c \in Reports, loaded' = [loaded EXCEPT ![c] = counter[c]]
    PROVE  CountInv'
<1>1. counter[c] \in Nat
  BY DEF CountInv, CountTyped, Reports, Counters, Counted
<1>2. CountTyped'
  BY <1>1 DEF CountInv, CountTyped, countVars
<1>3. \A d \in Reports : loaded'[d] = IF d = c THEN counter[c] ELSE loaded[d]
  BY DEF CountInv, CountTyped
<1>4. Behind'
  BY <1>1, <1>3 DEF CountInv, Behind, countVars
<1>5. WithinBound'
  BY DEF CountInv, WithinBound, countVars
<1>. QED BY <1>2, <1>4, <1>5 DEF CountInv

\* The difference to the last report makes up for what was reported before.
LEMMA CountInvReport == ASSUME CountInv, Report PROVE CountInv'
<1>1. /\ \A c \in Reports : loaded[c] \in Nat /\ lastReport[c] \in Nat
      /\ \A c \in Reports : reported[c] = lastReport[c]
  BY DEF CountInv, CountTyped, Behind
<1>2. reported' = [c \in Reports |-> reported[c] + (loaded[c] - lastReport[c])]
  BY ReportKeys DEF Report
<1>3. \A c \in Reports : reported'[c] = loaded[c]
  BY <1>1, <1>2
<1>4. reported' \in [Reports -> Nat]
  <2>1. \A c \in Reports : reported[c] + (loaded[c] - lastReport[c]) \in Nat
    BY <1>1
  <2>. QED BY <1>2, <2>1
<1>5. CountTyped'
  BY <1>4 DEF CountInv, CountTyped, Report, Reported, countVars
<1>6. Behind'
  BY <1>3 DEF CountInv, Behind, Report, Reported, countVars
<1>7. WithinBound'
  BY DEF CountInv, WithinBound, Report, countVars
<1>. QED BY <1>5, <1>6, <1>7 DEF CountInv

LEMMA CountInvCount == ASSUME CountInv, NEW c \in Counted, Count(c) PROVE CountInv'
<1>1. \A d \in Counters : counter[d] \in Nat
  BY DEF CountInv, CountTyped
<1>2. counter' = [counter EXCEPT ![c] = counter[c] + 1] /\ counter \in [Counters -> Nat]
  BY DEF Count, CountInv, CountTyped
<1>3. c \in Counters /\ c # "invalid"
  BY DEF Counters, Counted
<1>4. \A d \in Counters : counter'[d] = IF d = c THEN counter[d] + 1 ELSE counter[d]
  BY <1>2, <1>3
<1>5. counter' \in [Counters -> Nat]
  BY <1>1, <1>2, <1>3
<1>6. CountTyped'
  BY <1>5 DEF CountInv, CountTyped, Count, summaryVars
<1>7. Behind'
  <2>1. \A d \in Counters : exported[d] \in Nat
    BY DEF CountInv, CountTyped
  <2>2. \A d \in Reports : d \in Counters /\ loaded[d] \in Nat /\ lastReport[d] \in Nat
    BY DEF CountInv, CountTyped, Reports, Counters, Counted
  <2>3. \A d \in Counters : counter[d] <= counter'[d] /\ counter'[d] \in Nat
    BY <1>1, <1>4, <1>5
  <2>4. \A d \in Counters : exported[d] <= counter'[d]
    BY <1>1, <2>1, <2>3 DEF CountInv, Behind
  <2>5. \A d \in Reports : /\ loaded[d] <= counter'[d]
                           /\ lastReport[d] <= counter'[d]
                           /\ reported[d] = lastReport[d]
    BY <1>1, <2>2, <2>3 DEF CountInv, Behind
  <2>. QED BY <2>4, <2>5 DEF Behind, Count, summaryVars
<1>8. WithinBound'
  <2>1. {"received", "duplicate", "overflow", "sent", "invalid"} \subseteq Counters
    BY DEF Counters, Counted
  <2>2. counter'["invalid"] = 0
    BY <1>3, <1>4, <2>1 DEF CountInv, WithinBound
  <2>3. counter'["received"] + counter'["duplicate"] + counter'["overflow"] + counter'["sent"]
          = counter["received"] + counter["duplicate"] + counter["overflow"] + counter["sent"] + 1
    BY <1>1, <1>4, <2>1 DEF Counted
  <2>4. counter["received"] + counter["duplicate"] + counter["overflow"] + counter["sent"] < MaxCount
    BY DEF Count
  <2>5. counter["received"] + counter["duplicate"] + counter["overflow"] + counter["sent"] + 1
          <= MaxCount
    <3>. DEFINE n == counter["received"] + counter["duplicate"] + counter["overflow"] + counter["sent"]
    <3>1. n \in Nat
      BY <1>1, <2>1
    <3>2. n < MaxCount
      BY <2>4
    <3>. HIDE DEF n
    <3>3. n + 1 <= MaxCount
      BY <3>1, <3>2, ProcessAssumption
    <3>. QED BY <3>3 DEF n
  <2>. QED BY <2>2, <2>3, <2>5 DEF WithinBound
<1>. QED BY <1>6, <1>7, <1>8 DEF CountInv

LEMMA CountInvObserve == ASSUME CountInv, NEW c \in Counters, Observe(c) PROVE CountInv'
<1>1. /\ exported' = [exported EXCEPT ![c] = counter[c]] /\ counter' = counter
      /\ UNCHANGED summaryVars
  BY DEF Observe, ValueOf
<1>2. CountTyped'
  BY <1>1 DEF CountInv, CountTyped, summaryVars
<1>3. Behind'
  <2>1. \A d \in Counters : exported'[d] = IF d = c THEN counter[d] ELSE exported[d]
    BY <1>1 DEF CountInv, CountTyped
  <2>2. \A d \in Counters : counter[d] \in Nat
    BY DEF CountInv, CountTyped
  <2>. QED BY <1>1, <2>1, <2>2 DEF CountInv, Behind, summaryVars
<1>4. WithinBound'
  BY <1>1 DEF CountInv, WithinBound
<1>. QED BY <1>2, <1>3, <1>4 DEF CountInv

LEMMA CountInvNext == ASSUME CountInv, [Next]_vars PROVE CountInv'
<1>1. CASE SetUp
  BY <1>1, CountKept
     DEF SetUp, ReadArguments, ParseIniFile, InitializeLogger, LoggerFails,
         InitializeMetrics, MetricsFail, OpenDatabase, CreateTables, DatabaseFails,
         ConstructBroker, BrokerFails, Goes, Ends
<1>2. CASE CleanUp
  BY <1>2, CountKept DEF CleanUp, CleanUpMetrics, CleanUpLogger, Return, Goes, Ends
<1>3. CASE BeginLaunch \/ Launch \/ LaunchFails \/ LeaveLoop \/ StopBroker
  BY <1>3, CountKept DEF BeginLaunch, Launch, LaunchFails, LeaveLoop, StopBroker, Goes, Ends
<1>4. CASE CheckFuturesOkay \/ SkipSummary
  BY <1>4, CountKept DEF CheckFuturesOkay, SkipSummary, Goes
<1>5. CASE LoadReceived
  <2>1. loaded' = [loaded EXCEPT !["received"] = counter["received"]]
    BY <1>5 DEF LoadReceived
  <2>2. "received" \in Reports /\ due' \in BOOLEAN
    BY <1>5 DEF Reports, LoadReceived
  <2>. QED BY <1>5, <2>1, <2>2, CountInvLoad DEF LoadReceived
<1>6. CASE LoadSent
  <2>1. loaded' = [loaded EXCEPT !["sent"] = counter["sent"]]
    BY <1>6 DEF LoadSent
  <2>2. "sent" \in Reports /\ due' \in BOOLEAN
    BY <1>6 DEF Reports, LoadSent, CountInv, CountTyped
  <2>. QED BY <1>6, <2>1, <2>2, CountInvLoad DEF LoadSent
<1>7. CASE Report
  BY <1>7, CountInvReport
<1>8. CASE IntervalPasses
  <2>1. CountTyped'
    BY <1>8 DEF IntervalPasses, CountInv, CountTyped, countVars
  <2>2. Behind' /\ WithinBound'
    BY <1>8 DEF IntervalPasses, CountInv, Behind, WithinBound, countVars
  <2>. QED BY <2>1, <2>2 DEF CountInv
<1>9. CASE Interrupt \/ Killed \/ ThreadLogs
  BY <1>9, CountKept DEF Interrupt, Killed, ThreadLogs, Ends
<1>10. CASE StartAgain
  BY <1>10, Beginning DEF StartAgain
<1>11. CASE \E c \in Counted : Count(c)
  BY <1>11, CountInvCount
<1>12. CASE \E c \in Counters : Observe(c)
  BY <1>12, CountInvObserve
<1>13. CASE UNCHANGED vars
  BY <1>13, CountKept DEF vars
<1>. QED BY <1>1, <1>2, <1>3, <1>4, <1>5, <1>6, <1>7, <1>8, <1>9, <1>10, <1>11, <1>12,
            <1>13 DEF Next, Main, Run, Watch

-----------------------------------------------------------------------------
Inv == OptionsInv /\ PhaseInv /\ CountInv

THEOREM Invariance == Spec => []Inv
<1>1. Init => Inv
  BY PhaseInvInit, CountInvInit DEF Inv, Init, OptionsInv
<1>2. Inv /\ [Next]_vars => Inv'
  BY OptionsInvNext, PhaseInvNext, CountInvNext DEF Inv
<1>. QED BY <1>1, <1>2, PTL DEF Spec

-----------------------------------------------------------------------------
(* What a file is turned into.                                             *)

LEMMA Got ==
    ASSUME NEW ini, IsIniFile(ini), NEW section, NEW key,
           <<section, key>> \in NumberKeys, NEW default \in Int
    PROVE  Get(ini, section, key, default) \in Int
BY DEF Get, IsIniFile

LEMMA AskedNumbers ==
    /\ \A s \in {"PublishService", "SubscribeService"} : <<s, "port">> \in NumberKeys
    /\ <<"PublishService", "maximumNumberOfPublishers">> \in NumberKeys
    /\ <<"PublishService", "maximumNumberOfConsecutiveInvalidMessages">> \in NumberKeys
    /\ <<"SubscribeService", "maximumNumberOfSubscribers">> \in NumberKeys
    /\ <<"Broker", "queueCapacity">> \in NumberKeys
BY DEF NumberKeys

LEMMA PortIsPort == ASSUME NEW ini, IsIniFile(ini),
                           NEW s \in {"PublishService", "SubscribeService"}
                    PROVE  Port(ini, s) \in 0..(UInt16Values - 1)
<1>1. Get(ini, s, "port", DefaultPort) \in Int
  <2>1. DefaultPort \in Int
    BY DEF DefaultPort
  <2>. QED BY <2>1, Got, AskedNumbers
<1>2. UInt16Values \in Nat \ {0} /\ DefaultPort \in 0..(UInt16Values - 1)
  BY DEF UInt16Values, DefaultPort
<1>3. \A n \in Int : UInt16(n, DefaultPort) \in 0..(UInt16Values - 1)
  BY <1>2 DEF UInt16
<1>. QED BY <1>1, <1>3 DEF Port

LEMMA WrapsAround == \A n \in Int : UInt32(n) \in 0..(UIntValues - 1)
BY OptionsAssumption DEF UInt32

OptionsTyped(o) ==
    /\ {o.publish.port, o.subscribe.port} \subseteq 0..(UInt16Values - 1)
    /\ o.maximumConsecutiveInvalidMessages \in 0..(UIntValues - 1)
    /\ {o.exportLogs, o.exportMetrics} \subseteq {"none", "HTTP", "GRPC"}

LEMMA FileTyped == ASSUME NEW ini, IsIniFile(ini) PROVE OptionsTyped(Options(ini))
<1>1. {Options(ini).publish.port, Options(ini).subscribe.port} \subseteq 0..(UInt16Values - 1)
  BY PortIsPort DEF Options, Server
<1>2. Get(ini, "PublishService", "maximumNumberOfConsecutiveInvalidMessages", 8) \in Int
  BY Got, AskedNumbers
<1>3. Options(ini).maximumConsecutiveInvalidMessages \in 0..(UIntValues - 1)
  BY <1>2, WrapsAround DEF Options
<1>4. \A http, grpc : Exports(ini, http, grpc) \in {"none", "HTTP", "GRPC"}
  BY DEF Exports
<1>5. {Options(ini).exportLogs, Options(ini).exportMetrics} \subseteq {"none", "HTTP", "GRPC"}
  BY <1>4 DEF Options
<1>. QED BY <1>1, <1>3, <1>5 DEF OptionsTyped

LEMMA NothingTyped == OptionsTyped(NoOptions) /\ ~ NoOptions.services
<1>1. IsIniFile(<<>>)
  BY DEF IsIniFile
<1>2. OptionsTyped(Options(<<>>))
  BY <1>1, FileTyped
<1>3. /\ NoOptions.publish = Options(<<>>).publish
      /\ NoOptions.subscribe = Options(<<>>).subscribe
      /\ NoOptions.maximumConsecutiveInvalidMessages
            = Options(<<>>).maximumConsecutiveInvalidMessages
      /\ NoOptions.exportLogs = Options(<<>>).exportLogs
      /\ NoOptions.exportMetrics = Options(<<>>).exportMetrics
      /\ NoOptions.services = FALSE
  BY DEF NoOptions, Options
<1>. QED BY <1>2, <1>3 DEF OptionsTyped

-----------------------------------------------------------------------------
(* The types of TypeOK, and no more counted than MaxCount: the state of    *)
(* the process for every set of files that are files.                      *)
THEOREM TypeCorrect == Spec => []TypeOK
<1>1. Inv => TypeOK
  <2>. SUFFICES ASSUME Inv PROVE TypeOK
    OBVIOUS
  <2>1. OptionsTyped(options)
    BY FileTyped, NothingTyped, ProcessAssumption DEF Inv, OptionsInv
  <2>2. PhaseTyped
    BY DEF Inv, PhaseInv
  <2>3. \A c \in Counters : counter[c] \in 0..MaxCount
    <3>1. \A c \in Counters : counter[c] \in Nat
      BY DEF Inv, CountInv, CountTyped
    <3>2. {"received", "duplicate", "overflow", "sent", "invalid"} = Counters
      BY DEF Counters, Counted
    <3>. QED BY <3>1, <3>2, ProcessAssumption DEF Inv, CountInv, WithinBound
  <2>4. \A c \in Counters : exported[c] \in 0..MaxCount
    <3>1. \A c \in Counters : exported[c] \in Nat /\ exported[c] <= counter[c]
      BY DEF Inv, CountInv, CountTyped, Behind
    <3>. QED BY <2>3, <3>1, ProcessAssumption
  <2>5. {counter, exported} \subseteq [Counters -> 0..MaxCount]
    BY <2>3, <2>4 DEF Inv, CountInv, CountTyped
  <2>6. \A c \in Reports : {loaded[c], lastReport[c], reported[c]} \subseteq 0..MaxCount
    <3>1. \A c \in Reports : /\ c \in Counters
                             /\ loaded[c] \in Nat /\ lastReport[c] \in Nat
                             /\ loaded[c] <= counter[c] /\ lastReport[c] <= counter[c]
                             /\ reported[c] = lastReport[c]
      BY DEF Inv, CountInv, CountTyped, Behind, Reports, Counters, Counted
    <3>. QED BY <2>3, <3>1, ProcessAssumption
  <2>7. {loaded, lastReport, reported} \subseteq [DOMAIN NoReport -> 0..MaxCount]
    BY <2>6, ReportKeys DEF Inv, CountInv, CountTyped
  <2>8. due \in BOOLEAN
    BY DEF Inv, CountInv, CountTyped
  <2>. QED BY <2>1, <2>2, <2>5, <2>7, <2>8 DEF TypeOK, OptionsTyped, PhaseTyped, Phases
<1>. QED BY <1>1, Invariance, PTL

-----------------------------------------------------------------------------
LEMMA ServedFromFile ==
    ASSUME Inv, broker # "none"
    PROVE  \E ini \in IniFiles : ~ Refuses(ini) /\ options = Options(ini)
BY NothingTyped DEF Inv, OptionsInv, PhaseInv, BrokerInv

\* Files whose options are out of the assumptions of the other modules are refused,
\* whatever else is in them.
LEMMA AcceptedLimits ==
    ASSUME NEW ini, IsIniFile(ini), ~ Refuses(ini)
    PROVE  /\ {MaximumNumberOfPublishers(ini), MaximumNumberOfSubscribers(ini),
                QueueCapacity(ini)} \subseteq Nat \ {0}
           /\ Port(ini, "PublishService") # 0 /\ Port(ini, "SubscribeService") # 0
           /\ Port(ini, "PublishService") # Port(ini, "SubscribeService")
<1>1. MaximumNumberOfPublishers(ini) \in Int
  BY Got, AskedNumbers DEF MaximumNumberOfPublishers
<1>2. MaximumNumberOfSubscribers(ini) \in Int
  BY Got, AskedNumbers DEF MaximumNumberOfSubscribers
<1>3. QueueCapacity(ini) \in Int
  BY Got, AskedNumbers DEF QueueCapacity
<1>4. /\ ~ RefusesBroker(ini)
      /\ ~ RefusesServer(ini, "PublishService") /\ ~ RefusesServer(ini, "SubscribeService")
  BY DEF Refuses
<1>5. ~ (MaximumNumberOfPublishers(ini) < 1) /\ ~ (MaximumNumberOfSubscribers(ini) < 1)
      /\ ~ (QueueCapacity(ini) < 1)
  BY <1>4 DEF RefusesBroker, RefusesLimits
<1>6. \A n \in Int : ~ (n < 1) => n \in Nat \ {0}
  OBVIOUS
<1>7. {MaximumNumberOfPublishers(ini), MaximumNumberOfSubscribers(ini),
         QueueCapacity(ini)} \subseteq Nat \ {0}
  BY <1>1, <1>2, <1>3, <1>5, <1>6
<1>8. Port(ini, "PublishService") # 0 /\ Port(ini, "SubscribeService") # 0
  BY <1>4 DEF RefusesServer
<1>9. Port(ini, "PublishService") # Port(ini, "SubscribeService")
  BY <1>4 DEF RefusesBroker
<1>. QED BY <1>7, <1>8, <1>9

LEMMA AcceptedToken ==
    ASSUME NEW ini, ~ Refuses(ini), NEW s \in {"PublishService", "SubscribeService"},
           Server(ini, s).token # ""
    PROVE  Server(ini, s).secured
<1>1. Get(ini, s, "accessToken", "") # ""
  BY DEF Server
<1>2. Has(ini, s, "accessToken")
  BY <1>1 DEF Get, Has
<1>3. ~ RefusesToken(ini, s)
  BY DEF Refuses, RefusesServer
<1>. QED BY <1>2, <1>3 DEF RefusesToken, Server

\* A broker comes to be only with options for which the other modules' assumptions
\* hold: Process::Process builds one only from what parseIniFile did not refuse.
THEOREM OptionsAreSound == Spec => []RunsWithinAssumptions
<1>1. Inv => RunsWithinAssumptions
  <2>. SUFFICES ASSUME Inv, broker # "none"
                PROVE  /\ options.services
                       /\ {options.maximumNumberOfPublishers,
                             options.maximumNumberOfSubscribers,
                             options.queueCapacity} \subseteq Nat \ {0}
                       /\ \A name \in DOMAIN options.retention :
                              options.retention[name] \in Nat \ {0}
                       /\ options.retention.maxHistory
                            <= options.retention.pickRetentionInterval
                       /\ 0 \notin {options.publish.port, options.subscribe.port}
                       /\ options.publish.port # options.subscribe.port
    BY DEF RunsWithinAssumptions
  <2>1. PICK ini \in IniFiles : ~ Refuses(ini) /\ options = Options(ini)
    BY ServedFromFile
  <2>2. /\ options.services
        /\ options.maximumNumberOfPublishers = MaximumNumberOfPublishers(ini)
        /\ options.maximumNumberOfSubscribers = MaximumNumberOfSubscribers(ini)
        /\ options.queueCapacity = QueueCapacity(ini)
        /\ options.publish.port = Port(ini, "PublishService")
        /\ options.subscribe.port = Port(ini, "SubscribeService")
        /\ options.retention = Fixture
    BY <2>1 DEF Options, Server
  <2>3. /\ {MaximumNumberOfPublishers(ini), MaximumNumberOfSubscribers(ini),
             QueueCapacity(ini)} \subseteq Nat \ {0}
        /\ Port(ini, "PublishService") # 0 /\ Port(ini, "SubscribeService") # 0
        /\ Port(ini, "PublishService") # Port(ini, "SubscribeService")
    BY <2>1, AcceptedLimits, ProcessAssumption
  <2>4. /\ \A name \in DOMAIN Fixture : Fixture[name] \in Nat \ {0}
        /\ Fixture.maxHistory <= Fixture.pickRetentionInterval
    BY DEF Fixture
  <2>. QED BY <2>2, <2>3, <2>4
<1>. QED BY <1>1, Invariance, PTL

\* An access token in the file comes with a key and a certificate, so that the server
\* is one whose RPCs look at it, or the file is refused.
THEOREM TokensAreSecured == Spec => []TokenIsSecured
<1>1. Inv => TokenIsSecured
  <2>. SUFFICES ASSUME Inv, broker # "none",
                       NEW server \in {options.publish, options.subscribe},
                       server.token # ""
                PROVE  server.secured
    BY DEF TokenIsSecured
  <2>1. PICK ini \in IniFiles : ~ Refuses(ini) /\ options = Options(ini)
    BY ServedFromFile
  <2>2. \E s \in {"PublishService", "SubscribeService"} : server = Server(ini, s)
    BY <2>1 DEF Options
  <2>. QED BY <2>1, <2>2, AcceptedToken
<1>. QED BY <1>1, Invariance, PTL

\* The broker runs over a file with a table, whatever the starts before it left.
THEOREM TableIsThere == Spec => []RunsWithTable
<1>1. Inv => RunsWithTable
  BY DEF Inv, PhaseInv, BrokerInv, RunsWithTable
<1>. QED BY <1>1, Invariance, PTL

\* The catch blocks of main() leave no provider and no broker behind, and a running
\* broker keeps the provider its log is written to.
THEOREM FailuresAreCleanedUp == Spec => []FailureCleansUp
<1>1. Inv => FailureCleansUp
  BY DEF Inv, PhaseInv, PhaseTyped, BrokerInv, ProviderInv, FailureCleansUp
<1>. QED BY <1>1, Invariance, PTL

\* The summaries of printSummary add up to what was counted when the last was made.
THEOREM SummariesAddUp == Spec => []ReportsAddUp
<1>1. Inv => ReportsAddUp
  BY ReportKeys DEF Inv, CountInv, Behind, ReportsAddUp
<1>. QED BY <1>1, Invariance, PTL
=============================================================================
