------------------------------- MODULE Process ------------------------------
(***************************************************************************)
(* main() and the Process class (main.cpp): arguments, initialization      *)
(* file, logger (logger.hpp), metrics (metrics.hpp), database and broker   *)
(* are set up one after the other, each may fail and has what came before  *)
(* it cleaned up; then the main thread watches the broker, prints a        *)
(* summary now and then, and ends it.  Beside it the broker's threads      *)
(* count picks (metricsSingleton.cpp) and write to the log, and the        *)
(* exporter reads the counters.  The file of the database survives.        *)
(*                                                                         *)
(* How the broker starts and stops its threads is in BrokerLifecycle, and  *)
(* what they do to picks in Broker; here it is "built", "running" or gone. *)
(***************************************************************************)
EXTENDS ProgramOptions

CONSTANTS IniFiles,    \* the initialization files there may be
          MaxStarts,   \* bound on the times the process is started
          MaxCount     \* bound on all that is counted in one of them

ASSUME ProcessAssumption ==
    /\ \A ini \in IniFiles : IsIniFile(ini)
    /\ MaxStarts \in Nat \ {0} /\ MaxCount \in Nat

VARIABLES main,            \* where main() is
          starts,
          options,         \* programOptions
          loggerProvider,  \* OpenTelemetry's logger provider: "none", "set", or
                           \* "null", which the sink of the logger dereferences
          meterProvider,   \* its meter provider: "none" or "set"
          table,           \* the database file: "absent", without a table
                           \* ("empty") or with one ("ready")
          broker,          \* "none", "built", "launching" or "running"
          mInterrupted,
          exit             \* how the process ended

VARIABLES counter,      \* MetricsSingleton's counters
          exported,     \* what the exporter last read of them
          due,          \* the interval since the last summary has passed
          loaded,       \* the counters that printSummary has loaded
          lastReport,   \* mPicksReceivedLastReport, mPicksSentLastReport
          reported      \* history: the sum of what the summaries said

phaseVars == <<main, starts, options, mInterrupted, exit>>
otherVars == <<loggerProvider, meterProvider, table, broker>>
summaryVars == <<due, loaded, lastReport, reported>>
countVars == <<counter, exported>>
vars == <<phaseVars, otherVars, summaryVars, countVars>>

\* Nothing increments mInvalidPicksReceivedCounter.
Counted == {"received", "duplicate", "overflow", "sent"}
Counters == Counted \cup {"invalid"}

NoCounts == [c \in Counters |-> 0]
NoReport == [received |-> 0, sent |-> 0]

Init ==
    /\ main = "arguments" /\ starts = 1 /\ exit = "none"
    /\ options = NoOptions
    /\ loggerProvider = "none" /\ meterProvider = "none"
    /\ table = "absent"
    /\ broker = "none"
    /\ mInterrupted = FALSE
    /\ counter = NoCounts /\ exported = NoCounts
    /\ due = FALSE /\ loaded = NoReport
    /\ lastReport = NoReport /\ reported = NoReport

Goes(from, to) ==
    /\ main = from
    /\ main' = to
    /\ exit' = "none"
    /\ UNCHANGED <<starts, mInterrupted, countVars, summaryVars>>

Ends(from, status) ==
    /\ main = from
    /\ main' = "ended"
    /\ exit' = status
    /\ UNCHANGED <<starts, mInterrupted, countVars, summaryVars>>

-----------------------------------------------------------------------------
(* The way to a broker.                                                    *)

\* parseCommandLineOptions: help; no, an unknown or a missing argument.
ReadArguments ==
    /\ \/ Goes("arguments", "file")
       \/ Ends("arguments", "success")
       \/ Ends("arguments", "failure")
    /\ UNCHANGED <<options, otherVars>>

\* parseIniFile, of a file that may be gone by now or not be an ini file at all.
ParseIniFile ==
    /\ main = "file"
    /\ \/ Ends("file", "failure") /\ UNCHANGED options
       \/ Goes("file", "logger") /\ options' = NoOptions
       \/ \E ini \in IniFiles :
             IF Refuses(ini)
             THEN Ends("file", "failure") /\ UNCHANGED options
             ELSE Goes("file", "logger") /\ options' = Options(ini)
    /\ UNCHANGED otherVars

InitializeLogger ==
    /\ Goes("logger", "metrics")
    /\ loggerProvider' = IF options.exportLogs = "none" THEN "none" ELSE "set"
    /\ UNCHANGED <<options, meterProvider, table, broker>>

LoggerFails ==
    /\ options.exportLogs # "none"
    /\ Ends("logger", "failure")
    /\ UNCHANGED <<options, otherVars>>

InitializeMetrics ==
    /\ Goes("metrics", "database")
    /\ meterProvider' = IF options.exportMetrics = "none" THEN "none" ELSE "set"
    /\ UNCHANGED <<options, loggerProvider, table, broker>>

\* Mutant of MetricsFail: nothing is cleaned up.
MetricsFailUncleaned ==
    /\ options.exportMetrics # "none"
    /\ Goes("metrics", "return")
    /\ UNCHANGED <<options, otherVars>>

MetricsFail ==
    /\ options.exportMetrics # "none"
    /\ Goes("metrics", "clean logger")
    /\ UNCHANGED <<options, otherVars>>

Exists == table # "absent"

\* Process::Process chooses the mode; the file is deleted before it is created.
Create == Exists /\ options.deleteDatabaseIfExists

\* sqlite3_open_v2 makes the file, and CREATE TABLE is the next statement.
OpenDatabase ==
    /\ Goes("database", IF Create \/ ~ Exists THEN "table" ELSE "broker")
    /\ table' = IF Create \/ ~ Exists THEN "empty" ELSE table
    /\ UNCHANGED <<options, loggerProvider, meterProvider, broker>>

CreateTables ==
    /\ Goes("table", "broker")
    /\ table' = "ready"
    /\ UNCHANGED <<options, loggerProvider, meterProvider, broker>>

\* The file cannot be removed or opened, or the table not be made.
DatabaseFails ==
    /\ \/ /\ Goes("database", "clean metrics")
          /\ table' \in {table} \cup (IF Create THEN {"absent"} ELSE {})
       \/ Goes("table", "clean metrics") /\ UNCHANGED table
    /\ UNCHANGED <<options, loggerProvider, meterProvider, broker>>

\* Mutant of Loads: what cannot be loaded is no picks.
LoadsAnything == TRUE

\* Database::load throws when there is no table to select from.
Loads == table = "ready"

ConstructBroker ==
    /\ options.services
    /\ Loads
    /\ Goes("broker", "launch")
    /\ broker' = "built"
    /\ UNCHANGED <<options, loggerProvider, meterProvider, table>>

BrokerFails ==
    /\ Goes("broker", "clean metrics")
    /\ UNCHANGED <<options, otherVars>>

-----------------------------------------------------------------------------
(* Process::start, handleMainThread, stop.                                 *)

\* Broker::start launches its threads one by one ...
BeginLaunch ==
    /\ broker = "built"
    /\ Goes("launch", "launch")
    /\ broker' = "launching"
    /\ UNCHANGED <<options, loggerProvider, meterProvider, table>>

Launch ==
    /\ broker = "launching"
    /\ Goes("launch", "watch")
    /\ broker' = "running"
    /\ UNCHANGED <<options, loggerProvider, meterProvider, table>>

\* ... and one of them cannot be.
LaunchFails ==
    /\ broker = "launching"
    /\ Goes("launch", "clean metrics")
    /\ UNCHANGED <<options, otherVars>>

InLoop == main \in {"watch", "summary", "load sent", "report"}

\* The signal handler is installed by then; before it, a signal is Killed.
Interrupt ==
    /\ InLoop
    /\ ~ mInterrupted
    /\ mInterrupted' = TRUE
    /\ UNCHANGED <<main, starts, options, exit, otherVars, summaryVars, countVars>>

\* A signal has come, or a future has an exception ...
LeaveLoop ==
    /\ Goes("watch", "stop")
    /\ UNCHANGED <<options, otherVars>>

\* ... or neither.
CheckFuturesOkay ==
    /\ ~ mInterrupted
    /\ Goes("watch", "summary")
    /\ UNCHANGED <<options, otherVars>>

\* Mutant of IntervalPasses: every turn of the loop begins a new interval.
IntervalBeginsAgain == UNCHANGED vars

IntervalPasses ==
    /\ InLoop
    /\ ~ due
    /\ due' = TRUE
    /\ UNCHANGED <<phaseVars, otherVars, countVars, loaded, lastReport, reported>>

SummaryIsDue == options.printSummaryInterval > 0 /\ due

SkipSummary ==
    /\ ~ SummaryIsDue
    /\ Goes("summary", "watch")
    /\ UNCHANGED <<options, otherVars>>

\* printSummary: two counters are loaded ...
LoadReceived ==
    /\ main = "summary"
    /\ SummaryIsDue
    /\ main' = "load sent"
    /\ due' = FALSE
    /\ loaded' = [loaded EXCEPT !.received = counter["received"]]
    /\ UNCHANGED <<starts, options, mInterrupted, exit, otherVars, countVars,
                   lastReport, reported>>

LoadSent ==
    /\ main = "load sent"
    /\ main' = "report"
    /\ loaded' = [loaded EXCEPT !.sent = counter["sent"]]
    /\ UNCHANGED <<starts, options, mInterrupted, exit, otherVars, countVars,
                   due, lastReport, reported>>

\* Mutant of Reported: the counters are loaded once more.
CountersAtReport == [c \in DOMAIN NoReport |-> counter[c]]

\* ... and what they are is kept for the difference of the next report.
Reported == loaded

Report ==
    /\ main = "report"
    /\ main' = "watch"
    /\ reported' = [c \in DOMAIN NoReport |-> reported[c] + (loaded[c] - lastReport[c])]
    /\ lastReport' = Reported
    /\ UNCHANGED <<starts, options, mInterrupted, exit, otherVars, countVars,
                   due, loaded>>

\* Broker::stop; it throws what the database cleaner threw.
StopBroker ==
    /\ \/ Ends("stop", "success")
       \/ Goes("stop", "clean metrics")
    /\ broker' = "none"
    /\ UNCHANGED <<options, loggerProvider, meterProvider, table>>

-----------------------------------------------------------------------------
(* The catch blocks.                                                       *)

\* Metrics::cleanup.
CleanUpMetrics ==
    /\ Goes("clean metrics", "clean logger")
    /\ meterProvider' = "none"
    /\ UNCHANGED <<options, loggerProvider, table, broker>>

\* Logger::cleanup leaves no provider behind, not even the one there was at first.
CleanUpLogger ==
    /\ Goes("clean logger", "return")
    /\ loggerProvider' = IF loggerProvider = "set" THEN "null" ELSE loggerProvider
    /\ UNCHANGED <<options, meterProvider, table, broker>>

\* spdlog's levels: of what a running broker logs nothing is critical.
Logs(level) == options.verbosity >= (CASE level = "information" -> 3 [] level = "warning" -> 2)

\* ~Process stops a broker that was launched, and says so.
Return ==
    /\ IF broker # "none" /\ Logs("information") /\ loggerProvider = "null"
       THEN Ends("return", "crashed")
       ELSE Ends("return", "failure")
    /\ broker' = "none"
    /\ UNCHANGED <<options, loggerProvider, meterProvider, table>>

-----------------------------------------------------------------------------
(* Beside the main thread.                                                 *)

Launched == broker \in {"launching", "running"}

\* MetricsSingleton's increments.
Count(c) ==
    /\ Launched
    /\ counter["received"] + counter["duplicate"] + counter["overflow"]
         + counter["sent"] < MaxCount
    /\ counter' = [counter EXCEPT ![c] = @ + 1]
    /\ UNCHANGED <<phaseVars, otherVars, summaryVars, exported>>

\* Mutant of ValueOf: the callback of one instrument reads for another.
ValueOfOther(c) == IF c = "overflow" THEN counter["received"] ELSE counter[c]

\* The callback of an instrument.
ValueOf(c) == counter[c]

Observe(c) ==
    /\ broker # "none" /\ meterProvider = "set"
    /\ exported' = [exported EXCEPT ![c] = ValueOf(c)]
    /\ UNCHANGED <<phaseVars, otherVars, summaryVars, counter>>

\* A thread of a broker that could not be launched altogether writes to the log.
ThreadLogs ==
    /\ Launched /\ Logs("warning") /\ loggerProvider = "null"
    /\ Ends(main, "crashed")
    /\ broker' = "none"
    /\ UNCHANGED <<options, loggerProvider, meterProvider, table>>

\* The operating system ends the process, wherever it is.
Killed ==
    /\ main # "ended"
    /\ Ends(main, "killed")
    /\ broker' = "none"
    /\ UNCHANGED <<options, loggerProvider, meterProvider, table>>

\* Everything but the file is as new.
StartAgain ==
    /\ main = "ended"
    /\ starts < MaxStarts
    /\ main' = "arguments" /\ starts' = starts + 1 /\ exit' = "none"
    /\ options' = NoOptions
    /\ loggerProvider' = "none" /\ meterProvider' = "none"
    /\ broker' = "none"
    /\ mInterrupted' = FALSE
    /\ counter' = NoCounts /\ exported' = NoCounts
    /\ due' = FALSE /\ loaded' = NoReport
    /\ lastReport' = NoReport /\ reported' = NoReport
    /\ UNCHANGED table

SetUp ==
    \/ ReadArguments \/ ParseIniFile
    \/ InitializeLogger \/ LoggerFails \/ InitializeMetrics \/ MetricsFail
    \/ OpenDatabase \/ CreateTables \/ DatabaseFails
    \/ ConstructBroker \/ BrokerFails

Watch == CheckFuturesOkay \/ SkipSummary \/ LoadReceived \/ LoadSent \/ Report

Run ==
    \/ BeginLaunch \/ Launch \/ LaunchFails
    \/ LeaveLoop \/ Watch \/ StopBroker

CleanUp == CleanUpMetrics \/ CleanUpLogger \/ Return

Main == SetUp \/ Run \/ CleanUp

Next ==
    \/ Main
    \/ Interrupt \/ IntervalPasses \/ Killed \/ StartAgain
    \/ \E c \in Counted : Count(c)
    \/ \E c \in Counters : Observe(c)
    \/ ThreadLogs

Spec == Init /\ [][Next]_vars

\* Time passes, and the main thread runs.
FairSpec ==
    /\ Spec
    /\ WF_vars(IntervalPasses)
    /\ WF_vars(Watch)

-----------------------------------------------------------------------------
(* Properties.                                                             *)

TypeOK ==
    /\ main \in {"arguments", "file", "logger", "metrics", "database", "table",
                 "broker", "launch", "watch", "summary", "load sent", "report",
                 "stop", "clean metrics", "clean logger", "return", "ended"}
    /\ starts \in 1..MaxStarts
    /\ {options.publish.port, options.subscribe.port} \subseteq 0..(UInt16Values - 1)
    /\ options.maximumConsecutiveInvalidMessages \in 0..(UIntValues - 1)
    /\ {options.exportLogs, options.exportMetrics} \subseteq {"none", "HTTP", "GRPC"}
    /\ loggerProvider \in {"none", "set", "null"} /\ meterProvider \in {"none", "set"}
    /\ table \in {"absent", "empty", "ready"}
    /\ broker \in {"none", "built", "launching", "running"}
    /\ mInterrupted \in BOOLEAN /\ due \in BOOLEAN
    /\ exit \in {"none", "success", "failure", "crashed", "killed"}
    /\ exit # "none" <=> main = "ended"
    /\ {counter, exported} \subseteq [Counters -> 0..MaxCount]
    /\ {loaded, lastReport, reported} \subseteq [DOMAIN NoReport -> 0..MaxCount]

\* Whatever the file says, a broker comes to be only with options for which the
\* other modules are meant: their assumptions on limits and capacities hold, the
\* services have a port each, and the database remembers a pick for longer than
\* the store must keep it.
RunsWithinAssumptions ==
    broker # "none" =>
        /\ options.services
        /\ {options.maximumNumberOfPublishers, options.maximumNumberOfSubscribers,
             options.queueCapacity} \subseteq Nat \ {0}
        /\ \A name \in DOMAIN options.retention : options.retention[name] \in Nat \ {0}
        /\ options.retention.maxHistory <= options.retention.pickRetentionInterval
        /\ 0 \notin {options.publish.port, options.subscribe.port}
        /\ options.publish.port # options.subscribe.port

\* A configured access token is not passed over: the constructor of a reader or
\* writer looks at the token only if the server is secured, and start() secures it
\* only with a key and a certificate, silently otherwise.  What the constructors do
\* when they have looked is in PublishService and SubscribeService.
TokenIsSecured ==
    broker # "none" =>
        \A server \in {options.publish, options.subscribe} :
            server.token # "" => server.secured

\* The process runs with the table of picks, though the constructor of the
\* database believes in any file that is there.
RunsWithTable == broker # "none" => table = "ready"

\* A failure leaves no provider and no broker behind, wherever in the set-up it
\* comes; and the provider is taken from under a broker that can still write to
\* the log only if that could not be launched.
FailureCleansUp ==
    /\ exit = "failure" =>
          loggerProvider # "set" /\ meterProvider = "none" /\ broker = "none"
    /\ loggerProvider = "null" => broker \in {"none", "launching"}

\* The summaries add up to what was counted when the last of them was made, though
\* picks are counted while it is, and neither they nor the exporter tell of more.
ReportsAddUp ==
    /\ \A c \in DOMAIN NoReport :
          reported[c] = lastReport[c] /\ reported[c] <= counter[c]
    /\ \A c \in Counters : exported[c] <= counter[c]

\* Every pick received is told of in a summary while the process runs, if
\* summaries are wanted.
EveryPickIsReported ==
    \A n \in 1..MaxCount :
        InLoop /\ options.printSummaryInterval > 0 /\ counter["received"] >= n
            ~> reported["received"] >= n \/ ~ InLoop \/ mInterrupted
=============================================================================
