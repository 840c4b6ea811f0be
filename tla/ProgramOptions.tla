---------------------------- MODULE ProgramOptions --------------------------
(***************************************************************************)
(* From the initialization file to the options of the broker               *)
(* (programOptions.hpp and the option classes).  A file is a function from *)
(* <<section, key>> to a sequence of length at most one: its number or     *)
(* name, or nothing where the text does not convert to the type that is    *)
(* asked for.  Everything that throws on the way is a disjunct of Refuses; *)
(* what comes out otherwise is Options.                                    *)
(***************************************************************************)
EXTENDS Integers, Sequences

CONSTANTS WithOtlpGrpc,   \* built with WITH_OTLP_GRPC
          UIntValues      \* how many values an unsigned int has: 2^32

ASSUME OptionsAssumption ==
    /\ WithOtlpGrpc \in BOOLEAN
    /\ UIntValues \in Nat \ {0}

\* What the code asks for a number.
NumberKeys ==
    {"PublishService", "SubscribeService"} \X {"port"}
    \cup {"Broker"} \X {"queueCapacity"}
    \cup {"General"} \X {"verbosity", "printSummaryIntervalInMinutes"}
    \cup {"PublishService"} \X {"maximumNumberOfPublishers", "maximumMessageSizeInBytes",
                                "maximumNumberOfConsecutiveInvalidMessages"}
    \cup {"SubscribeService"} \X {"maximumNumberOfSubscribers"}
    \cup {"OTelHTTPMetricsOptions", "OTelGRPCMetricsOptions"}
            \X {"exportIntervalInMilliSeconds", "exportTimeOutInMilliSeconds"}

IsIniFile(ini) ==
    \A k \in DOMAIN ini \cap NumberKeys : ini[k] # <<>> => ini[k][1] \in Int

\* ptree::get with a default: also taken for text that does not convert.
Get(ini, section, key, default) ==
    LET k == <<section, key>>
    IN  IF k \in DOMAIN ini /\ ini[k] # <<>> THEN ini[k][1] ELSE default

\* ptree::get_optional.
Has(ini, section, key) == <<section, key>> \in DOMAIN ini

HasSection(ini, section) == \E k \in DOMAIN ini : k[1] = section

-----------------------------------------------------------------------------
(* Conversions.                                                            *)

DefaultPort == 50000

\* How many values a uint16_t has.
UInt16Values == 65536

\* ptree::get<uint16_t>: a negative number wraps, one that is too long for the
\* type does not convert.
UInt16(n, default) ==
    IF n \in (1 - UInt16Values)..(UInt16Values - 1) THEN n % UInt16Values ELSE default

\* Mutant of UInt32: the number stays negative.
Int32(n) == n

\* int to uint32_t, in a call of setMaximumConsecutiveInvalidMessages.
UInt32(n) == n % UIntValues

\* The default is the number of seconds in fifteen minutes, taken for minutes.
Minutes(ini) == Get(ini, "General", "printSummaryIntervalInMinutes", 900)

-----------------------------------------------------------------------------
(* A gRPC server: getGRPCServerOptions, GRPCServerOptions.                 *)

Port(ini, s) == UInt16(Get(ini, s, "port", DefaultPort), DefaultPort)

ServerKey(ini, s) == Get(ini, s, "clientKey", "")
ServerCertificate(ini, s) == Get(ini, s, "serverCertificate", "")

\* One of the two without the other is ignored.
Secured(ini, s) == ServerKey(ini, s) # "" /\ ServerCertificate(ini, s) # ""

\* std::filesystem::exists fails, or the setter of what is in the file throws.
Unusable(file) == file \in {"missing", "empty"}

\* Mutant of RefusesToken: it does not take a certificate to have a token.
RefusesEmptyToken(ini, s) ==
    Has(ini, s, "accessToken") /\ Get(ini, s, "accessToken", "") = ""

RefusesToken(ini, s) ==
    /\ Has(ini, s, "accessToken")
    /\ ~ Secured(ini, s) \/ Get(ini, s, "accessToken", "") = ""

RefusesServer(ini, s) ==
    \/ Get(ini, s, "host", "localhost") = ""
    \/ Port(ini, s) = 0
    \/ /\ Secured(ini, s)
       /\ Unusable(ServerKey(ini, s)) \/ Unusable(ServerCertificate(ini, s))
    \/ RefusesToken(ini, s)
    \/ Unusable(Get(ini, s, "clientCertificate", ""))

Server(ini, s) ==
    [port |-> Port(ini, s),
     secured |-> Secured(ini, s),
     token |-> Get(ini, s, "accessToken", "")]

-----------------------------------------------------------------------------
(* The broker: getPublishServiceOptions, getSubscribeServiceOptions,       *)
(* getBrokerOptions, and their setters.                                    *)

MaximumNumberOfPublishers(ini) ==
    Get(ini, "PublishService", "maximumNumberOfPublishers", 2048)
MaximumNumberOfSubscribers(ini) ==
    Get(ini, "SubscribeService", "maximumNumberOfSubscribers", 64)
QueueCapacity(ini) == Get(ini, "Broker", "queueCapacity", 8192)

\* Mutant of RefusesBroker: the ports are not compared.
RefusesLimits(ini) ==
    \/ MaximumNumberOfPublishers(ini) < 1
    \/ Get(ini, "PublishService", "maximumMessageSizeInBytes", 1) < 1
    \/ MaximumNumberOfSubscribers(ini) < 1
    \/ QueueCapacity(ini) < 1

RefusesBroker(ini) ==
    \/ RefusesLimits(ini)
    \/ Port(ini, "PublishService") = Port(ini, "SubscribeService")

-----------------------------------------------------------------------------
(* What is exported, and how.                                              *)

Collector(ini, section) == Get(ini, section, "host", "")

\* With HTTP if that section is there, otherwise with gRPC.
Exports(ini, http, grpc) ==
    CASE HasSection(ini, http) /\ Collector(ini, http) # "" -> "HTTP"
      [] ~ HasSection(ini, http) /\ HasSection(ini, grpc)
            /\ Collector(ini, grpc) # "" -> "GRPC"
      [] OTHER -> "none"

RefusesTimes(ini, section) ==
    \/ Get(ini, section, "exportIntervalInMilliSeconds", 15000) <= 0
    \/ Get(ini, section, "exportTimeOutInMilliSeconds", 500) <= 0

RefusesLogs(ini) ==
    /\ ~ HasSection(ini, "OTelHTTPLogOptions")
    /\ HasSection(ini, "OTelGRPCLogOptions") /\ ~ WithOtlpGrpc

RefusesMetrics(ini) ==
    LET http == "OTelHTTPMetricsOptions"
        grpc == "OTelGRPCMetricsOptions"
    IN  \/ /\ HasSection(ini, http) /\ Collector(ini, http) # ""
           /\ RefusesTimes(ini, http)
        \/ /\ ~ HasSection(ini, http) /\ HasSection(ini, grpc)
           /\ ~ WithOtlpGrpc \/ RefusesTimes(ini, grpc)

-----------------------------------------------------------------------------
(* parseIniFile.                                                           *)

Refuses(ini) ==
    \/ Get(ini, "Database", "sqlite3File", "uFilterPickerMessageStore.sqlite3") = ""
    \/ RefusesLogs(ini) \/ RefusesMetrics(ini)
    \/ RefusesServer(ini, "SubscribeService") \/ RefusesServer(ini, "PublishService")
    \/ RefusesBroker(ini)

\* What no file decides: retention is in minutes.
Fixture == [pickRetentionInterval |-> 30, maxHistory |-> 15, maxQueueCapacity |-> 8192]

Options(ini) ==
    [services |-> TRUE,
     publish |-> Server(ini, "PublishService"),
     subscribe |-> Server(ini, "SubscribeService"),
     maximumNumberOfPublishers |-> MaximumNumberOfPublishers(ini),
     maximumConsecutiveInvalidMessages |->
        UInt32(Get(ini, "PublishService", "maximumNumberOfConsecutiveInvalidMessages", 8)),
     maximumNumberOfSubscribers |-> MaximumNumberOfSubscribers(ini),
     queueCapacity |-> QueueCapacity(ini),
     retention |-> Fixture,
     printSummaryInterval |-> Minutes(ini),
     verbosity |-> Get(ini, "General", "verbosity", 3),
     deleteDatabaseIfExists |-> Get(ini, "Database", "deleteIfExists", FALSE),
     exportLogs |-> Exports(ini, "OTelHTTPLogOptions", "OTelGRPCLogOptions"),
     exportMetrics |-> Exports(ini, "OTelHTTPMetricsOptions", "OTelGRPCMetricsOptions")]

\* The file is gone when it is to be parsed: the options of the empty file, with
\* no services set.
NoOptions == [Options(<<>>) EXCEPT !.services = FALSE, !.printSummaryInterval = 15]
=============================================================================
