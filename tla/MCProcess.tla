------------------------------ MODULE MCProcess -----------------------------
(***************************************************************************)
(* Initialization files for the TLC run on Process.                        *)
(***************************************************************************)
EXTENDS Process, TLC

Publish == "PublishService"
Subscribe == "SubscribeService"

\* The least that makes a broker: services with a port each.
Plain == (<<Publish, "port">> :> <<50001>>) @@ (<<Subscribe, "port">> :> <<50002>>)

With(ini, section, key, value) == (<<section, key>> :> value) @@ ini

\* One number out of the ordinary; <<>> is text that is none.
Numbers ==
    LET Keys == {<<"Broker", "queueCapacity">>,
                 <<Publish, "maximumNumberOfPublishers">>,
                 <<Publish, "maximumMessageSizeInBytes">>,
                 <<Publish, "maximumNumberOfConsecutiveInvalidMessages">>,
                 <<Subscribe, "maximumNumberOfSubscribers">>,
                 <<"General", "printSummaryIntervalInMinutes">>}
    IN  { With(Plain, k[1], k[2], v) : k \in Keys, v \in {<<>>, <<-1>>, <<0>>, <<1>>} }

\* Ports at the ends of their type, past them, and equal.
Ports ==
    { With(With(Plain, Publish, "port", v), Subscribe, "port", w) :
        v \in {<<>>, <<0>>, <<65535>>},
        w \in {<<-1>>, <<65536>>, <<50001>>} }

\* Keys, certificates and tokens in every combination.
Credentials ==
    UNION { { With(With(With(Plain, s, "clientKey", <<k>>),
                        s, "serverCertificate", <<c>>), s, "accessToken", <<t>>),
              With(With(Plain, s, "clientKey", <<k>>), s, "serverCertificate", <<c>>),
              With(Plain, s, "accessToken", <<t>>) } :
            s \in {Publish, Subscribe}, k \in {"", "key", "missing"},
            c \in {"", "certificate", "empty"}, t \in {"", "token"} }

\* Exporters.
Exporters ==
    { With(With(Plain, log, "host", <<h>>), metrics, "host", <<h>>) :
        log \in {"OTelHTTPLogOptions", "OTelGRPCLogOptions"},
        metrics \in {"OTelHTTPMetricsOptions", "OTelGRPCMetricsOptions"},
        h \in {"", "collector"} }
    \cup { With(With(Plain, "OTelHTTPMetricsOptions", "host", <<"collector">>),
                "OTelHTTPMetricsOptions", "exportIntervalInMilliSeconds", <<0>>),
           With(With(Plain, "OTelHTTPLogOptions", "host", <<"collector">>),
                "General", "verbosity", <<2>>) }

Strings ==
    { With(Plain, "Database", "sqlite3File", <<"">>),
      With(Plain, "Database", "deleteIfExists", <<TRUE>>),
      With(Plain, Publish, "host", <<"">>),
      With(Plain, Subscribe, "clientCertificate", <<"missing">>) }

MCIniFiles == {Plain} \cup Numbers \cup Ports \cup Credentials \cup Exporters \cup Strings
=============================================================================
