--------------------------- MODULE PublishService ---------------------------
(***************************************************************************)
(* The publish service (publishService.cpp): a gRPC callback server with   *)
(* one AsynchronousReader for each publisher's client-streaming Publish    *)
(* RPC, and the threads that start and stop the server.  gRPC constructs   *)
(* readers and calls their OnReadDone and OnDone on its own threads, the   *)
(* calls of one reader one at a time, those of different readers           *)
(* concurrently; the readers share the publisher count and mKeepRunning.   *)
(*                                                                         *)
(* gRPC is external.  It delivers a message or the end of the stream for a *)
(* started read, it calls OnDone once a finished reader has no read        *)
(* outstanding, and Shutdown returns when every reader is done.  A second  *)
(* Finish of one RPC is a misuse that it need not survive; here it is      *)
(* counted and otherwise ignored, the most the code could hope for.        *)
(***************************************************************************)
EXTENDS Integers, Sequences, FiniteSets

CONSTANTS Publishers,                 \* the Publish RPCs there will be
          Unauthorized,               \* those without the access token
          MaximumNumberOfPublishers,
          MaximumConsecutiveInvalidMessages,
          HandlerThreads,   \* bound: gRPC threads that construct readers at once
          StopBeforeStart,  \* stop() may overtake the thread that runs start()
          MaxMessages       \* bound on the messages of each publisher

ASSUME PublishAssumption ==
    /\ IsFiniteSet(Publishers)
    /\ Unauthorized \subseteq Publishers
    /\ MaximumNumberOfPublishers \in Nat \ {0}
    /\ MaximumConsecutiveInvalidMessages \in Nat
    /\ HandlerThreads \in Nat \ {0}
    /\ StopBeforeStart \in BOOLEAN
    /\ MaxMessages \in [Publishers -> Nat]

\* What the callback does with a pick: return, throw std::invalid_argument,
\* DuplicatePickException, or another std::exception.
Outcomes == {"accepted", "invalid", "duplicate", "failed"}

Statuses == {"none", "OK", "RESOURCE_EXHAUSTED", "UNAUTHENTICATED",
             "INVALID_ARGUMENT", "UNAVAILABLE"}

VARIABLES reader,          \* of each RPC: the AsynchronousReader and its call
          sent,            \* history: outcomes of the messages read from each RPC
          mPublisherCount,
          mKeepRunning,
          server,          \* mServer and whether it is being shut down
          mServerStarted,
          starter,         \* where start() is, on the service's own thread
          stopper          \* where stop() is

readerVars == <<reader, sent, mPublisherCount>>
serviceVars == <<mKeepRunning, server, mServerStarted, starter, stopper>>
vars == <<readerVars, serviceVars>>

Server == INSTANCE GrpcServer WITH count <- mPublisherCount

NoReader == [phase |-> "none", registered |-> FALSE, reading |-> FALSE,
             finishes |-> 0, status |-> "none", invalidInARow |-> 0,
             total |-> 0, invalid |-> 0, rejected |-> 0, duplicate |-> 0,
             response |-> <<>>]

Init ==
    /\ reader = [p \in Publishers |-> NoReader]
    /\ sent = [p \in Publishers |-> <<>>]
    /\ Server!ServerInit

-----------------------------------------------------------------------------
(* The reader's constructor.                                               *)

InPhase(phase) == { p \in Publishers : reader[p].phase = phase }
Registered == { p \in Publishers : reader[p].registered }

\* grpc::ServerReadReactor::Finish.
Finished(r, status) ==
    [r EXCEPT !.finishes = @ + 1, !.status = IF @ = "none" THEN status ELSE @]

\* Mutant of LimitReached: one publisher too many.
LimitExceeded == mPublisherCount > MaximumNumberOfPublishers

LimitReached == mPublisherCount >= MaximumNumberOfPublishers

RefusePublisher(p) ==
    /\ server = "serving"
    /\ reader[p].phase = "none"
    /\ LimitReached
    /\ reader' = [reader EXCEPT ![p] =
                    Finished([@ EXCEPT !.phase = "open"], "RESOURCE_EXHAUSTED")]
    /\ UNCHANGED <<sent, mPublisherCount, serviceVars>>

\* The count has been read, and is changed only by Register.
AdmitPublisher(p) ==
    /\ server = "serving"
    /\ reader[p].phase = "none"
    /\ ~ LimitReached
    /\ Cardinality(InPhase("admitted")) < HandlerThreads
    /\ reader' = [reader EXCEPT ![p].phase = "admitted"]
    /\ UNCHANGED <<sent, mPublisherCount, serviceVars>>

\* Mutant of RejectToken: nothing returns after the Finish.
RejectTokenGoesOn(p) ==
    /\ reader[p].phase = "admitted"
    /\ p \in Unauthorized
    /\ mPublisherCount' = mPublisherCount + 1
    /\ reader' = [reader EXCEPT ![p] =
          Finished([@ EXCEPT !.phase = "open", !.registered = TRUE], "UNAUTHENTICATED")]
    /\ UNCHANGED <<sent, serviceVars>>

RejectToken(p) ==
    /\ reader[p].phase = "admitted"
    /\ p \in Unauthorized
    /\ reader' = [reader EXCEPT ![p] =
                    Finished([@ EXCEPT !.phase = "open"], "UNAUTHENTICATED")]
    /\ UNCHANGED <<sent, mPublisherCount, serviceVars>>

\* StartRead if the service runs, otherwise Finish.
ReadOrFinish(r, status) ==
    IF mKeepRunning THEN [r EXCEPT !.reading = TRUE] ELSE Finished(r, status)

Register(p) ==
    /\ reader[p].phase = "admitted"
    /\ p \notin Unauthorized
    /\ mPublisherCount' = mPublisherCount + 1
    /\ reader' = [reader EXCEPT ![p] =
                    ReadOrFinish([@ EXCEPT !.phase = "open", !.registered = TRUE],
                                 "OK")]
    /\ UNCHANGED <<sent, serviceVars>>

-----------------------------------------------------------------------------
(* OnReadDone and OnDone.                                                  *)

Accepted(r) == [r EXCEPT !.invalidInARow = 0]

\* Too many invalid messages finish the RPC; nothing returns after it.
Invalid(r) ==
    LET counted == [r EXCEPT !.invalidInARow = @ + 1, !.invalid = @ + 1]
    IN  IF counted.invalidInARow > MaximumConsecutiveInvalidMessages
        THEN Finished(counted, "INVALID_ARGUMENT")
        ELSE counted

\* Mutant of Duplicate: a duplicate is not a rejected pick.
DuplicateOnly(r) == [r EXCEPT !.duplicate = @ + 1]

Duplicate(r) == [r EXCEPT !.rejected = @ + 1, !.duplicate = @ + 1]

\* Mutant of Failed: every exception is taken for an invalid message.
FailedIsInvalid(r) == Invalid([r EXCEPT !.rejected = @ + 1])

Failed(r) == [r EXCEPT !.rejected = @ + 1]

Judged(r, outcome) ==
    CASE outcome = "accepted"  -> Accepted(r)
      [] outcome = "invalid"   -> Invalid(r)
      [] outcome = "duplicate" -> Duplicate(r)
      [] outcome = "failed"    -> Failed(r)

\* A read has ended, with one message more.
Counted(r) == [r EXCEPT !.reading = FALSE, !.total = @ + 1]

OnReadDone(p, outcome) ==
    /\ reader[p].reading
    /\ Len(sent[p]) < MaxMessages[p]
    /\ sent' = [sent EXCEPT ![p] = Append(@, outcome)]
    /\ reader' = [reader EXCEPT ![p] =
          ReadOrFinish(Judged(Counted(@), outcome), "UNAVAILABLE")]
    /\ UNCHANGED <<mPublisherCount, serviceVars>>

\* Mutant of OnReadDoneNotOk: a stopping service leaves the RPC to the client.
OnReadDoneNotOkWhileRunning(p) ==
    /\ reader[p].reading
    /\ reader' = [reader EXCEPT ![p].reading = FALSE,
                                ![p].finishes = IF mKeepRunning THEN @ + 1 ELSE @]
    /\ UNCHANGED <<sent, mPublisherCount, serviceVars>>

\* The publisher has no more picks, has cancelled, or is cut off by Shutdown.
OnReadDoneNotOk(p) ==
    LET r == reader[p]
    IN  /\ r.reading
        /\ reader' = [reader EXCEPT ![p] =
              Finished([r EXCEPT !.reading = FALSE,
                                 !.response = <<r.total, r.rejected, r.duplicate>>],
                       IF mKeepRunning THEN "OK" ELSE "UNAVAILABLE")]
        /\ UNCHANGED <<sent, mPublisherCount, serviceVars>>

\* Mutant of Departures: readers that were turned away are subtracted too.
EveryDeparture(p) == 1

Departures(p) == IF reader[p].registered THEN 1 ELSE 0

OnDone(p) ==
    /\ reader[p].phase = "open"
    /\ reader[p].finishes > 0
    /\ ~ reader[p].reading
    /\ mPublisherCount' = mPublisherCount - Departures(p)
    /\ reader' = [reader EXCEPT ![p].phase = "done", ![p].registered = FALSE]
    /\ UNCHANGED <<sent, serviceVars>>

-----------------------------------------------------------------------------
Start == Server!Start /\ UNCHANGED <<reader, sent>>

Outstanding == InPhase("admitted") \cup InPhase("open")
Stop == Server!Stop(Outstanding) /\ UNCHANGED <<reader, sent>>

Next ==
    \/ \E p \in Publishers :
          \/ RefusePublisher(p) \/ AdmitPublisher(p) \/ RejectToken(p) \/ Register(p)
          \/ \E outcome \in Outcomes : OnReadDone(p, outcome)
          \/ OnReadDoneNotOk(p)
          \/ OnDone(p)
    \/ Start
    \/ Stop

Spec == Init /\ [][Next]_vars

\* Threads run; gRPC ends the reads of a server being shut down when the
\* deadline passes, and then reports every finished RPC as done.
FairSpec ==
    /\ Spec
    /\ WF_vars(Start)
    /\ WF_vars(stopper # "none" /\ Stop)
    /\ \A p \in Publishers :
          /\ WF_vars(RejectToken(p) \/ Register(p))
          /\ WF_vars(server = "shutting_down" /\ OnReadDoneNotOk(p))
          /\ WF_vars(OnDone(p))

-----------------------------------------------------------------------------
(* Properties.                                                             *)

Reader == [phase : {"none", "admitted", "open", "done"}, registered : BOOLEAN,
           reading : BOOLEAN, finishes : Nat, status : Statuses,
           invalidInARow : Nat, total : Nat, invalid : Nat, rejected : Nat,
           duplicate : Nat, response : Seq(Nat)]

TypeOK ==
    /\ reader \in [Publishers -> Reader]
    /\ sent \in [Publishers -> Seq(Outcomes)]
    /\ Server!ServerTypeOK
    /\ \A p \in Publishers :
          reader[p].status \in {"RESOURCE_EXHAUSTED", "UNAUTHENTICATED"} =>
              ~ reader[p].registered /\ sent[p] = <<>>

\* The count that admits publishers is the number of publishers, whatever ends
\* their RPCs and also across the resets of start() and stop(), provided the
\* server has started before it is stopped.
CountIsRegistered == mPublisherCount = Cardinality(Registered)

\* The limit is read before the count is raised, so it can be passed, but by no
\* more publishers than can be between the two at once, less one.
OvershootBounded ==
    mPublisherCount + Cardinality(InPhase("admitted"))
        <= MaximumNumberOfPublishers + HandlerThreads - 1

\* A publisher is purged only "after submitting this many invalid messages", with
\* no accepted pick between the first and the last of them.  (The code waits for one
\* more than this many, and counts on over duplicates and failures, after which the
\* messages are hardly consecutive: the header promises neither.)
PurgeIsDeserved ==
    \A p \in Publishers : reader[p].status = "INVALID_ARGUMENT" =>
        \E i, j \in 1..Len(sent[p]) :
            /\ \A k \in i..j : sent[p][k] # "accepted"
            /\ Cardinality({ k \in i..j : sent[p][k] = "invalid" })
                    >= MaximumConsecutiveInvalidMessages

SentAs(p, outcomes) == Cardinality({ k \in DOMAIN sent[p] : sent[p][k] \in outcomes })

\* The response to a publisher adds up over the whole session as the interface has
\* it: total_picks are the messages read, duplicate_picks the duplicates, which are
\* among picks_rejected, and the accepted picks among the rest.  (That these "are"
\* the rest does not hold: the code leaves invalid picks out of picks_rejected.)
ResponseAddsUp ==
    \A p \in Publishers : reader[p].response # <<>> =>
        LET total == reader[p].response[1]
            rejected == reader[p].response[2]
            duplicates == reader[p].response[3]
        IN  /\ total = Len(sent[p])
            /\ duplicates = SentAs(p, {"duplicate"})
            /\ duplicates <= rejected
            /\ SentAs(p, {"accepted"}) <= total - rejected

\* stop() returns: whatever the publishers are doing when the server is shut
\* down, every RPC comes to its end.
ShutdownDrains == stopper = "draining" ~> stopper = "stopped"

\* "After submitting this many invalid messages consecutively the client is
\* purged": no more of its messages are taken then.
PurgedIsSilenced ==
    [][\A p \in Publishers : reader[p].status = "INVALID_ARGUMENT" =>
          sent'[p] = sent[p]]_vars
=============================================================================
