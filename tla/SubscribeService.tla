-------------------------- MODULE SubscribeService --------------------------
(***************************************************************************)
(* The subscribe service (subscribeService.cpp): a gRPC callback server    *)
(* with one AsynchronousWriter for each subscriber's StreamSince RPC.  A   *)
(* writer has a queue of the picks it last got from the pick store, and a  *)
(* loop, nextWrite, that polls the store on a gRPC thread and leaves it    *)
(* when it has a pick to write or the RPC is to end; the first turns of    *)
(* the loop belong to the constructor.                                     *)
(*                                                                         *)
(* The pick store is PickBacklog, which PickStore is shown to be while no  *)
(* pick expires.  gRPC is external: it ends a started write with           *)
(* OnWriteDone, calls OnCancel for a cancelled RPC when its constructor    *)
(* has returned, concurrently with nextWrite, and calls OnDone when        *)
(* nothing else of a finished RPC is outstanding.  A second Finish is      *)
(* counted and otherwise ignored.                                          *)
(***************************************************************************)
EXTENDS PickBacklog, Sequences

CONSTANTS Backfilling,                 \* the StreamSince RPCs with a backfill_duration
          Unauthorized,                \* those without the access token
          MaximumNumberOfSubscribers,
          StopBeforeStart,             \* stop() may overtake start()'s thread
          MaxPicks                     \* bound on the picks enqueued

ASSUME SubscribeAssumption ==
    /\ IsFiniteSet(Subscribers)
    /\ Backfilling \subseteq Subscribers /\ Unauthorized \subseteq Subscribers
    /\ MaximumNumberOfSubscribers \in Nat \ {0}
    /\ MAXIMUM_QUEUE_SIZE \in Nat \ {0}
    /\ StopBeforeStart \in BOOLEAN
    /\ MaxPicks \in Nat

VARIABLES writer,     \* of each RPC: the AsynchronousWriter and its call
          mSubscriberCount,
          mKeepRunning, server, mServerStarted, starter, stopper

writerVars == <<writer, storeVars>>
serviceVars == <<mKeepRunning, server, mServerStarted, starter, stopper>>
vars == <<writerVars, mSubscriberCount, serviceVars>>

Server == INSTANCE GrpcServer WITH count <- mSubscriberCount

NoWriter == [phase |-> "none", bound |-> FALSE, registered |-> FALSE,
             cancelled |-> FALSE, onCancel |-> FALSE, refusal |-> "none",
             finishes |-> 0, mPicksQueue |-> <<>>, mWriteInProgress |-> FALSE,
             from |-> 0, written |-> <<>>]

Init ==
    /\ writer = [s \in Subscribers |-> NoWriter]
    /\ store = 0
    /\ cursor = [s \in Subscribers |-> NotSubscribed]
    /\ Server!ServerInit

InPhase(phases) == { s \in Subscribers : writer[s].phase \in phases }

\* processPick's call of SubscribeService::enqueue.
Enqueue ==
    /\ store < MaxPicks
    /\ StoreEnqueue
    /\ UNCHANGED <<writer, mSubscriberCount, serviceVars>>

-----------------------------------------------------------------------------
(* The constructor.  Nothing returns after a Finish of it.                 *)

\* grpc::ServerWriteReactor::Finish.
Finished(w) == [w EXCEPT !.finishes = @ + 1]

Refused(w, why) == [Finished(w) EXCEPT !.refusal = why]

LimitReached == mSubscriberCount >= MaximumNumberOfSubscribers

CheckLimit(s) ==
    /\ server = "serving"
    /\ writer[s].phase = "none"
    /\ writer' = [writer EXCEPT ![s] =
          IF LimitReached
          THEN Refused([@ EXCEPT !.phase = "admitted"], "limit")
          ELSE [@ EXCEPT !.phase = "admitted"]]
    /\ UNCHANGED <<storeVars, mSubscriberCount, serviceVars>>

CheckToken(s) ==
    /\ writer[s].phase = "admitted"
    /\ writer' = [writer EXCEPT ![s] =
          IF s \in Unauthorized
          THEN Refused([@ EXCEPT !.phase = "checked"], "token")
          ELSE [@ EXCEPT !.phase = "checked"]]
    /\ UNCHANGED <<storeVars, mSubscriberCount, serviceVars>>

\* MaxPicks bounds the picks in the store and on their way there.
Starts(s) == IF s \in Backfilling THEN BackfillStarts \cap 0..MaxPicks ELSE LiveStarts

Subscribe(s) ==
    /\ writer[s].phase = "checked"
    /\ \E from \in Starts(s) :
          /\ StoreSubscribe(s, from)
          /\ writer' = [writer EXCEPT ![s].phase = "subscribed", ![s].from = from]
    /\ UNCHANGED <<mSubscriberCount, serviceVars>>

\* The backfill would begin in the future: its duration is negative.
SubscribeFails(s) ==
    /\ writer[s].phase = "checked"
    /\ s \in Backfilling
    /\ writer' = [writer EXCEPT ![s] = Refused([@ EXCEPT !.phase = "subscribed"], "start")]
    /\ UNCHANGED <<storeVars, mSubscriberCount, serviceVars>>

Register(s) ==
    /\ writer[s].phase = "subscribed"
    /\ mSubscriberCount' = mSubscriberCount + 1
    /\ writer' = [writer EXCEPT ![s].phase = "polling", ![s].registered = TRUE]
    /\ UNCHANGED <<storeVars, serviceVars>>

-----------------------------------------------------------------------------
(* nextWrite.                                                              *)

\* The loop ends: the RPC is cancelled or the service is to stop.
LeaveLoop(s) ==
    /\ writer[s].phase = "polling"
    /\ ~ mKeepRunning \/ writer[s].cancelled
    /\ writer' = [writer EXCEPT ![s] =
                    Finished([@ EXCEPT !.phase = "idle", !.bound = TRUE])]
    /\ UNCHANGED <<storeVars, mSubscriberCount, serviceVars>>

WriteFront(s) ==
    /\ writer[s].phase = "polling"
    /\ mKeepRunning
    /\ writer[s].mPicksQueue # <<>>
    /\ ~ writer[s].mWriteInProgress
    /\ writer' = [writer EXCEPT ![s].phase = "idle", ![s].bound = TRUE,
                                ![s].mWriteInProgress = TRUE]
    /\ UNCHANGED <<storeVars, mSubscriberCount, serviceVars>>

\* A writer without a subscription, or with nothing to get, polls in vain.
GetPicks(s) ==
    /\ writer[s].phase = "polling"
    /\ mKeepRunning
    /\ writer[s].mPicksQueue = <<>>
    /\ StoreGetPicks(s)
    /\ writer' = [writer EXCEPT ![s].mPicksQueue = NewPicks(s)]
    /\ UNCHANGED <<mSubscriberCount, serviceVars>>

-----------------------------------------------------------------------------
(* The reactions.                                                          *)

\* Mutant of Written: the pick stays in the queue.
WrittenNotPopped(w) ==
    [w EXCEPT !.phase = "polling", !.mWriteInProgress = FALSE]

Written(w) ==
    [w EXCEPT !.phase = "polling", !.mWriteInProgress = FALSE, !.mPicksQueue = Tail(@)]

\* Mutant of Stopped: the writer returns without a Finish.
StoppedUnfinished(w) == [w EXCEPT !.mWriteInProgress = FALSE]

Stopped(w) == Finished([w EXCEPT !.mWriteInProgress = FALSE])

\* The subscriber has the pick.  A service that is to stop ends the RPC.
OnWriteDone(s) ==
    /\ writer[s].phase = "idle" /\ writer[s].mWriteInProgress
    /\ LET w == [writer[s] EXCEPT !.written = Append(@, Head(writer[s].mPicksQueue))]
       IN  writer' = [writer EXCEPT ![s] =
              IF mKeepRunning THEN Written(w) ELSE Stopped(w)]
    /\ UNCHANGED <<storeVars, mSubscriberCount, serviceVars>>

\* Mutant of OnWriteDoneNotOk: nothing returns after the Finish.
OnWriteDoneNotOkGoesOn(s) ==
    /\ writer[s].phase = "idle" /\ writer[s].mWriteInProgress
    /\ writer' = [writer EXCEPT ![s] = Finished(Written(@))]
    /\ UNCHANGED <<storeVars, mSubscriberCount, serviceVars>>

\* The stream is broken; the pick at the front is lost to this RPC.
OnWriteDoneNotOk(s) ==
    /\ writer[s].phase = "idle" /\ writer[s].mWriteInProgress
    /\ writer' = [writer EXCEPT ![s] = Finished([@ EXCEPT !.mWriteInProgress = FALSE])]
    /\ UNCHANGED <<storeVars, mSubscriberCount, serviceVars>>

\* The subscriber goes away, or Shutdown's deadline cuts it off.
Cancel(s) ==
    /\ writer[s].phase \notin {"none", "done"}
    /\ ~ writer[s].cancelled
    /\ writer' = [writer EXCEPT ![s].cancelled = TRUE]
    /\ UNCHANGED <<storeVars, mSubscriberCount, serviceVars>>

\* unsubscribe, if the writer has not been unregistered already.
Unregister(s) ==
    IF writer[s].registered THEN StoreUnsubscribe(s) ELSE UNCHANGED storeVars

OnCancel(s) ==
    /\ writer[s].bound
    /\ writer[s].cancelled /\ ~ writer[s].onCancel
    /\ writer[s].phase # "done"
    /\ Unregister(s)
    /\ writer' = [writer EXCEPT ![s].registered = FALSE, ![s].onCancel = TRUE]
    /\ UNCHANGED <<mSubscriberCount, serviceVars>>

\* Mutant of Depart: only OnCancel unsubscribes.
DepartSubscribed(s) == UNCHANGED storeVars

Depart(s) == Unregister(s)

\* The subscriber count stays as it is.
OnDone(s) ==
    /\ writer[s].phase = "idle"
    /\ writer[s].finishes > 0
    /\ ~ writer[s].mWriteInProgress
    /\ writer[s].cancelled => writer[s].onCancel
    /\ Depart(s)
    /\ writer' = [writer EXCEPT ![s].phase = "done", ![s].registered = FALSE]
    /\ UNCHANGED <<mSubscriberCount, serviceVars>>

-----------------------------------------------------------------------------
Start == Server!Start /\ UNCHANGED writerVars

Outstanding == Subscribers \ InPhase({"none", "done"})
Stop == Server!Stop(Outstanding) /\ UNCHANGED writerVars

Construct(s) ==
    CheckLimit(s) \/ CheckToken(s) \/ Subscribe(s) \/ SubscribeFails(s) \/ Register(s)
NextWrite(s) == LeaveLoop(s) \/ WriteFront(s) \/ GetPicks(s)

Next ==
    \/ Enqueue
    \/ \E s \in Subscribers :
          \/ Construct(s) \/ NextWrite(s)
          \/ OnWriteDone(s) \/ OnWriteDoneNotOk(s)
          \/ Cancel(s) \/ OnCancel(s) \/ OnDone(s)
    \/ Start
    \/ Stop

Spec == Init /\ [][Next]_vars

\* Threads run and nextWrite polls; a write ends, if only because Shutdown cuts
\* the RPC off; gRPC reports a cancelled and a finished RPC.
FairSpec ==
    /\ Spec
    /\ WF_vars(Start)
    /\ WF_vars(stopper # "none" /\ Stop)
    /\ \A s \in Subscribers :
          /\ WF_vars(writer[s].phase # "none" /\ Construct(s))
          /\ WF_vars(NextWrite(s))
          /\ WF_vars(OnWriteDone(s) \/ OnWriteDoneNotOk(s))
          /\ WF_vars(server = "shutting_down" /\ Cancel(s))
          /\ WF_vars(OnCancel(s))
          /\ WF_vars(OnDone(s))

-----------------------------------------------------------------------------
(* Properties.                                                             *)

Writer == [phase : {"none", "admitted", "checked", "subscribed", "polling", "idle", "done"},
           bound : BOOLEAN, registered : BOOLEAN, cancelled : BOOLEAN,
           onCancel : BOOLEAN, refusal : {"none", "limit", "token", "start"},
           finishes : Nat, mPicksQueue : Seq(1..MaxPicks),
           mWriteInProgress : BOOLEAN, from : 0..MaxPicks, written : Seq(1..MaxPicks)]

TypeOK ==
    /\ writer \in [Subscribers -> Writer]
    /\ store \in 0..MaxPicks
    /\ cursor \in [Subscribers -> {NotSubscribed} \cup 0..MaxPicks]
    /\ Server!ServerTypeOK
    /\ \A s \in Subscribers : writer[s].mWriteInProgress => writer[s].mPicksQueue # <<>>

\* From the store to the wire: over all the chunks, writes and queues a
\* subscriber gets the picks of its backlog in order, none of them twice and
\* none left out.
WritesFollowTheStore ==
    \A s \in Subscribers : \A i \in 1..Len(writer[s].written) :
        writer[s].written[i] = writer[s].from + i

\* Whichever of OnCancel and OnDone come, and whatever nextWrite is doing then, a
\* subscriber that is gone has no cursor left in the store.
NoSubscriptionLeaks ==
    \A s \in Subscribers : writer[s].phase = "done" => s \notin Subscribed

\* gRPC allows one Finish: a writer that its constructor has not refused comes to
\* just one of the many, however cancellation, shutdown and the end of a write
\* meet.
FinishedAtMostOnce ==
    \A s \in Subscribers : writer[s].refusal = "none" => writer[s].finishes <= 1

\* What is written into the store reaches a subscriber of it, while the service
\* runs and its RPC lasts.
EveryPickReachesTheSubscriber ==
    \A s \in Subscribers : \A pick \in 1..MaxPicks :
        (s \in Subscribed /\ writer[s].from < pick /\ pick <= store)
            ~> \/ \E i \in 1..Len(writer[s].written) : writer[s].written[i] = pick
               \/ writer[s].cancelled \/ writer[s].finishes > 0 \/ ~ mKeepRunning

\* stop() returns: pollers leave their loops and every RPC comes to its end.
ShutdownDrains == stopper = "draining" ~> stopper = "stopped"

\* "Can we afford another subscriber?"  One is turned away only when as many as
\* allowed are connected.
RefusedOnlyWhenFull ==
    [][\A s \in Subscribers :
          writer[s].refusal # "limit" /\ writer'[s].refusal = "limit" =>
              Cardinality(InPhase({"polling", "idle"})) >= MaximumNumberOfSubscribers]_vars
=============================================================================
