----------------------------- MODULE PickBacklog ----------------------------
(***************************************************************************)
(* The pick store as a writer of the subscribe service sees it: the picks  *)
(* are numbered as they come, and of a subscription there is the number of *)
(* the last pick that it got, or that comes before it.  PickFeedProofs     *)
(* shows that this is what PickStore does from one purge to the next.      *)
(***************************************************************************)
EXTENDS Integers, FiniteSetsExt

CONSTANTS Subscribers,
          MAXIMUM_QUEUE_SIZE    \* picks asked of the store at a time

VARIABLES store,    \* how many picks the store was given
          cursor    \* of each subscription: the last pick before what it will get

storeVars == <<store, cursor>>

NotSubscribed == -1

Subscribed == { s \in Subscribers : cursor[s] # NotSubscribed }

StoreEnqueue == store' = store + 1 /\ cursor' = cursor

StoreSubscribe(s, from) == cursor' = [cursor EXCEPT ![s] = from] /\ store' = store

\* A live subscription begins at the picks to come.
LiveStarts == {store}

\* One with a backfill begins at any pick in the store; or behind the pick on its way
\* there, if this was received before the start time.
BackfillStarts == 0..(store + 1)

StoreUnsubscribe(s) == cursor' = [cursor EXCEPT ![s] = NotSubscribed] /\ store' = store

\* Mutant of LastGot: the cursor moves one pick past a full chunk.
LastGotPastChunk(s) == Min({store, cursor[s] + MAXIMUM_QUEUE_SIZE + 1})

\* getPicks moves the cursor over at most a chunk of picks.
LastGot(s) == Min({store, cursor[s] + MAXIMUM_QUEUE_SIZE})

\* Mutant of NewPicks: the last pick is read again.
NewPicksAgain(s) ==
    [i \in 1..(Min({store, cursor[s] + MAXIMUM_QUEUE_SIZE}) - cursor[s]) |-> cursor[s] + i - 1]

NewPicks(s) ==
    [i \in 1..(Min({store, cursor[s] + MAXIMUM_QUEUE_SIZE}) - cursor[s]) |-> cursor[s] + i]

\* There is something to get; if not, getPicks changes nothing.
StoreGetPicks(s) ==
    /\ s \in Subscribed
    /\ cursor[s] < store
    /\ cursor' = [cursor EXCEPT ![s] = LastGot(s)]
    /\ store' = store
=============================================================================
