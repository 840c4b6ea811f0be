---------------------------- MODULE PickStoreFeed ---------------------------
(***************************************************************************)
(* The refinement of PickFeed by PickStore: the backlog of a subscription  *)
(* is what the deque holds at or past its cursor.  And the view of it that *)
(* SubscribeService has, PickBacklog: the places of the deque.             *)
(***************************************************************************)
EXTENDS PickStore

Below(q, cursor) == { k \in DOMAIN q : q[k].time < cursor }

Ahead(q, cursor) == SubSeq(q, Cardinality(Below(q, cursor)) + 1, Len(q))

Backlog(s) == IF Subscribed(s) THEN Ahead(mDeque, mCursorMap[s]) ELSE <<>>

Feed == INSTANCE PickFeed WITH
    retained <- mDeque,
    since <- [s \in Subscribers |-> IF Subscribed(s) THEN since[s] ELSE -1],
    backlog <- [s \in Subscribers |-> Backlog(s)],
    received <- delivered

\* One deque with a cursor per subscriber is as good as a queue per subscriber:
\* under a clock that moves forward and never gives two picks the same receipt
\* time, every step of the store is a step of the feed, or no step of it, and
\* a subscriber with a backlog is eventually read to.
ImplementsFeed == Feed!Spec

-----------------------------------------------------------------------------
\* The last pick before what a subscription will get, which may be the one on its way;
\* a live subscription will get what comes.
Place(s) ==
    IF ~ Subscribed(s) THEN NoCursor
    ELSE IF mCursorMap[s] = MaxTime THEN Len(mDeque)
    ELSE Cardinality(Below(mDeque, mCursorMap[s]))
            + (IF pc # "idle" /\ item.time < mCursorMap[s] THEN 1 ELSE 0)

Numbers == INSTANCE PickBacklog WITH
    MAXIMUM_QUEUE_SIZE <- MaximumNumberOfPicks,
    store <- Len(mDeque),
    cursor <- [s \in Subscribers |-> Place(s)]

\* A purge of n picks: those that are left are numbered anew.
Renumbered(n) ==
    /\ Len(mDeque') = Len(mDeque) - n
    /\ \A s \in Subscribers :
          Place(s)' = IF Place(s) = NoCursor THEN NoCursor
                      ELSE IF Place(s) < n THEN 0 ELSE Place(s) - n

\* What a step of the store is in the numbers.
NumbersStep ==
    /\ Tick \/ (\E p \in Picks : Receive(p)) \/ DateRetention => UNCHANGED Numbers!storeVars
    /\ CleanDeque => \E n \in 0..Len(mDeque) : Renumbered(n)
    /\ Insert => Numbers!StoreEnqueue
    /\ \A s \in Subscribers :
          /\ Subscribe(s) => \E from \in Numbers!LiveStarts : Numbers!StoreSubscribe(s, from)
          /\ \A startTime \in Time : SubscribeSince(s, startTime) =>
                \E from \in Numbers!BackfillStarts : Numbers!StoreSubscribe(s, from)
          /\ Unsubscribe(s) => Numbers!StoreUnsubscribe(s)
          /\ GetPicks(s) =>
                /\ Numbers!StoreGetPicks(s)
                /\ delivered' = [delivered EXCEPT ![s] =
                      @ \o [i \in DOMAIN Numbers!NewPicks(s) |-> mDeque[Numbers!NewPicks(s)[i]]]]

\* There is something to get exactly if the numbers say so.
ReadableByNumber ==
    \A s \in Subscribers :
        Subscribed(s) /\ Scanned(s) # {} <=> Place(s) # NoCursor /\ Place(s) < Len(mDeque)
=============================================================================
