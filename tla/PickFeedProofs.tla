---------------------------- MODULE PickFeedProofs --------------------------
(***************************************************************************)
(* PickStore implements PickFeed, for every value of its constants, when   *)
(* no two picks have the same receipt time (Forward).                      *)
(***************************************************************************)
EXTENDS SubscriptionProofs, PickStoreFeed

-----------------------------------------------------------------------------
(* A cut of an ordered deque.                                              *)

\* The picks below a cursor are the first ones.
LEMMA BelowIsPrefix ==
    ASSUME NEW q \in Seq(Item), Sorted(q), NEW cursor \in Int, ClockBound \in Int
    PROVE  /\ Cardinality(Below(q, cursor)) \in 0..Len(q)
           /\ Below(q, cursor) = 1..Cardinality(Below(q, cursor))
<1>. DEFINE B == Below(q, cursor)
            c == Cardinality(B)
<1>1. /\ Len(q) \in Nat /\ DOMAIN q = 1..Len(q)
      /\ IsFiniteSet(1..Len(q)) /\ Cardinality(1..Len(q)) = Len(q)
  <2>1. Len(q) \in Nat /\ DOMAIN q = 1..Len(q)
    OBVIOUS
  <2>. QED BY <2>1, FS_Interval
<1>2. B \in SUBSET (1..Len(q))
  BY <1>1 DEF Below
<1>3. ASSUME NEW k \in B, NEW j \in 1..k PROVE j \in B
  <2>1. k \in 1..Len(q) /\ j \in 1..Len(q) /\ j <= k /\ j \in Int /\ k \in Int
    BY <1>1, <1>2, <1>3
  <2>2. q[j] \in Item /\ q[k] \in Item
    BY <1>1, <2>1
  <2>3. q[j].time \in Int /\ q[k].time \in Int
    BY <2>2 DEF Item, Time
  <2>4. q[k].time < cursor
    BY DEF Below
  <2>5. j = k \/ q[j].time <= q[k].time
    BY <1>1, <2>1 DEF Sorted
  <2>6. q[j].time < cursor
    <3>. DEFINE a == q[j].time
                b == q[k].time
    <3>1. a \in Int /\ b \in Int /\ b < cursor /\ (a = b \/ a <= b)
      BY <2>3, <2>4, <2>5
    <3>. HIDE DEF a, b
    <3>2. a < cursor
      BY <3>1
    <3>. QED BY <3>2 DEF a
  <2>. QED BY <1>1, <2>1, <2>6 DEF Below
<1>. HIDE DEF B
<1>4. IsFiniteSet(B) /\ c \in Nat /\ c <= Len(q)
  <2>1. IsFiniteSet(B) /\ Cardinality(B) <= Cardinality(1..Len(q))
    BY <1>1, <1>2, FS_Subset
  <2>. QED BY <1>1, <2>1, FS_CardinalityType
<1>5. IsFiniteSet(1..c) /\ Cardinality(1..c) = c
  BY <1>4, FS_Interval
\* A place past the c-th would have more than c below it.
<1>6. B \in SUBSET (1..c)
  <2>. SUFFICES ASSUME NEW k \in B, k > c PROVE FALSE
    <3>1. \A k \in B : k \in 1..Len(q)
      BY <1>2
    <3>. QED BY <1>1, <1>4, <3>1
  <2>1. k \in Nat
    BY <1>1, <1>2
  <2>2. 1..k \in SUBSET B
    BY <1>3
  <2>3. IsFiniteSet(1..k) /\ Cardinality(1..k) = k
    BY <2>1, FS_Interval
  <2>4. Cardinality(1..k) <= Cardinality(B)
    BY <1>4, <2>2, FS_Subset
  <2>. QED BY <1>4, <2>1, <2>3, <2>4
<1>7. B = 1..c
  BY <1>4, <1>5, <1>6, FS_Subset
<1>8. c \in 0..Len(q)
  BY <1>1, <1>4
<1>. QED BY <1>7, <1>8 DEF B

\* The cut of a deque is known by the picks at both of its sides.
LEMMA Cut ==
    ASSUME NEW q \in Seq(Item), Sorted(q), NEW cursor \in Int, ClockBound \in Int,
           NEW c \in 0..Len(q), \A k \in 1..c : q[k].time < cursor,
           c < Len(q) => q[c + 1].time >= cursor
    PROVE  Ahead(q, cursor) = SubSeq(q, c + 1, Len(q))
<1>. DEFINE b == Cardinality(Below(q, cursor))
<1>1. /\ b \in 0..Len(q) /\ Below(q, cursor) = 1..b
      /\ Len(q) \in Nat /\ DOMAIN q = 1..Len(q)
  <2>1. Len(q) \in Nat /\ DOMAIN q = 1..Len(q)
    OBVIOUS
  <2>. QED BY <2>1, BelowIsPrefix
<1>. HIDE DEF b
<1>2. \A k \in 1..c : k \in 1..b
  BY <1>1 DEF Below
<1>3. c <= b
  BY <1>1, <1>2
<1>4. ASSUME c < b PROVE FALSE
  <2>1. c + 1 \in 1..b /\ c < Len(q) /\ c + 1 \in DOMAIN q
    BY <1>1, <1>4
  <2>2. q[c + 1].time < cursor /\ q[c + 1].time >= cursor
    BY <1>1, <2>1 DEF Below
  <2>3. q[c + 1] \in Item
    BY <2>1
  <2>4. q[c + 1].time \in Int
    BY <2>3 DEF Item, Time
  <2>. QED BY <2>2, <2>4
<1>5. b = c
  BY <1>1, <1>3, <1>4
<1>. QED BY <1>5 DEF b, Ahead

\* And where it is, they are.
LEMMA CutIs ==
    ASSUME NEW q \in Seq(Item), Sorted(q), NEW cursor \in Int, ClockBound \in Int
    PROVE  \E c \in 0..Len(q) :
              /\ Ahead(q, cursor) = SubSeq(q, c + 1, Len(q))
              /\ \A k \in 1..c : q[k].time < cursor
              /\ \A k \in (c + 1)..Len(q) : q[k].time >= cursor
<1>. DEFINE c == Cardinality(Below(q, cursor))
<1>1. /\ c \in 0..Len(q) /\ Below(q, cursor) = 1..c
      /\ Len(q) \in Nat /\ DOMAIN q = 1..Len(q)
  <2>1. Len(q) \in Nat /\ DOMAIN q = 1..Len(q)
    OBVIOUS
  <2>. QED BY <2>1, BelowIsPrefix
<1>2. Ahead(q, cursor) = SubSeq(q, c + 1, Len(q))
  BY DEF Ahead
<1>. HIDE DEF c
<1>3. \A k \in 1..c : q[k].time < cursor
  BY <1>1 DEF Below
<1>4. ASSUME NEW k \in (c + 1)..Len(q) PROVE q[k].time >= cursor
  <2>1. k \in DOMAIN q /\ k \notin 1..c
    BY <1>1
  <2>2. ~ (q[k].time < cursor) /\ q[k] \in Item
    BY <1>1, <2>1 DEF Below
  <2>3. q[k].time \in Int
    BY <2>2 DEF Item, Time
  <2>. QED BY <2>2, <2>3
<1>. QED BY <1>1, <1>2, <1>3, <1>4

-----------------------------------------------------------------------------
(* What the steps of the store are in the feed.                            *)

LEMMA Bounds ==
    ASSUME TypeOK
    PROVE  /\ ClockBound \in Int /\ MaxTime \in Int /\ MaxTime > ClockBound + 1
           /\ clock \in Int /\ MaxHistory \in Int
           /\ mCursorMap \in [Subscribers -> Int] /\ since \in [Subscribers -> Time]
           /\ \A t \in Time : t \in Int /\ 0 <= t /\ t < MaxTime /\ t # NoCursor
           /\ \A i \in Item : i.time \in Time
<1>1. ClockBound \in Nat /\ MaxTime \in Nat /\ MaxTime > ClockBound + 1 /\ MaxHistory \in Int
  BY StoreAssumption
<1>2. \A t \in Time : t \in Int /\ 0 <= t /\ t < MaxTime /\ t # NoCursor
  BY <1>1 DEF Time, NoCursor
<1>3. mCursorMap \in [Subscribers -> Int]
  <2>1. \A c \in 0..(ClockBound + 1) \cup {NoCursor, MaxTime} : c \in Int
    BY <1>1 DEF NoCursor
  <2>. QED BY <2>1 DEF TypeOK
<1>. QED BY <1>1, <1>2, <1>3 DEF TypeOK, Item

LEMMA BacklogPrimed ==
    ASSUME NEW r \in Subscribers
    PROVE  Backlog(r)' = IF mCursorMap'[r] # NoCursor
                         THEN Ahead(mDeque', mCursorMap'[r]) ELSE <<>>
BY DEF Backlog, Ahead, Below, Subscribed

LEMMA Unread ==
    ASSUME NEW r \in Subscribers, mDeque' = mDeque, mCursorMap'[r] = mCursorMap[r]
    PROVE  Backlog(r)' = Backlog(r) /\ Subscribed(r)' = Subscribed(r)
BY DEF Backlog, Ahead, Below, Subscribed

LEMMA FeedAdvance ==
    ASSUME UNCHANGED <<mDeque, mCursorMap, since, delivered>>, clock' \in clock..ClockBound
    PROVE  Feed!Advance
<1>1. ASSUME NEW r \in Subscribers PROVE Backlog(r)' = Backlog(r) /\ Subscribed(r)' = Subscribed(r)
  BY Unread
<1>. QED BY <1>1 DEF Feed!Advance

LEMMA FeedStutters ==
    ASSUME UNCHANGED <<clock, mDeque, mCursorMap, since, delivered>>
    PROVE  UNCHANGED Feed!vars
<1>1. ASSUME NEW r \in Subscribers PROVE Backlog(r)' = Backlog(r) /\ Subscribed(r)' = Subscribed(r)
  BY Unread
<1>. QED BY <1>1 DEF Feed!vars

\* A live subscription's cursor is past everything.
LEMMA NothingAhead ==
    ASSUME TypeOK, DequeInv
    PROVE  Ahead(mDeque, MaxTime) = <<>>
<1>1. mDeque \in Seq(Item) /\ Sorted(mDeque) /\ Len(mDeque) \in Nat /\ DOMAIN mDeque = 1..Len(mDeque)
  BY DEF TypeOK, DequeInv, DequeSorted
<1>2. \A k \in 1..Len(mDeque) : mDeque[k].time < MaxTime
  <2>. TAKE k \in 1..Len(mDeque)
  <2>1. mDeque[k] \in Item
    BY <1>1
  <2>. QED BY <2>1, Bounds
<1>3. Ahead(mDeque, MaxTime) = SubSeq(mDeque, Len(mDeque) + 1, Len(mDeque))
  <2>1. MaxTime \in Int /\ ClockBound \in Int
    BY Bounds
  <2>2. Len(mDeque) \in 0..Len(mDeque) /\ ~ (Len(mDeque) < Len(mDeque))
    BY <1>1
  <2>. QED BY <1>1, <1>2, <2>1, <2>2, Cut
<1>. QED BY <1>1, <1>3

LEMMA FeedSubscription ==
    ASSUME TypeOK, DequeInv, NEW s \in Subscribers
    PROVE  /\ Subscribe(s) => Feed!FollowLive(s)
           /\ \A t \in Time : SubscribeSince(s, t) => Feed!Follow(s, t)
           /\ Unsubscribe(s) => Feed!Leave(s)
<1>1. ASSUME NEW c, NEW t, NEW b, SetCursor(s, c, t, b)
      PROVE  /\ clock' = clock /\ mDeque' = mDeque
             /\ mCursorMap'[s] = c /\ since'[s] = t
             /\ delivered' = [delivered EXCEPT ![s] = <<>>]
             /\ \A r \in Subscribers \ {s} : Backlog(r)' = Backlog(r) /\ Subscribed(r)' = Subscribed(r)
             /\ \A r \in Subscribers \ {s} : since'[r] = since[r]
  <2>1. /\ clock' = clock /\ mDeque' = mDeque
        /\ mCursorMap'[s] = c /\ since'[s] = t
        /\ delivered' = [delivered EXCEPT ![s] = <<>>]
        /\ \A r \in Subscribers \ {s} : since'[r] = since[r] /\ mCursorMap'[r] = mCursorMap[r]
    BY <1>1 DEF SetCursor, TypeOK
  <2>. QED BY <2>1, Unread
<1>2. /\ MaxTime # NoCursor
      /\ \A t \in Time : t # NoCursor
  BY Bounds DEF NoCursor
<1>3. Subscribe(s) => Feed!FollowLive(s)
  <2>. SUFFICES ASSUME Subscribe(s) PROVE Feed!FollowLive(s)
    OBVIOUS
  <2>1. /\ mDeque' = mDeque /\ mCursorMap'[s] = MaxTime /\ since'[s] = 0
    BY <1>1 DEF Subscribe
  <2>2. Backlog(s)' = <<>> /\ Subscribed(s)'
    BY <1>2, <2>1, BacklogPrimed, NothingAhead DEF Subscribed
  <2>. QED BY <1>1, <2>1, <2>2 DEF Subscribe, Feed!FollowLive
<1>4. ASSUME NEW t \in Time, SubscribeSince(s, t) PROVE Feed!Follow(s, t)
  <2>1. /\ mDeque' = mDeque /\ mCursorMap'[s] = t /\ since'[s] = t
    BY <1>1, <1>4 DEF SubscribeSince
  <2>2. Backlog(s)' = Ahead(mDeque, t) /\ Subscribed(s)'
    BY <1>2, <2>1, BacklogPrimed DEF Subscribed
  <2>3. Ahead(mDeque, t) = Feed!From(mDeque, t)
    BY DEF Ahead, Below, Feed!From, Cardinality, Feed!Cardinality
  <2>. QED BY <1>1, <1>4, <2>1, <2>2, <2>3 DEF SubscribeSince, Feed!Follow
<1>5. Unsubscribe(s) => Feed!Leave(s)
  <2>. SUFFICES ASSUME Unsubscribe(s) PROVE Feed!Leave(s)
    OBVIOUS
  <2>1. mCursorMap'[s] = NoCursor
    BY <1>1 DEF Unsubscribe
  <2>2. Backlog(s)' = <<>> /\ ~ Subscribed(s)'
    BY <2>1, BacklogPrimed DEF Subscribed
  <2>. QED BY <1>1, <2>1, <2>2 DEF Unsubscribe, Feed!Leave, Feed!Off
<1>. QED BY <1>3, <1>4, <1>5

LEMMA TailOfTail ==
    ASSUME NEW q \in Seq(Item), NEW n \in 0..Len(q), NEW m \in 0..(Len(q) - n)
    PROVE  PopFront(PopFront(q, n), m) = PopFront(q, n + m)
<1>. DEFINE r == PopFront(q, n)
            u == PopFront(r, m)
            v == PopFront(q, n + m)
<1>1. Len(q) \in Nat /\ n \in Nat /\ m \in Nat /\ n + m \in 0..Len(q)
  <2>1. Len(q) \in Nat
    OBVIOUS
  <2>. QED BY <2>1
<1>2. /\ r \in Seq(Item) /\ Len(r) = Len(q) - n
      /\ \A k \in 1..(Len(q) - n) : r[k] = q[n + k]
  BY PopFrontProperties
<1>. HIDE DEF r
<1>3. m \in 0..Len(r)
  BY <1>1, <1>2
<1>4. /\ u \in Seq(Item) /\ Len(u) = Len(r) - m
      /\ \A k \in 1..(Len(r) - m) : u[k] = r[m + k]
  BY <1>2, <1>3, PopFrontProperties
<1>5. /\ v \in Seq(Item) /\ Len(v) = Len(q) - (n + m)
      /\ \A k \in 1..(Len(q) - (n + m)) : v[k] = q[(n + m) + k]
  BY <1>1, PopFrontProperties
<1>. HIDE DEF u, v
<1>6. Len(u) = Len(v)
  BY <1>1, <1>2, <1>4, <1>5
<1>7. ASSUME NEW k \in 1..Len(u) PROVE u[k] = v[k]
  <2>1. /\ k \in 1..(Len(r) - m) /\ m + k \in 1..(Len(q) - n)
        /\ k \in 1..(Len(q) - (n + m)) /\ n + (m + k) = (n + m) + k
    BY <1>1, <1>2, <1>4
  <2>2. u[k] = r[m + k] /\ r[m + k] = q[n + (m + k)]
    BY <1>2, <1>4, <2>1
  <2>. QED BY <1>5, <2>1, <2>2
<1>8. u = v
  BY <1>4, <1>5, <1>6, <1>7, SeqEqual
<1>. QED BY <1>8 DEF u, v, r

\* What is ahead of a cursor once n picks are popped: the same, or all that is left.
LEMMA ShortenedDeque ==
    ASSUME NEW q \in Seq(Item), Sorted(q), NEW cursor \in Int, ClockBound \in Int,
           NEW n \in 0..Len(q)
    PROVE  Ahead(PopFront(q, n), cursor)
             = IF Len(Ahead(q, cursor)) > Len(PopFront(q, n))
               THEN PopFront(q, n) ELSE Ahead(q, cursor)
<1>. DEFINE r == PopFront(q, n)
<1>1. Len(q) \in Nat /\ n \in Nat /\ DOMAIN q = 1..Len(q)
  OBVIOUS
<1>2. /\ r \in Seq(Item) /\ Len(r) = Len(q) - n
      /\ \A k \in 1..(Len(q) - n) : r[k] = q[n + k]
  BY PopFrontProperties
<1>3. PICK c \in 0..Len(q) :
        /\ Ahead(q, cursor) = PopFront(q, c)
        /\ \A k \in 1..c : q[k].time < cursor
        /\ \A k \in (c + 1)..Len(q) : q[k].time >= cursor
  BY CutIs DEF PopFront
<1>4. Len(Ahead(q, cursor)) = Len(q) - c
  BY <1>3, PopFrontProperties
<1>. HIDE DEF r
<1>5. DOMAIN r = 1..(Len(q) - n)
  BY <1>1, <1>2
<1>6. Sorted(r)
  <2>. SUFFICES ASSUME NEW j \in DOMAIN r, NEW k \in DOMAIN r, j < k
                PROVE  r[j].time <= r[k].time
    BY DEF Sorted
  <2>1. n + j \in DOMAIN q /\ n + k \in DOMAIN q /\ n + j < n + k
    BY <1>1, <1>5
  <2>2. q[n + j].time <= q[n + k].time
    BY <2>1 DEF Sorted
  <2>3. r[j] = q[n + j] /\ r[k] = q[n + k]
    <3>1. j \in 1..(Len(q) - n) /\ k \in 1..(Len(q) - n)
      BY <1>5
    <3>. QED BY <1>2, <3>1
  <2>. QED BY <2>2, <2>3
<1>7. CASE n <= c
  <2>1. c - n \in 0..Len(r) /\ n + (c - n) = c
    BY <1>1, <1>2, <1>7
  <2>2. \A k \in 1..(c - n) : r[k].time < cursor
    <3>. TAKE k \in 1..(c - n)
    <3>1. n + k \in 1..c /\ k \in 1..(Len(q) - n)
      BY <1>1, <1>7
    <3>. QED BY <1>2, <1>3, <3>1
  <2>3. (c - n) < Len(r) => r[(c - n) + 1].time >= cursor
    <3>. HAVE (c - n) < Len(r)
    <3>1. n + ((c - n) + 1) \in (c + 1)..Len(q) /\ (c - n) + 1 \in 1..(Len(q) - n)
      BY <1>1, <1>2, <1>7
    <3>. QED BY <1>2, <1>3, <3>1
  <2>4. Ahead(r, cursor) = PopFront(r, c - n)
    BY <1>2, <1>6, <2>1, <2>2, <2>3, Cut DEF PopFront
  <2>5. PopFront(r, c - n) = PopFront(q, c)
    BY <1>2, <2>1, TailOfTail DEF r
  <2>6. ~ (Len(Ahead(q, cursor)) > Len(r))
    BY <1>1, <1>2, <1>4, <1>7
  <2>. QED BY <1>3, <2>4, <2>5, <2>6 DEF r
<1>8. CASE c < n
  <2>1. 0 \in 0..Len(r) /\ \A k \in 1..0 : r[k].time < cursor
    BY <1>1, <1>2
  <2>2. 0 < Len(r) => r[0 + 1].time >= cursor
    <3>. HAVE 0 < Len(r)
    <3>1. n + 1 \in (c + 1)..Len(q) /\ 1 \in 1..(Len(q) - n)
      BY <1>1, <1>2, <1>8
    <3>. QED BY <1>2, <1>3, <3>1
  <2>3. Ahead(r, cursor) = SubSeq(r, 0 + 1, Len(r))
    BY <1>2, <1>6, <2>1, <2>2, Cut
  <2>4. SubSeq(r, 0 + 1, Len(r)) = r
    BY <1>2, SubSeqFull
  <2>5. Len(Ahead(q, cursor)) > Len(r)
    BY <1>1, <1>2, <1>4, <1>8
  <2>. QED BY <2>3, <2>4, <2>5 DEF r
<1>. QED BY <1>1, <1>7, <1>8

\* A cleaning drops expired picks, oldest first, or none.
LEMMA FeedExpire ==
    ASSUME TypeOK, DequeInv, RetentionInv, CleanDeque
    PROVE  (\E n \in DOMAIN mDeque : Feed!Expire(n)) \/ UNCHANGED Feed!vars
<1>1. PICK n \in Pops(mDeque, oldest) : mDeque' = PopFront(mDeque, n)
  BY DEF CleanDeque
<1>2. /\ mDeque \in Seq(Item) /\ Sorted(mDeque) /\ Len(mDeque) \in Nat
      /\ DOMAIN mDeque = 1..Len(mDeque) /\ n \in 0..Len(mDeque)
  BY PopsInRange DEF TypeOK, DequeInv, DequeSorted
<1>3. UNCHANGED <<clock, mCursorMap, since, delivered>>
  BY DEF CleanDeque, historyVars
<1>4. CASE n = 0
  <2>1. mDeque' = mDeque
    BY <1>1, <1>2, <1>4, SubSeqFull DEF PopFront
  <2>. QED BY <1>3, <2>1, FeedStutters
<1>5. CASE n # 0
  <2>1. n \in 1..Len(mDeque)
    BY <1>2, <1>5
  <2>2. ASSUME NEW k \in 1..n PROVE mDeque[k].time < clock - MaxHistory
    <3>1. mDeque[k].time < oldest /\ mDeque[k] \in Item
      BY <1>2 DEF Pops
    <3>2. /\ mDeque[k].time \in Int /\ oldest \in Int /\ clock \in Int /\ MaxHistory \in Int
          /\ oldest <= clock - MaxHistory
      BY <3>1, TimesAreInts DEF TypeOK, RetentionInv, CutoffIsPast
    <3>. DEFINE t == mDeque[k].time
    <3>3. t \in Int /\ t < oldest
      BY <3>1, <3>2
    <3>. HIDE DEF t
    <3>4. t < clock - MaxHistory
      BY <3>2, <3>3
    <3>. QED BY <3>4 DEF t
  <2>3. mDeque' = SubSeq(mDeque, n + 1, Len(mDeque)) /\ Len(mDeque') = Len(mDeque) - n
    BY <1>1, <1>2, PopFrontProperties DEF PopFront
  <2>4. ASSUME NEW r \in Subscribers
        PROVE  /\ Backlog(r)' = IF Len(Backlog(r)) > Len(mDeque') THEN mDeque' ELSE Backlog(r)
               /\ Subscribed(r)' = Subscribed(r)
    <3>1. mCursorMap'[r] = mCursorMap[r] /\ Subscribed(r)' = Subscribed(r)
      BY <1>3 DEF Subscribed
    <3>2. CASE Subscribed(r)
      <4>1. Backlog(r) = Ahead(mDeque, mCursorMap[r]) /\ Backlog(r)' = Ahead(mDeque', mCursorMap[r])
        BY <3>1, <3>2, BacklogPrimed DEF Backlog, Subscribed
      <4>2. mCursorMap[r] \in Int /\ ClockBound \in Int
        BY Bounds
      <4>. QED BY <1>1, <1>2, <3>1, <4>1, <4>2, ShortenedDeque
    <3>3. CASE ~ Subscribed(r)
      <4>1. Backlog(r) = <<>> /\ Backlog(r)' = <<>>
        BY <3>1, <3>3, BacklogPrimed DEF Backlog, Subscribed
      <4>2. ~ (Len(<<>>) > Len(mDeque'))
        <5>1. mDeque' \in Seq(Item)
          BY <1>1, <1>2, PopFrontProperties
        <5>2. Len(<<>>) = 0
          OBVIOUS
        <5>. QED BY <5>1, <5>2
      <4>. QED BY <3>1, <4>1, <4>2
    <3>. QED BY <3>2, <3>3
  <2>5. Feed!Expire(n)
    BY <1>2, <1>3, <2>1, <2>2, <2>3, <2>4 DEF Feed!Expire
  <2>. QED BY <1>2, <2>1, <2>5
<1>. QED BY <1>4, <1>5

\* The youngest pick joins what is ahead of a cursor, unless the cursor is past it.
LEMMA LengthenedDeque ==
    ASSUME NEW q \in Seq(Item), Sorted(q), NEW i \in Item, Sorted(Append(q, i)),
           \A k \in 1..Len(q) : q[k].time < i.time, NEW cursor \in Int, ClockBound \in Int
    PROVE  /\ cursor <= i.time => Ahead(Append(q, i), cursor) = Append(Ahead(q, cursor), i)
           /\ cursor > i.time => Ahead(Append(q, i), cursor) = <<>> /\ Ahead(q, cursor) = <<>>
           /\ Ahead(q, i.time) = <<>>
<1>. DEFINE r == Append(q, i)
            t == i.time
<1>1. /\ Len(q) \in Nat /\ r \in Seq(Item) /\ Len(r) = Len(q) + 1
      /\ \A k \in 1..Len(q) : r[k] = q[k]
      /\ r[Len(q) + 1] = i
  OBVIOUS
<1>2. t \in Int /\ \A k \in 1..Len(q) : q[k].time \in Int /\ q[k].time < t
  <2>1. t \in Int
    BY DEF Item, Time
  <2>2. ASSUME NEW k \in 1..Len(q) PROVE q[k].time \in Int
    <3>1. q[k] \in Item
      OBVIOUS
    <3>. QED BY <3>1 DEF Item, Time
  <2>. QED BY <2>1, <2>2
<1>3. PICK c \in 0..Len(q) :
        /\ Ahead(q, cursor) = PopFront(q, c)
        /\ \A k \in 1..c : q[k].time < cursor
        /\ \A k \in (c + 1)..Len(q) : q[k].time >= cursor
  BY CutIs DEF PopFront
<1>. HIDE DEF r, t
<1>4. Sorted(r)
  BY DEF r
<1>5. ASSUME cursor <= t PROVE Ahead(r, cursor) = Append(Ahead(q, cursor), i)
  <2>1. c \in 0..Len(r) /\ \A k \in 1..c : k \in 1..Len(q)
    BY <1>1
  <2>2. \A k \in 1..c : r[k].time < cursor
    BY <1>1, <1>3, <2>1
  <2>3. c < Len(r) => r[c + 1].time >= cursor
    <3>1. CASE c = Len(q)
      BY <1>1, <1>2, <1>5, <3>1 DEF t
    <3>2. CASE c < Len(q)
      <4>1. c + 1 \in 1..Len(q) /\ c + 1 \in (c + 1)..Len(q)
        BY <1>1, <3>2
      <4>. QED BY <1>1, <1>3, <4>1
    <3>. QED BY <1>1, <3>1, <3>2
  <2>4. Ahead(r, cursor) = PopFront(r, c)
    BY <1>1, <1>4, <2>1, <2>2, <2>3, Cut DEF PopFront
  <2>. DEFINE u == PopFront(r, c)
              w == PopFront(q, c)
              v == Append(w, i)
  <2>5. /\ u \in Seq(Item) /\ Len(u) = Len(r) - c
        /\ \A k \in 1..(Len(r) - c) : u[k] = r[c + k]
    BY <1>1, <2>1, PopFrontProperties
  <2>6. /\ w \in Seq(Item) /\ Len(w) = Len(q) - c
        /\ \A k \in 1..(Len(q) - c) : w[k] = q[c + k]
    BY PopFrontProperties
  <2>. HIDE DEF u, w
  <2>7. /\ v \in Seq(Item) /\ Len(v) = Len(w) + 1
        /\ \A k \in 1..Len(w) : v[k] = w[k]
        /\ v[Len(w) + 1] = i
    BY <2>6
  <2>. HIDE DEF v
  <2>8. ASSUME NEW k \in 1..Len(u) PROVE u[k] = v[k]
    <3>1. CASE k <= Len(w)
      <4>1. k \in 1..Len(w) /\ k \in 1..(Len(q) - c) /\ c + k \in 1..Len(q) /\ k \in 1..(Len(r) - c)
        BY <1>1, <2>5, <2>6, <3>1
      <4>. QED BY <1>1, <2>5, <2>6, <2>7, <4>1
    <3>2. CASE k > Len(w)
      <4>1. Len(w) \in Nat /\ Len(u) = Len(w) + 1 /\ k \in 1..(Len(w) + 1)
        BY <1>1, <2>5, <2>6
      <4>2. k = Len(w) + 1
        BY <3>2, <4>1
      <4>3. c + k = Len(q) + 1 /\ k \in 1..(Len(r) - c)
        BY <1>1, <2>5, <2>6, <4>2
      <4>. QED BY <1>1, <2>5, <2>7, <4>2, <4>3
    <3>. QED BY <1>1, <2>5, <2>6, <3>1, <3>2
  <2>9. Len(u) = Len(v)
    BY <1>1, <2>5, <2>6, <2>7
  <2>10. u = v
    BY <2>5, <2>7, <2>8, <2>9, SeqEqual
  <2>. QED BY <1>3, <2>4, <2>10 DEF u, v, w
<1>6. ASSUME NEW p \in Seq(Item), Sorted(p), NEW m \in Int, \A k \in 1..Len(p) : p[k].time < m
      PROVE  Ahead(p, m) = <<>>
  <2>1. Len(p) \in Nat
    OBVIOUS
  <2>2. Len(p) \in 0..Len(p) /\ ~ (Len(p) < Len(p))
    BY <2>1
  <2>3. Ahead(p, m) = SubSeq(p, Len(p) + 1, Len(p))
    BY <1>6, <2>2, Cut
  <2>. QED BY <2>1, <2>3, SubSeqEmpty
<1>7. ASSUME cursor > t PROVE Ahead(r, cursor) = <<>> /\ Ahead(q, cursor) = <<>>
  <2>1. \A k \in 1..Len(q) : q[k].time < cursor
    BY <1>2, <1>7
  <2>2. ASSUME NEW k \in 1..Len(r) PROVE r[k].time < cursor
    <3>1. k \in 1..Len(q) \/ k = Len(q) + 1
      BY <1>1
    <3>. QED BY <1>1, <1>7, <2>1, <3>1 DEF t
  <2>. QED BY <1>1, <1>4, <1>6, <2>1, <2>2
<1>8. Ahead(q, t) = <<>>
  BY <1>2, <1>6
<1>. QED BY <1>5, <1>7, <1>8 DEF r, t

\* A pick that is inserted joins the backlog of every subscription it is for.
LEMMA FeedPublish ==
    ASSUME TypeOK, DequeInv, FreshInv, EverySubscriptionInv, Insert
    PROVE  Feed!Publish(item)
<1>1. /\ mDeque' = Append(mDeque, item) /\ mDeque'[Len(mDeque')] = item
      /\ \A k \in 1..Len(mDeque) : mDeque[k].time < item.time
  <2>1. ASSUME NEW k \in 1..Len(mDeque) PROVE mDeque[k].time < item.time
    <3>1. mDeque[k] \in Range(mDeque)
      BY DEF Range, TypeOK
    <3>2. mDeque[k] \in stored
      BY <3>1 DEF DequeInv, DequeStored
    <3>. QED BY <3>2 DEF FreshInv, Insert
  <2>. QED BY <2>1, InsertAppends
<1>2. /\ mDeque \in Seq(Item) /\ Sorted(mDeque) /\ item \in Item /\ Sorted(mDeque')
  <2>1. mDeque' \in WithItem
    BY DEF Insert
  <2>. QED BY <2>1, WithItemProperties DEF TypeOK, DequeInv, DequeSorted
<1>3. /\ UNCHANGED <<clock, since, delivered>>
      /\ \A r \in Subscribers : mCursorMap'[r] = IF mCursorMap[r] = MaxTime THEN item.time ELSE mCursorMap[r]
  BY <1>1 DEF Insert, FirstCursor
<1>4. ASSUME NEW r \in Subscribers
      PROVE  /\ Subscribed(r)' = Subscribed(r)
             /\ Backlog(r)' = IF Subscribed(r) /\ item.time >= since[r]
                              THEN Append(Backlog(r), item) ELSE Backlog(r)
  <2>. DEFINE c == mCursorMap[r]
              t == item.time
  <2>1. /\ t \in Int /\ c \in Int /\ since[r] \in Int /\ 0 <= t /\ t # NoCursor
        /\ MaxTime # NoCursor /\ ClockBound \in Int
    <3>1. t \in Time /\ since[r] \in Time
      BY Bounds DEF TypeOK
    <3>. QED BY <3>1, Bounds DEF NoCursor
  <2>2. CursorInv(r)
    BY DEF EverySubscriptionInv, SubscriptionInv
  <2>3. CASE ~ Subscribed(r)
    <3>1. mCursorMap'[r] = NoCursor
      BY <1>3, <2>1, <2>3 DEF Subscribed
    <3>. QED BY <2>3, <3>1, BacklogPrimed DEF Backlog, Subscribed
  <2>4. CASE c = MaxTime
    <3>1. mCursorMap'[r] = t /\ since[r] = 0 /\ Subscribed(r)
      BY <1>3, <2>1, <2>2, <2>4 DEF CursorInv, Live, Subscribed
    <3>2. Backlog(r)' = Ahead(mDeque', t) /\ Subscribed(r)'
      BY <2>1, <3>1, BacklogPrimed DEF Subscribed
    <3>3. Backlog(r) = <<>>
      BY <2>4, <3>1, NothingAhead DEF Backlog
    <3>4. Ahead(mDeque', t) = Append(Ahead(mDeque, t), item) /\ Ahead(mDeque, t) = <<>>
      BY <1>1, <1>2, <2>1, LengthenedDeque
    <3>5. item.time >= since[r]
      BY <2>1, <3>1
    <3>. QED BY <3>1, <3>2, <3>3, <3>4, <3>5
  <2>5. CASE Subscribed(r) /\ c # MaxTime
    <3>1. mCursorMap'[r] = c /\ Subscribed(r)'
      BY <1>3, <2>5 DEF Subscribed
    <3>2. Backlog(r)' = Ahead(mDeque', c) /\ Backlog(r) = Ahead(mDeque, c)
      BY <2>5, <3>1, BacklogPrimed DEF Backlog, Subscribed
    <3>3. since[r] <= c /\ (c = since[r] \/ \E i \in stored : c <= i.time + 1)
      BY <2>2, <2>5 DEF CursorInv, Live
    <3>4. \A i \in stored : i.time < t /\ i.time \in Int
      BY TimesAreInts DEF FreshInv, Insert, TypeOK
    <3>5. t >= since[r] <=> c <= t
      <4>1. CASE c = since[r]
        BY <2>1, <4>1
      <4>2. CASE \E i \in stored : c <= i.time + 1
        <5>1. PICK i \in stored : c <= i.time + 1
          BY <4>2
        <5>2. i.time < t /\ i.time \in Int
          BY <3>4
        <5>. HIDE DEF c, t
        <5>. QED BY <2>1, <3>3, <5>1, <5>2
      <4>. QED BY <3>3, <4>1, <4>2
    <3>6. CASE c <= t
      <4>1. Ahead(mDeque', c) = Append(Ahead(mDeque, c), item)
        BY <1>1, <1>2, <2>1, <3>6, LengthenedDeque
      <4>. QED BY <2>5, <3>1, <3>2, <3>5, <3>6, <4>1
    <3>7. CASE ~ (c <= t)
      <4>1. c > t
        BY <2>1, <3>7
      <4>2. Ahead(mDeque', c) = <<>> /\ Ahead(mDeque, c) = <<>>
        BY <1>1, <1>2, <2>1, <4>1, LengthenedDeque
      <4>. QED BY <2>5, <3>1, <3>2, <3>5, <3>7, <4>2
    <3>. QED BY <3>6, <3>7
  <2>. QED BY <2>3, <2>4, <2>5 DEF Subscribed
<1>5. ASSUME NEW r \in Subscribers
      PROVE  (Feed!Following(r) /\ item.time >= (IF Subscribed(r) THEN since[r] ELSE -1))
                 <=> Subscribed(r) /\ item.time >= since[r]
  <2>1. since[r] \in Int /\ 0 <= since[r]
    BY Bounds DEF TypeOK
  <2>. QED BY <2>1 DEF Feed!Following, Feed!Off
<1>. QED BY <1>1, <1>3, <1>4, <1>5 DEF Feed!Publish, Feed!Following, Feed!Off

-----------------------------------------------------------------------------
(* getPicks: a batch is the first part of what is ahead of the cursor.     *)

\* As many places as are taken in increasing order fit where they lie.
LEMMA IncreasingFits ==
    ASSUME NEW a \in Int, NEW b \in Int, a <= b, NEW c \in Int, NEW d \in Int, NEW f,
           \A j \in a..b : f[j] \in c..d,
           \A i, j \in a..b : i < j => f[i] < f[j]
    PROVE  b - a <= d - c
<1>. DEFINE g == [j \in a..b |-> f[j]]
<1>1. g \in [a..b -> c..d]
  OBVIOUS
<1>2. ASSUME NEW i \in a..b, NEW j \in a..b, g[i] = g[j] PROVE i = j
  <2>1. f[i] \in Int /\ f[j] \in Int /\ f[i] = f[j]
    BY <1>2
  <2>2. ~ (i < j) /\ ~ (j < i)
    BY <2>1
  <2>. QED BY <2>2
<1>3. g \in Injection(a..b, c..d)
  BY <1>1, <1>2 DEF Injection, IsInjective
<1>4. /\ IsFiniteSet(c..d)
      /\ Cardinality(a..b) = b - a + 1
      /\ Cardinality(c..d) = IF c > d THEN 0 ELSE d - c + 1
  BY FS_Interval
<1>5. Cardinality(a..b) <= Cardinality(c..d)
  BY <1>3, <1>4, FS_Injection
<1>6. c <= d
  <2>1. f[a] \in c..d
    OBVIOUS
  <2>. QED BY <2>1
<1>. QED BY <1>4, <1>5, <1>6

\* The places that are scanned follow on the cursor's, as many as fit a batch.
LEMMA ScannedPlaces ==
    ASSUME TypeOK, NEW s \in Subscribers, NEW c \in 0..Len(mDeque),
           \A k \in 1..c : mDeque[k].time < mCursorMap[s],
           \A k \in (c + 1)..Len(mDeque) : mDeque[k].time >= mCursorMap[s]
    PROVE  Scanned(s) = { k \in (c + 1)..Len(mDeque) : k - c <= MaximumNumberOfPicks }
<1>1. /\ Len(mDeque) \in Nat /\ DOMAIN mDeque = 1..Len(mDeque) /\ c \in Nat
      /\ MaximumNumberOfPicks \in Nat
  BY StoreAssumption DEF TypeOK
<1>2. \A k \in 1..Len(mDeque) : mDeque[k].time \in Int /\ mCursorMap[s] \in Int
  <2>. TAKE k \in 1..Len(mDeque)
  <2>1. mDeque[k] \in Item
    BY DEF TypeOK
  <2>. QED BY <2>1, TimesAreInts, Bounds
<1>3. Pending(s) = (c + 1)..Len(mDeque)
  <2>1. ASSUME NEW k \in Pending(s) PROVE k \in (c + 1)..Len(mDeque)
    <3>1. k \in 1..Len(mDeque) /\ mDeque[k].time >= mCursorMap[s]
      BY <1>1 DEF Pending
    <3>2. k \notin 1..c
      BY <1>2, <3>1
    <3>. QED BY <1>1, <3>1, <3>2
  <2>2. ASSUME NEW k \in (c + 1)..Len(mDeque) PROVE k \in Pending(s)
    BY <1>1 DEF Pending
  <2>. QED BY <2>1, <2>2
<1>4. ASSUME NEW k \in (c + 1)..Len(mDeque)
      PROVE  Cardinality({ j \in Pending(s) : j <= k }) = k - c
  <2>1. { j \in Pending(s) : j <= k } = (c + 1)..k
    BY <1>1, <1>3
  <2>2. c + 1 \in Int /\ k \in Int
    BY <1>1
  <2>4. Cardinality((c + 1)..k) = IF c + 1 > k THEN 0 ELSE k - (c + 1) + 1
    BY <2>2, FS_Interval
  <2>3. ~ (c + 1 > k) /\ k - (c + 1) + 1 = k - c
    BY <1>1
  <2>. QED BY <2>1, <2>4, <2>3
<1>. QED BY <1>3, <1>4 DEF Scanned

\* A batch holds them all, in their order.
LEMMA BatchPlaces ==
    ASSUME TypeOK, NEW s \in Subscribers, NEW c \in 0..Len(mDeque),
           \A k \in 1..c : mDeque[k].time < mCursorMap[s],
           \A k \in (c + 1)..Len(mDeque) : mDeque[k].time >= mCursorMap[s],
           Scanned(s) # {}, NEW f \in Ascending(Scanned(s))
    PROVE  /\ Len(f) \in 1..MaximumNumberOfPicks
           /\ c + Len(f) <= Len(mDeque)
           /\ c + Len(f) = Len(mDeque) \/ Len(f) = MaximumNumberOfPicks
           /\ \A m \in 1..Len(f) : f[m] = c + m
<1>. DEFINE n == Len(f)
            L == Len(mDeque)
            most == MaximumNumberOfPicks
            e == IF L - c <= most THEN L ELSE c + most
<1>1. L \in Nat /\ c \in Nat /\ most \in Nat \ {0} /\ c <= L
  BY StoreAssumption DEF TypeOK
<1>2. Scanned(s) = { k \in (c + 1)..L : k - c <= most }
  BY ScannedPlaces
<1>. HIDE DEF L, most
<1>3. e \in Int /\ Scanned(s) = (c + 1)..e
  BY <1>1, <1>2
<1>4. c + 1 <= e
  <2>1. PICK k \in Scanned(s) : TRUE
    OBVIOUS
  <2>. QED BY <1>1, <1>3, <2>1
<1>5. /\ n \in Nat \ {0} /\ n = Cardinality(Scanned(s))
      /\ \A i, j \in 1..n : i < j => f[i] < f[j]
  BY ScannedProperties
<1>6. \A m \in 1..n : f[m] \in (c + 1)..e
  BY <1>3, <1>5 DEF Ascending
<1>. HIDE DEF n, e
<1>7. n = e - c
  <2>1. Cardinality((c + 1)..e) = IF c + 1 > e THEN 0 ELSE e - (c + 1) + 1
    BY <1>1, <1>3, FS_Interval
  <2>2. ~ (c + 1 > e) /\ e - (c + 1) + 1 = e - c
    BY <1>1, <1>3, <1>4
  <2>. QED BY <1>3, <1>5, <2>1, <2>2
<1>8. ASSUME NEW m \in 1..n PROVE f[m] = c + m
  <2>1. f[m] \in Int /\ m \in Int /\ 1 <= m /\ m <= n
    BY <1>1, <1>3, <1>5, <1>6
  <2>2. m - 1 <= f[m] - (c + 1)
    <3>1. ASSUME NEW j \in 1..m PROVE f[j] \in (c + 1)..f[m]
      <4>1. j \in 1..n /\ (j = m \/ j < m)
        BY <1>5, <2>1
      <4>2. f[j] \in (c + 1)..e /\ (j = m \/ f[j] < f[m])
        BY <1>5, <1>6, <4>1
      <4>. QED BY <1>1, <1>3, <2>1, <4>2
    <3>2. \A i, j \in 1..m : i < j => f[i] < f[j]
      BY <1>5, <2>1
    <3>. DEFINE lo == c + 1
    <3>3. lo \in Int /\ 1 \in Int
      BY <1>1
    <3>. HIDE DEF lo
    <3>4. m - 1 <= f[m] - lo
      BY <2>1, <3>1, <3>2, <3>3, IncreasingFits DEF lo
    <3>. QED BY <3>4 DEF lo
  <2>3. n - m <= e - f[m]
    <3>1. ASSUME NEW j \in m..n PROVE f[j] \in f[m]..e
      <4>1. j \in 1..n /\ (j = m \/ m < j)
        BY <1>5, <2>1
      <4>2. f[j] \in (c + 1)..e /\ (j = m \/ f[m] < f[j])
        BY <1>5, <1>6, <4>1
      <4>. QED BY <1>1, <1>3, <2>1, <4>2
    <3>2. \A i, j \in m..n : i < j => f[i] < f[j]
      BY <1>5, <2>1
    <3>3. n \in Int
      BY <1>5
    <3>. QED BY <1>3, <2>1, <3>1, <3>2, <3>3, IncreasingFits
  <2>. DEFINE p == f[m]
  <2>4. p \in Int /\ m - 1 <= p - (c + 1) /\ n - m <= e - p
    BY <2>1, <2>2, <2>3
  <2>. HIDE DEF p
  <2>5. p = c + m
    BY <1>1, <1>3, <1>5, <1>7, <2>1, <2>4
  <2>. QED BY <2>5 DEF p
<1>9. n \in 1..most /\ c + n <= L /\ (c + n = L \/ n = most)
  BY <1>1, <1>5, <1>7 DEF e
<1>. QED BY <1>8, <1>9 DEF n, L, most

\* What getPicks returns begins at the cursor's place, and the cursor moves past it.
LEMMA BatchTaken ==
    ASSUME TypeOK, DequeInv, FreshInv, NEW s \in Subscribers, GetPicks(s)
    PROVE  \E c \in 0..Len(mDeque) : \E n \in 1..MaximumNumberOfPicks :
              /\ c + n <= Len(mDeque)
              /\ c + n = Len(mDeque) \/ n = MaximumNumberOfPicks
              /\ Ahead(mDeque, mCursorMap[s]) = PopFront(mDeque, c)
              /\ delivered' = [delivered EXCEPT ![s] = @ \o [k \in 1..n |-> mDeque[c + k]]]
              /\ mDeque[c + n] \in Item
              /\ mCursorMap' = [mCursorMap EXCEPT ![s] = mDeque[c + n].time + 1]
              /\ Ahead(mDeque, mDeque[c + n].time + 1) = PopFront(mDeque, c + n)
<1>. DEFINE L == Len(mDeque)
            cursor == mCursorMap[s]
<1>1. PICK f \in Ascending(Scanned(s)) :
        LET result == [k \in 1..Len(f) |-> mDeque[f[k]]] IN
        /\ delivered' = [delivered EXCEPT ![s] = @ \o result]
        /\ mCursorMap' = [mCursorMap EXCEPT ![s] = CursorAfter(result[Len(result)].time)]
  BY DEF GetPicks
<1>. DEFINE n == Len(f)
            result == [k \in 1..n |-> mDeque[f[k]]]
<1>2. /\ Subscribed(s) /\ Scanned(s) # {}
      /\ UNCHANGED <<clock, mDeque, since>>
  BY DEF GetPicks
<1>3. /\ mDeque \in Seq(Item) /\ Sorted(mDeque) /\ L \in Nat /\ DOMAIN mDeque = 1..L
      /\ cursor \in Int /\ ClockBound \in Int
  BY Bounds DEF TypeOK, DequeInv, DequeSorted
<1>4. PICK c \in 0..L :
        /\ Ahead(mDeque, cursor) = PopFront(mDeque, c)
        /\ \A k \in 1..c : mDeque[k].time < cursor
        /\ \A k \in (c + 1)..L : mDeque[k].time >= cursor
  BY <1>3, CutIs DEF PopFront
<1>5. /\ n \in 1..MaximumNumberOfPicks /\ c + n <= L
      /\ c + n = L \/ n = MaximumNumberOfPicks
      /\ \A m \in 1..n : f[m] = c + m
  BY <1>2, <1>4, BatchPlaces
<1>6. n \in Nat \ {0} /\ c \in Nat /\ c + n \in 1..L
  <2>1. n \in 1..MaximumNumberOfPicks /\ c + n <= L /\ L \in Nat /\ c \in 0..L
    BY <1>3, <1>5
  <2>. HIDE DEF n, L
  <2>. QED BY <2>1, StoreAssumption
<1>9. result = [k \in 1..n |-> mDeque[c + k]]
  BY <1>5
<1>. DEFINE last == mDeque[c + n]
<1>11. /\ last \in Item /\ last.time \in Int /\ last.time >= 0
       /\ last.time + 1 # NoCursor
  <2>1. last \in Item
    BY <1>3, <1>6
  <2>2. last.time \in 0..ClockBound
    BY <2>1 DEF Item, Time
  <2>. QED BY <1>3, <2>1, <2>2 DEF NoCursor
<1>12. mCursorMap' = [mCursorMap EXCEPT ![s] = last.time + 1]
  <2>1. n \in 1..n /\ Len(result) = n
    BY <1>6
  <2>2. result[Len(result)] = last
    BY <1>5, <2>1
  <2>. QED BY <1>1, <2>2 DEF CursorAfter
<1>. HIDE DEF result
<1>13. Ahead(mDeque, last.time + 1) = PopFront(mDeque, c + n)
  <2>1. ASSUME NEW k \in 1..(c + n) PROVE mDeque[k].time < last.time + 1
    <3>1. k \in DOMAIN mDeque /\ c + n \in DOMAIN mDeque /\ (k = c + n \/ k < c + n)
      BY <1>3, <1>6
    <3>2. mDeque[k] \in Item
      BY <1>3, <3>1
    <3>3. mDeque[k].time \in Int
      BY <3>2 DEF Item, Time
    <3>4. k = c + n \/ mDeque[k].time < last.time
      BY <3>1, DequeTimes
    <3>. QED BY <1>11, <3>3, <3>4
  <2>2. c + n < L => mDeque[(c + n) + 1].time >= last.time + 1
    <3>. HAVE c + n < L
    <3>1. /\ c + n \in DOMAIN mDeque /\ (c + n) + 1 \in DOMAIN mDeque
          /\ c + n < (c + n) + 1
      BY <1>3, <1>6
    <3>2. last.time < mDeque[(c + n) + 1].time
      BY <3>1, DequeTimes
    <3>3. mDeque[(c + n) + 1] \in Item
      BY <1>3, <3>1
    <3>4. mDeque[(c + n) + 1].time \in Int
      BY <3>3 DEF Item, Time
    <3>. QED BY <1>11, <3>2, <3>4
  <2>3. last.time + 1 \in Int /\ c + n \in 0..Len(mDeque)
    BY <1>6, <1>11
  <2>. HIDE DEF last
  <2>. QED BY <1>3, <2>1, <2>2, <2>3, Cut DEF PopFront
<1>. HIDE DEF last
<1>. QED BY <1>1, <1>4, <1>5, <1>9, <1>11, <1>12, <1>13 DEF last

LEMMA FeedDeliver ==
    ASSUME TypeOK, DequeInv, FreshInv, NEW s \in Subscribers, GetPicks(s)
    PROVE  \E n \in 1..MaximumNumberOfPicks : Feed!Deliver(s, n)
<1>. DEFINE L == Len(mDeque)
            ahead == Backlog(s)
<1>1. PICK c \in 0..L : \E n \in 1..MaximumNumberOfPicks :
        /\ c + n <= L
        /\ Ahead(mDeque, mCursorMap[s]) = PopFront(mDeque, c)
        /\ delivered' = [delivered EXCEPT ![s] = @ \o [k \in 1..n |-> mDeque[c + k]]]
        /\ mDeque[c + n] \in Item
        /\ mCursorMap' = [mCursorMap EXCEPT ![s] = mDeque[c + n].time + 1]
        /\ Ahead(mDeque, mDeque[c + n].time + 1) = PopFront(mDeque, c + n)
  BY BatchTaken
<1>2. PICK n \in 1..MaximumNumberOfPicks :
        /\ c + n <= L
        /\ Ahead(mDeque, mCursorMap[s]) = PopFront(mDeque, c)
        /\ delivered' = [delivered EXCEPT ![s] = @ \o [k \in 1..n |-> mDeque[c + k]]]
        /\ mDeque[c + n] \in Item
        /\ mCursorMap' = [mCursorMap EXCEPT ![s] = mDeque[c + n].time + 1]
        /\ Ahead(mDeque, mDeque[c + n].time + 1) = PopFront(mDeque, c + n)
  BY <1>1
<1>3. /\ Subscribed(s) /\ UNCHANGED <<clock, mDeque, since>>
      /\ mDeque \in Seq(Item) /\ L \in Nat /\ DOMAIN mDeque = 1..L
  BY DEF GetPicks, TypeOK
<1>6. n \in Nat \ {0} /\ c \in Nat /\ c + n \in 1..L /\ n \in 0..(L - c)
  BY <1>2, <1>3, StoreAssumption
<1>7. ahead = PopFront(mDeque, c)
  BY <1>2, <1>3 DEF Backlog
<1>8. /\ ahead \in Seq(Item) /\ Len(ahead) = L - c
      /\ \A k \in 1..(L - c) : ahead[k] = mDeque[c + k]
  BY <1>3, <1>7, PopFrontProperties
<1>. HIDE DEF ahead
<1>. DEFINE result == [k \in 1..n |-> mDeque[c + k]]
<1>9. result = SubSeq(ahead, 1, n)
  <2>1. \A k \in 1..n : k \in 1..(L - c) /\ c + k \in 1..L
    BY <1>3, <1>6
  <2>2. /\ SubSeq(ahead, 1, n) \in Seq(Item) /\ Len(SubSeq(ahead, 1, n)) = n
        /\ \A k \in 1..n : SubSeq(ahead, 1, n)[k] = ahead[k]
    BY <1>6, <1>8, <2>1
  <2>3. \A k \in 1..n : mDeque[c + k] \in Item
    BY <1>3, <2>1
  <2>4. /\ result \in Seq(Item) /\ Len(result) = n
        /\ \A k \in 1..n : result[k] = mDeque[c + k]
    BY <1>6, <2>3
  <2>. HIDE DEF result
  <2>5. \A k \in 1..n : result[k] = SubSeq(ahead, 1, n)[k]
    BY <1>8, <2>1, <2>2, <2>4
  <2>. QED BY <2>2, <2>4, <2>5, SeqEqual
<1>10. delivered' = [delivered EXCEPT ![s] = @ \o SubSeq(ahead, 1, n)]
  BY <1>2, <1>9
<1>. HIDE DEF result
<1>14. Backlog(s)' = SubSeq(ahead, n + 1, Len(ahead)) /\ Subscribed(s)'
  <2>. DEFINE t == mDeque[c + n].time + 1
  <2>1. mCursorMap'[s] = t /\ mDeque' = mDeque
    BY <1>2, <1>3 DEF TypeOK
  <2>2. t # NoCursor
    <3>1. mDeque[c + n].time \in 0..ClockBound
      BY <1>2 DEF Item, Time
    <3>. QED BY <3>1, StoreAssumption DEF NoCursor
  <2>3. Ahead(mDeque, t) = PopFront(mDeque, c + n)
    BY <1>2
  <2>. HIDE DEF t
  <2>4. Backlog(s)' = PopFront(mDeque, c + n) /\ Subscribed(s)'
    BY <2>1, <2>2, <2>3, BacklogPrimed DEF Subscribed
  <2>5. PopFront(ahead, n) = PopFront(mDeque, c + n)
    BY <1>3, <1>6, <1>7, TailOfTail
  <2>. QED BY <2>4, <2>5 DEF PopFront
<1>15. ASSUME NEW r \in Subscribers \ {s}
       PROVE  Backlog(r)' = Backlog(r) /\ Subscribed(r)' = Subscribed(r)
  <2>1. mCursorMap'[r] = mCursorMap[r] /\ mDeque' = mDeque
    BY <1>2, <1>3 DEF TypeOK
  <2>. QED BY <2>1, Unread
<1>16. n \in 1..Len(ahead)
  BY <1>6, <1>8
<1>17. Feed!Deliver(s, n)
  <2>1. Subscribed(s)' = Subscribed(s)
    BY <1>3, <1>14 DEF Subscribed
  <2>2. \A r \in Subscribers : Subscribed(r)' = Subscribed(r)
    BY <1>15, <2>1
  <2>. QED BY <1>3, <1>10, <1>14, <1>15, <1>16, <2>2 DEF Feed!Deliver, ahead
<1>. QED BY <1>17

-----------------------------------------------------------------------------
(* The refinement.                                                         *)

LEMMA FeedInit == ASSUME Init, TypeOK PROVE Feed!Init
<1>1. ASSUME NEW r \in Subscribers PROVE ~ Subscribed(r) /\ Backlog(r) = <<>>
  BY <1>1 DEF Init, Subscribed, Backlog
<1>2. mDeque \in Seq(Feed!Item)
  BY DEF TypeOK, Item, Time, Feed!Item, Feed!Time
<1>. QED BY <1>1, <1>2 DEF Init, Feed!Init, Feed!Off

LEMMA FeedStep ==
    ASSUME Forward, StreamInv, [Next]_vars
    PROVE  [Feed!Next]_(Feed!vars)
<1>1. TypeOK /\ DequeInv /\ RetentionInv /\ FreshInv /\ EverySubscriptionInv
  BY DEF StreamInv
<1>2. clock \in Int /\ ClockBound \in Int /\ MinInsertTicks \in Nat /\ clock \in 0..ClockBound
  BY <1>1, StoreAssumption DEF TypeOK, Time
<1>3. CASE Tick
  <2>1. clock' \in clock..ClockBound /\ UNCHANGED <<mDeque, mCursorMap, since, delivered>>
    BY <1>2, <1>3 DEF Tick, historyVars
  <2>. QED BY <2>1, FeedAdvance DEF Feed!Next
<1>4. CASE StepBack
  <2>1. PICK t \in Time : t < clock /\ t >= clock - MaxStepBack
    BY <1>4 DEF StepBack
  <2>2. t \in Int
    BY StoreAssumption DEF Time
  <2>. QED BY <1>2, <2>1, <2>2 DEF Forward
<1>5. ASSUME NEW p \in Picks, Receive(p) PROVE [Feed!Next]_(Feed!vars)
  <2>1. clock' \in clock..ClockBound /\ UNCHANGED <<mDeque, mCursorMap, since, delivered>>
    BY <1>2, <1>5 DEF Receive, historyVars
  <2>. QED BY <2>1, FeedAdvance DEF Feed!Next
<1>6. CASE DateRetention
  BY <1>6, FeedStutters DEF DateRetention, historyVars
<1>7. CASE CleanDeque
  BY <1>1, <1>7, FeedExpire DEF Feed!Next
<1>8. CASE Insert
  <2>1. item \in Feed!Item
    BY <1>1 DEF TypeOK, Item, Time, Feed!Item, Feed!Time
  <2>. QED BY <1>1, <1>8, <2>1, FeedPublish DEF Feed!Next
<1>9. ASSUME NEW s \in Subscribers,
             Subscribe(s) \/ (\E startTime \in Time : SubscribeSince(s, startTime)) \/ Unsubscribe(s)
      PROVE  [Feed!Next]_(Feed!vars)
  <2>1. Feed!FollowLive(s) \/ (\E t \in Time : Feed!Follow(s, t)) \/ Feed!Leave(s)
    BY <1>1, <1>9, FeedSubscription
  <2>. QED BY <2>1 DEF Feed!Next, Time, Feed!Time
<1>10. ASSUME NEW s \in Subscribers, GetPicks(s) PROVE [Feed!Next]_(Feed!vars)
  BY <1>1, <1>10, FeedDeliver DEF Feed!Next
<1>11. CASE UNCHANGED vars
  BY <1>11, FeedStutters DEF vars, historyVars
<1>. QED BY <1>3, <1>4, <1>5, <1>6, <1>7, <1>8, <1>9, <1>10, <1>11 DEF Next

\* The shared deque, its cursors and the two critical sections of enqueue are a
\* backlog per subscriber: the safety part of ImplementsFeed (that a backlog is read
\* is left to TLC).
THEOREM StoreIsFeed ==
    ASSUME Forward
    PROVE  Spec => Feed!Init /\ [][Feed!Next]_(Feed!vars)
<1>1. Init => StreamInv /\ Feed!Init
  BY StreamInit, FeedInit DEF StreamInv
<1>2. StreamInv /\ [Next]_vars => StreamInv'
  BY StreamNext
<1>3. StreamInv /\ [Next]_vars => [Feed!Next]_(Feed!vars)
  BY FeedStep
<1>. QED BY <1>1, <1>2, <1>3, PTL DEF Spec
-----------------------------------------------------------------------------
(* The view that the subscribe service has of the store.                   *)

\* How many picks lie before a cursor, and what is ahead of it is the rest.
LEMMA AheadLength ==
    ASSUME NEW q \in Seq(Item), Sorted(q), NEW cursor \in Int, ClockBound \in Int
    PROVE  /\ Cardinality(Below(q, cursor)) \in 0..Len(q)
           /\ Ahead(q, cursor) = PopFront(q, Cardinality(Below(q, cursor)))
           /\ Len(Ahead(q, cursor)) = Len(q) - Cardinality(Below(q, cursor))
<1>1. Cardinality(Below(q, cursor)) \in 0..Len(q)
  BY BelowIsPrefix
<1>2. Ahead(q, cursor) = PopFront(q, Cardinality(Below(q, cursor)))
  BY DEF Ahead, PopFront
<1>. QED BY <1>1, <1>2, PopFrontProperties

\* A purge moves what is below a cursor to the front, or out.
LEMMA ShortenedBelow ==
    ASSUME NEW q \in Seq(Item), Sorted(q), NEW cursor \in Int, ClockBound \in Int,
           NEW n \in 0..Len(q), Sorted(PopFront(q, n))
    PROVE  Cardinality(Below(PopFront(q, n), cursor))
             = IF Cardinality(Below(q, cursor)) < n THEN 0
               ELSE Cardinality(Below(q, cursor)) - n
<1>. DEFINE r == PopFront(q, n)
            b == Cardinality(Below(q, cursor))
            c == Cardinality(Below(r, cursor))
            l == Len(q)
<1>1. r \in Seq(Item) /\ Len(r) = l - n /\ l \in Nat
  BY PopFrontProperties
<1>2. b \in 0..l /\ Len(Ahead(q, cursor)) = l - b
  BY AheadLength
<1>3. c \in 0..Len(r) /\ Len(Ahead(r, cursor)) = Len(r) - c
  BY <1>1, AheadLength
<1>4. Len(Ahead(r, cursor)) = IF Len(Ahead(q, cursor)) > Len(r) THEN Len(r) ELSE Len(Ahead(q, cursor))
  BY ShortenedDeque
<1>5. n \in 0..l
  OBVIOUS
<1>. DEFINE x == Len(Ahead(q, cursor))
            y == Len(Ahead(r, cursor))
            m == Len(r)
<1>6. /\ x = l - b /\ y = m - c /\ m = l - n /\ y = IF x > m THEN m ELSE x
      /\ l \in Nat /\ b \in Nat /\ c \in Nat /\ n \in Nat
  BY <1>1, <1>2, <1>3, <1>4, <1>5
<1>. HIDE DEF x, y, m, l, b, c
<1>7. c = IF b < n THEN 0 ELSE b - n
  BY <1>6
<1>. QED BY <1>7 DEF b, c, r

\* The youngest pick leaves the cursors before it where they are.
LEMMA LengthenedBelow ==
    ASSUME NEW q \in Seq(Item), Sorted(q), NEW i \in Item, Sorted(Append(q, i)),
           \A k \in 1..Len(q) : q[k].time < i.time, NEW cursor \in Int, ClockBound \in Int
    PROVE  /\ Cardinality(Below(Append(q, i), cursor))
                = Cardinality(Below(q, cursor)) + (IF i.time < cursor THEN 1 ELSE 0)
           /\ i.time < cursor => Cardinality(Below(q, cursor)) = Len(q)
           /\ Cardinality(Below(Append(q, i), i.time)) = Len(q)
<1>. DEFINE r == Append(q, i)
            t == i.time
            l == Len(q)
<1>1. r \in Seq(Item) /\ Len(r) = l + 1 /\ l \in Nat /\ t \in Int
  BY DEF Item, Time
<1>2. /\ cursor <= t => Ahead(r, cursor) = Append(Ahead(q, cursor), i)
      /\ cursor > t => Ahead(r, cursor) = <<>> /\ Ahead(q, cursor) = <<>>
      /\ Ahead(q, t) = <<>>
  BY LengthenedDeque
<1>3. Ahead(r, t) = Append(Ahead(q, t), i)
  <2>1. t <= t
    BY <1>1
  <2>. QED BY <1>1, <2>1, LengthenedDeque
<1>4. ASSUME NEW c \in Int
      PROVE  /\ Cardinality(Below(q, c)) \in 0..l /\ Ahead(q, c) \in Seq(Item)
             /\ Len(Ahead(q, c)) = l - Cardinality(Below(q, c))
             /\ Cardinality(Below(r, c)) \in 0..(l + 1)
             /\ Len(Ahead(r, c)) = (l + 1) - Cardinality(Below(r, c))
  <2>1. Sorted(r)
    OBVIOUS
  <2>2. /\ Cardinality(Below(q, c)) \in 0..l
        /\ Ahead(q, c) = PopFront(q, Cardinality(Below(q, c)))
        /\ Len(Ahead(q, c)) = l - Cardinality(Below(q, c))
    BY AheadLength
  <2>3. Ahead(q, c) \in Seq(Item)
    BY <2>2, PopFrontProperties
  <2>. HIDE DEF r
  <2>. QED BY <1>1, <2>1, <2>2, <2>3, AheadLength
<1>5. \A a \in Seq(Item) : Len(Append(a, i)) = Len(a) + 1
  OBVIOUS
<1>6. Len(<<>>) = 0
  OBVIOUS
<1>. DEFINE b == Cardinality(Below(q, cursor))
            d == Cardinality(Below(r, cursor))
            x == Len(Ahead(q, cursor))
            y == Len(Ahead(r, cursor))
<1>7. /\ cursor <= t => y = x + 1
      /\ cursor > t => y = 0 /\ x = 0
      /\ x = l - b /\ y = (l + 1) - d /\ b \in Nat /\ d \in Nat
  <2>1. cursor <= t => y = x + 1
    BY <1>2, <1>4, <1>5
  <2>2. cursor > t => y = 0 /\ x = 0
    BY <1>2, <1>6
  <2>3. x = l - b /\ y = (l + 1) - d /\ b \in 0..l /\ d \in 0..(l + 1)
    BY <1>4
  <2>. HIDE DEF x, y, b, d, l, t
  <2>. QED BY <1>1, <2>1, <2>2, <2>3
<1>8. Cardinality(Below(r, t)) = l
  <2>1. Len(Ahead(r, t)) = 1
    BY <1>1, <1>2, <1>3, <1>5, <1>6
  <2>2. Len(Ahead(r, t)) = (l + 1) - Cardinality(Below(r, t)) /\ Cardinality(Below(r, t)) \in 0..(l + 1)
    BY <1>1, <1>4
  <2>. DEFINE e == Cardinality(Below(r, t))
              z == Len(Ahead(r, t))
  <2>3. z = 1 /\ z = (l + 1) - e /\ e \in 0..(l + 1)
    BY <2>1, <2>2
  <2>. HIDE DEF e, z, l
  <2>4. e = l
    BY <1>1, <2>3
  <2>. QED BY <2>4 DEF e
<1>. HIDE DEF x, y, b, d, l, t
<1>9. d = b + (IF t < cursor THEN 1 ELSE 0) /\ (t < cursor => b = l)
  BY <1>1, <1>7
<1>. QED BY <1>8, <1>9 DEF b, d, l, t, r

\* A cursor lies in the past, or at the end of time.
PastInv == \A s \in Subscribers : Subscribed(s) /\ ~ Live(s) => mCursorMap[s] <= clock

NumbersInv == StreamInv /\ PastInv

LEMMA PastNext ==
    ASSUME Forward, StreamInv, PastInv, [Next]_vars
    PROVE  PastInv'
<1>. SUFFICES ASSUME NEW s \in Subscribers, Subscribed(s)', ~ Live(s)'
              PROVE  mCursorMap'[s] <= clock'
  BY DEF PastInv
<1>1. /\ TypeOK /\ DequeInv /\ FreshInv /\ clock \in Int /\ ClockBound \in Nat
      /\ mCursorMap \in [Subscribers -> Int] /\ mCursorMap[s] \in Int
  <2>1. TypeOK /\ DequeInv /\ FreshInv
    BY DEF StreamInv
  <2>. QED BY <2>1, Bounds, StoreAssumption
<1>2. mCursorMap[s] \in Int /\ (Subscribed(s) /\ ~ Live(s) => mCursorMap[s] <= clock)
  BY <1>1 DEF PastInv
<1>3. clock' \in Int /\ clock' >= clock
  <2>1. CASE StepBack
    <3>1. PICK t \in Time : t < clock /\ t >= clock - MaxStepBack
      BY <2>1 DEF StepBack
    <3>2. t \in Int
      BY <1>1 DEF Time
    <3>. QED BY <1>1, <3>1, <3>2 DEF Forward
  <2>2. CASE Tick \/ \E p \in Picks : Receive(p)
    <3>1. clock' = clock + 1 \/ clock' = clock + MinInsertTicks
      BY <2>2 DEF Tick, Receive
    <3>2. MinInsertTicks \in Nat
      BY StoreAssumption
    <3>. QED BY <1>1, <3>1, <3>2
  <2>3. CASE UNCHANGED clock
    BY <1>1, <2>3
  <2>. QED BY <2>1, <2>2, <2>3 DEF Next, DateRetention, CleanDeque, Insert, Subscribe,
              SubscribeSince, Unsubscribe, SetCursor, GetPicks, vars
<1>4. CASE mCursorMap'[s] = mCursorMap[s]
  BY <1>1, <1>2, <1>3, <1>4 DEF Subscribed, Live
<1>5. CASE Insert
  <2>1. mCursorMap'[s] = FirstCursor(mCursorMap[s], item.time)
    BY <1>1, <1>5, InsertAppends DEF Insert
  <2>2. item.time < clock /\ item.time \in Int
    BY <1>1, <1>5, TimesAreInts DEF FreshInv, Insert, TypeOK
  <2>3. CASE Live(s)
    <3>1. mCursorMap'[s] = item.time
      BY <2>1, <2>3 DEF FirstCursor, Live
    <3>. QED BY <1>1, <1>3, <2>2, <3>1
  <2>4. CASE ~ Live(s)
    BY <1>4, <2>1, <2>4 DEF FirstCursor, Live
  <2>. QED BY <2>3, <2>4
<1>6. ASSUME NEW r \in Subscribers,
             \/ Subscribe(r)
             \/ \E startTime \in Time : SubscribeSince(r, startTime)
             \/ Unsubscribe(r)
      PROVE  mCursorMap'[s] <= clock'
  <2>1. CASE r # s
    BY <1>1, <1>4, <1>6, <2>1 DEF Subscribe, SubscribeSince, Unsubscribe, SetCursor
  <2>2. ~ (r = s /\ (Subscribe(r) \/ Unsubscribe(r)))
    BY <1>1 DEF Subscribe, Unsubscribe, SetCursor, Subscribed, Live
  <2>3. ASSUME r = s, NEW startTime \in Time, SubscribeSince(r, startTime)
        PROVE  mCursorMap'[s] <= clock'
    BY <1>1, <2>3 DEF SubscribeSince, SetCursor
  <2>. QED BY <1>6, <2>1, <2>2, <2>3
<1>7. ASSUME NEW r \in Subscribers, GetPicks(r) PROVE mCursorMap'[s] <= clock'
  <2>1. PICK c \in 0..Len(mDeque), n \in 1..MaximumNumberOfPicks :
          /\ c + n <= Len(mDeque)
          /\ mCursorMap' = [mCursorMap EXCEPT ![r] = mDeque[c + n].time + 1]
    BY <1>1, <1>7, BatchTaken
  <2>2. c + n \in DOMAIN mDeque
    BY <1>1, <2>1, StoreAssumption DEF TypeOK
  <2>3. mDeque[c + n] \in stored /\ mDeque[c + n] \in Item
    BY <1>1, <2>2 DEF DequeInv, DequeStored, Range, TypeOK
  <2>. DEFINE t == mDeque[c + n].time
  <2>4. t < clock /\ t \in Int /\ clock' = clock
    BY <1>1, <1>7, <2>3, TimesAreInts DEF FreshInv, GetPicks
  <2>5. mCursorMap'[s] = IF r = s THEN t + 1 ELSE mCursorMap[s]
    BY <1>1, <2>1
  <2>. HIDE DEF t
  <2>. QED BY <1>1, <1>4, <2>4, <2>5
<1>8. CASE Tick \/ StepBack \/ (\E p \in Picks : Receive(p)) \/ DateRetention
             \/ CleanDeque \/ UNCHANGED vars
  BY <1>4, <1>8 DEF Tick, StepBack, Receive, DateRetention, CleanDeque, vars
<1>. QED BY <1>5, <1>6, <1>7, <1>8 DEF Next

\* A pick on its way is younger than the deque.
LEMMA OnItsWayIsLast ==
    ASSUME TypeOK, DequeInv, FreshInv, pc # "idle", NEW cursor \in Int, item.time < cursor
    PROVE  Cardinality(Below(mDeque, cursor)) = Len(mDeque)
<1>1. ASSUME NEW k \in DOMAIN mDeque PROVE mDeque[k].time < cursor
  <2>1. mDeque[k] \in stored
    BY DEF DequeInv, DequeStored, Range
  <2>. DEFINE t == mDeque[k].time
  <2>2. t < item.time /\ t \in Int /\ item.time \in Int
    BY <2>1, TimesAreInts DEF FreshInv, TypeOK
  <2>. HIDE DEF t
  <2>3. t < cursor
    BY <2>2
  <2>. QED BY <2>3 DEF t
<1>2. Below(mDeque, cursor) = 1..Len(mDeque) /\ Len(mDeque) \in Nat
  BY <1>1 DEF Below, TypeOK
<1>3. Cardinality(1..Len(mDeque)) = Len(mDeque)
  <2>. DEFINE l == Len(mDeque)
  <2>1. l \in Int /\ l >= 0
    BY <1>2
  <2>. HIDE DEF l
  <2>2. Cardinality(1..l) = IF 1 > l THEN 0 ELSE l - 1 + 1
    BY <2>1, FS_Interval
  <2>3. Cardinality(1..l) = l
    BY <2>1, <2>2
  <2>. QED BY <2>3 DEF l
<1>. QED BY <1>2, <1>3

\* What determines a place.
LEMMA PlaceIs ==
    ASSUME TypeOK, DequeInv, FreshInv, NEW s \in Subscribers,
           NEW b, b = Cardinality(Below(mDeque, mCursorMap[s])),
           NEW late, late = (pc # "idle" /\ item.time < mCursorMap[s])
    PROVE  /\ b \in 0..Len(mDeque) /\ Len(mDeque) \in Nat /\ late \in BOOLEAN
           /\ late => b = Len(mDeque)
           /\ ~ Subscribed(s) => Place(s) = NoCursor
           /\ Subscribed(s) /\ Live(s) => Place(s) = Len(mDeque) /\ b = Len(mDeque)
           /\ Subscribed(s) /\ ~ Live(s) => Place(s) = b + (IF late THEN 1 ELSE 0)
<1>1. /\ mDeque \in Seq(Item) /\ Sorted(mDeque) /\ Len(mDeque) \in Nat
      /\ mCursorMap[s] \in Int /\ MaxTime \in Int /\ ClockBound \in Int
  BY Bounds DEF TypeOK, DequeInv, DequeSorted
<1>2. b \in 0..Len(mDeque) /\ Len(Ahead(mDeque, mCursorMap[s])) = Len(mDeque) - b
  BY <1>1, AheadLength
<1>3. late => b = Len(mDeque)
  BY <1>1, OnItsWayIsLast
<1>4. ASSUME Live(s) PROVE b = Len(mDeque)
  <2>1. Len(Ahead(mDeque, mCursorMap[s])) = 0
    BY <1>4, NothingAhead DEF Live
  <2>. DEFINE x == Len(Ahead(mDeque, mCursorMap[s]))
              l == Len(mDeque)
  <2>2. x = 0 /\ x = l - b /\ b \in 0..l /\ l \in Nat
    BY <1>1, <1>2, <2>1
  <2>. HIDE DEF x, l
  <2>3. b = l
    BY <2>2
  <2>. QED BY <2>3 DEF l
<1>. QED BY <1>1, <1>2, <1>3, <1>4 DEF Place, Live

LEMMA PlacePrimed ==
    ASSUME NEW s \in Subscribers
    PROVE  Place(s)' =
             IF mCursorMap'[s] = NoCursor THEN NoCursor
             ELSE IF mCursorMap'[s] = MaxTime THEN Len(mDeque')
             ELSE Cardinality(Below(mDeque', mCursorMap'[s]))
                    + (IF pc' # "idle" /\ item'.time < mCursorMap'[s] THEN 1 ELSE 0)
BY DEF Place, Subscribed, Below

LEMMA PlaceKept ==
    ASSUME NEW s \in Subscribers, mDeque' = mDeque, mCursorMap'[s] = mCursorMap[s],
           Subscribed(s) /\ ~ Live(s) =>
               ((pc' # "idle" /\ item'.time < mCursorMap[s])
                   <=> (pc # "idle" /\ item.time < mCursorMap[s]))
    PROVE  Place(s)' = Place(s)
BY PlacePrimed DEF Place, Subscribed, Live

LEMMA NumbersUnchanged ==
    ASSUME TypeOK, FreshInv, PastInv,
           Tick \/ (\E p \in Picks : Receive(p)) \/ DateRetention
    PROVE  UNCHANGED Numbers!storeVars
<1>1. mDeque' = mDeque /\ mCursorMap' = mCursorMap
  BY DEF Tick, Receive, DateRetention
<1>2. ASSUME NEW s \in Subscribers PROVE Place(s)' = Place(s)
  <2>1. CASE Tick \/ DateRetention
    <3>1. item' = item /\ (pc' # "idle" <=> pc # "idle")
      BY <2>1 DEF Tick, DateRetention, enqueueVars
    <3>. QED BY <1>1, <3>1, PlaceKept
  <2>2. ASSUME NEW p \in Picks, Receive(p) PROVE Place(s)' = Place(s)
    <3>1. pc = "idle" /\ item'.time = clock
      BY <2>2 DEF Receive
    <3>2. Subscribed(s) /\ ~ Live(s) => mCursorMap[s] <= clock
      BY DEF PastInv
    <3>3. mCursorMap[s] \in Int /\ clock \in Int
      BY Bounds
    <3>4. Subscribed(s) /\ ~ Live(s) => ~ (item'.time < mCursorMap[s])
      BY <3>1, <3>2, <3>3
    <3>. QED BY <1>1, <3>1, <3>4, PlaceKept
  <2>. QED BY <2>1, <2>2
<1>. QED BY <1>1, <1>2 DEF Numbers!storeVars

LEMMA NumbersPurge ==
    ASSUME TypeOK, DequeInv, FreshInv, DequeInv', CleanDeque
    PROVE  \E n \in 0..Len(mDeque) : Renumbered(n)
<1>1. PICK n \in Pops(mDeque, oldest) : mDeque' = PopFront(mDeque, n)
  BY DEF CleanDeque
<1>2. /\ mDeque \in Seq(Item) /\ Sorted(mDeque) /\ Len(mDeque) \in Nat
      /\ n \in 0..Len(mDeque) /\ Sorted(PopFront(mDeque, n))
      /\ Len(mDeque') = Len(mDeque) - n
  <2>1. mDeque \in Seq(Item) /\ Sorted(mDeque) /\ Sorted(mDeque')
    BY DEF TypeOK, DequeInv, DequeSorted, Sorted
  <2>2. n \in 0..Len(mDeque)
    BY <2>1, PopsInRange
  <2>. QED BY <1>1, <2>1, <2>2, PopFrontProperties
<1>3. UNCHANGED <<item, mCursorMap>> /\ pc = "clean" /\ pc' = "insert"
  BY DEF CleanDeque
<1>4. ASSUME NEW s \in Subscribers
      PROVE  Place(s)' = IF Place(s) = NoCursor THEN NoCursor
                         ELSE IF Place(s) < n THEN 0 ELSE Place(s) - n
  <2>. DEFINE l == Len(mDeque)
              b == Cardinality(Below(mDeque, mCursorMap[s]))
              d == Cardinality(Below(mDeque', mCursorMap[s]))
              late == (pc # "idle" /\ item.time < mCursorMap[s])
  <2>1. /\ b \in 0..l /\ l \in Nat /\ late \in BOOLEAN
        /\ late => b = l
        /\ ~ Subscribed(s) => Place(s) = NoCursor
        /\ Subscribed(s) /\ Live(s) => Place(s) = l
        /\ Subscribed(s) /\ ~ Live(s) => Place(s) = b + (IF late THEN 1 ELSE 0)
    BY PlaceIs
  <2>2. d = IF b < n THEN 0 ELSE b - n
    BY <1>1, <1>2, Bounds, ShortenedBelow
  <2>3. Place(s)' = IF ~ Subscribed(s) THEN NoCursor
                    ELSE IF Live(s) THEN l - n
                    ELSE d + (IF late THEN 1 ELSE 0)
    BY <1>2, <1>3, PlacePrimed DEF Subscribed, Live
  <2>. HIDE DEF l, b, d, late
  <2>4. n \in 0..l /\ NoCursor = -1
    BY <1>2 DEF l, NoCursor
  <2>5. CASE ~ Subscribed(s)
    BY <2>1, <2>3, <2>5
  <2>6. CASE Subscribed(s) /\ Live(s)
    BY <2>1, <2>3, <2>4, <2>6
  <2>7. CASE Subscribed(s) /\ ~ Live(s)
    BY <2>1, <2>2, <2>3, <2>4, <2>7
  <2>. QED BY <2>5, <2>6, <2>7
<1>. QED BY <1>2, <1>4 DEF Renumbered

LEMMA NumbersInsert ==
    ASSUME TypeOK, DequeInv, FreshInv, Insert
    PROVE  Numbers!StoreEnqueue
<1>1. /\ mDeque' = Append(mDeque, item) /\ mDeque'[Len(mDeque')] = item
      /\ \A k \in 1..Len(mDeque) : mDeque[k].time < item.time
  <2>1. ASSUME NEW k \in 1..Len(mDeque) PROVE mDeque[k].time < item.time
    <3>1. mDeque[k] \in Range(mDeque)
      BY DEF Range, TypeOK
    <3>2. mDeque[k] \in stored
      BY <3>1 DEF DequeInv, DequeStored
    <3>. QED BY <3>2 DEF FreshInv, Insert
  <2>. QED BY <2>1, InsertAppends
<1>2. /\ mDeque \in Seq(Item) /\ Sorted(mDeque) /\ item \in Item /\ Sorted(mDeque')
      /\ Len(mDeque') = Len(mDeque) + 1
  <2>1. mDeque' \in WithItem
    BY DEF Insert
  <2>. QED BY <1>1, <2>1, WithItemProperties DEF TypeOK, DequeInv, DequeSorted
<1>3. /\ pc = "insert" /\ pc' = "idle" /\ item' = item
      /\ \A r \in Subscribers : mCursorMap'[r] = IF mCursorMap[r] = MaxTime THEN item.time ELSE mCursorMap[r]
  BY <1>1 DEF Insert, FirstCursor
<1>4. ASSUME NEW s \in Subscribers PROVE Place(s)' = Place(s)
  <2>. DEFINE b == Cardinality(Below(mDeque, mCursorMap[s]))
              late == (pc # "idle" /\ item.time < mCursorMap[s])
  <2>1. /\ ~ Subscribed(s) => Place(s) = NoCursor
        /\ Subscribed(s) /\ Live(s) => Place(s) = Len(mDeque)
        /\ Subscribed(s) /\ ~ Live(s) => Place(s) = b + (IF late THEN 1 ELSE 0)
        /\ b \in 0..Len(mDeque)
    BY PlaceIs
  <2>2. /\ item.time # NoCursor /\ item.time # MaxTime /\ MaxTime # NoCursor
        /\ mCursorMap[s] \in Int /\ ClockBound \in Int
    <3>1. item.time \in Time /\ 0 \in Time
      BY StoreAssumption, Bounds DEF TypeOK, Time
    <3>. QED BY <3>1, Bounds DEF NoCursor
  <2>3. /\ Cardinality(Below(mDeque', mCursorMap[s]))
              = b + (IF item.time < mCursorMap[s] THEN 1 ELSE 0)
        /\ Cardinality(Below(mDeque', item.time)) = Len(mDeque)
    BY <1>1, <1>2, <2>2, LengthenedBelow
  <2>4. CASE ~ Subscribed(s)
    BY <1>3, <2>1, <2>2, <2>4, PlacePrimed DEF Subscribed
  <2>5. CASE Subscribed(s) /\ Live(s)
    <3>1. mCursorMap'[s] = item.time
      BY <1>3, <2>5 DEF Live
    <3>2. Place(s)' = Len(mDeque) + 0
      BY <1>3, <2>2, <2>3, <3>1, PlacePrimed
    <3>. QED BY <1>2, <2>1, <2>5, <3>2
  <2>6. CASE Subscribed(s) /\ ~ Live(s)
    <3>1. mCursorMap'[s] = mCursorMap[s] /\ mCursorMap[s] # NoCursor /\ mCursorMap[s] # MaxTime
      BY <1>3, <2>6 DEF Live, Subscribed
    <3>. DEFINE e == Cardinality(Below(mDeque', mCursorMap[s]))
    <3>2. Place(s)' = e + 0
      BY <1>3, <3>1, PlacePrimed
    <3>3. e = Place(s)
      BY <1>3, <2>1, <2>3, <2>6
    <3>4. e \in Int
      BY <1>2, <2>1, <2>3
    <3>. HIDE DEF e
    <3>. QED BY <3>2, <3>3, <3>4
  <2>. QED BY <2>4, <2>5, <2>6
<1>. QED BY <1>2, <1>4 DEF Numbers!StoreEnqueue

LEMMA NumbersSubscription ==
    ASSUME TypeOK, DequeInv, FreshInv, NEW s \in Subscribers
    PROVE  /\ Subscribe(s) => \E from \in Numbers!LiveStarts : Numbers!StoreSubscribe(s, from)
           /\ \A t \in Time : SubscribeSince(s, t) =>
                 \E from \in Numbers!BackfillStarts : Numbers!StoreSubscribe(s, from)
           /\ Unsubscribe(s) => Numbers!StoreUnsubscribe(s)
<1>1. /\ MaxTime # NoCursor /\ \A t \in Time : t \in Int /\ t # NoCursor /\ t # MaxTime
      /\ ClockBound \in Int
  BY Bounds DEF NoCursor
<1>2. mDeque \in Seq(Item) /\ Sorted(mDeque) /\ Len(mDeque) \in Nat
  BY DEF TypeOK, DequeInv, DequeSorted
<1>3. ASSUME NEW c, NEW t, NEW b, SetCursor(s, c, t, b)
      PROVE  /\ mDeque' = mDeque /\ pc' = pc /\ item' = item /\ mCursorMap'[s] = c
             /\ [r \in Subscribers |-> Place(r)]'
                   = [[r \in Subscribers |-> Place(r)] EXCEPT ![s] = Place(s)']
  <2>1. /\ mDeque' = mDeque /\ pc' = pc /\ item' = item /\ mCursorMap'[s] = c
        /\ \A r \in Subscribers \ {s} : mCursorMap'[r] = mCursorMap[r]
    BY <1>3 DEF SetCursor, TypeOK, enqueueVars
  <2>2. \A r \in Subscribers \ {s} : Place(r)' = Place(r)
    BY <2>1, PlaceKept
  <2>. QED BY <2>1, <2>2
<1>4. ASSUME Subscribe(s)
      PROVE  \E from \in Numbers!LiveStarts : Numbers!StoreSubscribe(s, from)
  <2>1. mDeque' = mDeque /\ mCursorMap'[s] = MaxTime
    BY <1>3, <1>4 DEF Subscribe
  <2>2. Place(s)' = Len(mDeque)
    BY <1>1, <2>1, PlacePrimed
  <2>. QED BY <1>3, <1>4, <2>2 DEF Subscribe, Numbers!LiveStarts, Numbers!StoreSubscribe
<1>5. ASSUME NEW t \in Time, SubscribeSince(s, t)
      PROVE  \E from \in Numbers!BackfillStarts : Numbers!StoreSubscribe(s, from)
  <2>. DEFINE b == Cardinality(Below(mDeque, t))
              k == IF pc # "idle" /\ item.time < t THEN 1 ELSE 0
  <2>0. mDeque' = mDeque /\ pc' = pc /\ item' = item /\ mCursorMap'[s] = t
    BY <1>3, <1>5 DEF SubscribeSince
  <2>1. Place(s)' = b + k
    BY <1>1, <2>0, PlacePrimed
  <2>2. b \in 0..Len(mDeque) /\ k \in {0, 1}
    BY <1>1, <1>2, AheadLength
  <2>. HIDE DEF b, k
  <2>3. Place(s)' \in 0..(Len(mDeque) + 1)
    BY <1>2, <2>1, <2>2
  <2>. QED BY <1>3, <1>5, <2>3 DEF SubscribeSince, Numbers!BackfillStarts, Numbers!StoreSubscribe
<1>6. ASSUME Unsubscribe(s) PROVE Numbers!StoreUnsubscribe(s)
  <2>1. mCursorMap'[s] = NoCursor
    BY <1>3, <1>6 DEF Unsubscribe
  <2>2. Place(s)' = NoCursor
    BY <2>1, PlacePrimed
  <2>. QED BY <1>3, <1>6, <2>2
           DEF Unsubscribe, NoCursor, Numbers!NotSubscribed, Numbers!StoreUnsubscribe
<1>. QED BY <1>4, <1>5, <1>6

LEMMA LesserOfTwo ==
    ASSUME NEW a \in Int, NEW b \in Int
    PROVE  Numbers!Min({a, b}) = IF a <= b THEN a ELSE b
<1>. DEFINE m == IF a <= b THEN a ELSE b
<1>1. m \in {a, b} /\ \A y \in {a, b} : m <= y
  OBVIOUS
<1>2. \A x \in {a, b} : (\A y \in {a, b} : x <= y) => x = m
  OBVIOUS
<1>. HIDE DEF m
<1>3. Numbers!Min({a, b}) = m
  BY <1>1, <1>2 DEF Numbers!Min
<1>. QED BY <1>3 DEF m

LEMMA NumbersGet ==
    ASSUME TypeOK, DequeInv, FreshInv, NEW s \in Subscribers, GetPicks(s)
    PROVE  /\ Numbers!StoreGetPicks(s)
           /\ delivered' = [delivered EXCEPT ![s] =
                @ \o [i \in DOMAIN Numbers!NewPicks(s) |-> mDeque[Numbers!NewPicks(s)[i]]]]
<1>. DEFINE L == Len(mDeque)
            most == MaximumNumberOfPicks
            cursor == mCursorMap[s]
<1>1. /\ mDeque \in Seq(Item) /\ Sorted(mDeque) /\ L \in Nat /\ DOMAIN mDeque = 1..L
      /\ cursor \in Int /\ ClockBound \in Int /\ MaxTime \in Int /\ most \in Nat \ {0}
      /\ Subscribed(s) /\ mDeque' = mDeque /\ pc' = pc /\ item' = item
  BY Bounds, StoreAssumption DEF TypeOK, DequeInv, DequeSorted, GetPicks, enqueueVars
<1>2. PICK c \in 0..L, n \in 1..most :
              /\ c + n <= L
              /\ c + n = L \/ n = most
              /\ Ahead(mDeque, cursor) = PopFront(mDeque, c)
              /\ delivered' = [delivered EXCEPT ![s] = @ \o [k \in 1..n |-> mDeque[c + k]]]
              /\ mDeque[c + n] \in Item
              /\ mCursorMap' = [mCursorMap EXCEPT ![s] = mDeque[c + n].time + 1]
              /\ Ahead(mDeque, mDeque[c + n].time + 1) = PopFront(mDeque, c + n)
  BY BatchTaken
<1>. DEFINE t == mDeque[c + n].time
<1>3. /\ t \in Time /\ t \in Int /\ t + 1 # NoCursor /\ t + 1 # MaxTime
      /\ pc # "idle" => ~ (item.time < t + 1)
  <2>1. t \in Time /\ t \in Int
    BY <1>2, Bounds
  <2>2. t + 1 # NoCursor /\ t + 1 # MaxTime
    <3>1. t \in 0..ClockBound /\ MaxTime > ClockBound + 1
      BY <2>1, StoreAssumption DEF Time
    <3>. HIDE DEF t
    <3>. QED BY <1>1, <3>1 DEF NoCursor
  <2>3. mDeque[c + n] \in stored
    <3>1. c + n \in DOMAIN mDeque
      <4>1. c \in 0..L /\ n \in 1..most /\ c + n <= L
        BY <1>2
      <4>. HIDE DEF L, most
      <4>. QED BY <1>1, <4>1
    <3>. QED BY <3>1 DEF DequeInv, DequeStored, Range
  <2>4. pc # "idle" => t < item.time
    BY <2>3 DEF FreshInv
  <2>5. item.time \in Int
    BY TimesAreInts DEF TypeOK
  <2>. HIDE DEF t
  <2>6. pc # "idle" => ~ (item.time < t + 1)
    BY <2>1, <2>4, <2>5
  <2>. QED BY <2>1, <2>2, <2>6
<1>. DEFINE b == Cardinality(Below(mDeque, cursor))
            d == Cardinality(Below(mDeque, t + 1))
<1>4. b = c /\ d = c + n
  <2>1. /\ b \in 0..L /\ Len(Ahead(mDeque, cursor)) = L - b
        /\ d \in 0..L /\ Len(Ahead(mDeque, t + 1)) = L - d
    <3>1. t + 1 \in Int
      BY <1>3
    <3>. HIDE DEF t
    <3>. QED BY <1>1, <3>1, AheadLength
  <2>2. c + n \in 0..L
    <3>1. c \in 0..L /\ n \in 1..most /\ c + n <= L
      BY <1>2
    <3>. HIDE DEF L, most
    <3>. QED BY <1>1, <3>1
  <2>3. Len(Ahead(mDeque, cursor)) = L - c
    BY <1>1, <1>2, PopFrontProperties
  <2>4. Len(Ahead(mDeque, t + 1)) = L - (c + n)
    BY <1>1, <1>2, <2>2, PopFrontProperties
  <2>. DEFINE x == Len(Ahead(mDeque, cursor))
              y == Len(Ahead(mDeque, t + 1))
  <2>5. /\ x = L - b /\ x = L - c /\ y = L - d /\ y = L - (c + n)
        /\ b \in 0..L /\ d \in 0..L /\ c \in 0..L /\ c + n \in 0..L /\ L \in Nat
    BY <1>1, <2>1, <2>2, <2>3, <2>4
  <2>. HIDE DEF x, y, b, d, L
  <2>. QED BY <2>5
<1>. HIDE DEF L, most
<1>5. c \in Nat /\ n \in Nat /\ c < L /\ c + n <= L /\ c + n # L + 1
  BY <1>1, <1>2
<1>6. ~ Live(s) /\ Place(s) = c
  <2>. DEFINE late == (pc # "idle" /\ item.time < cursor)
  <2>1. /\ late => b = L
        /\ Live(s) => b = L
        /\ ~ Live(s) => Place(s) = b + (IF late THEN 1 ELSE 0)
    BY <1>1, PlaceIs DEF L
  <2>. HIDE DEF late, b
  <2>2. b = c /\ b # L
    BY <1>4, <1>5
  <2>. QED BY <1>5, <2>1, <2>2
<1>7. Place(s)' = c + n
  <2>1. mCursorMap'[s] = t + 1
    BY <1>2 DEF TypeOK
  <2>2. Place(s)' = d + 0
    <3>1. /\ t + 1 # NoCursor /\ t + 1 # MaxTime
          /\ ~ (pc' # "idle" /\ item'.time < t + 1)
      BY <1>1, <1>3
    <3>. HIDE DEF t
    <3>. QED BY <1>1, <2>1, <3>1, PlacePrimed
  <2>. HIDE DEF d
  <2>. QED BY <1>4, <1>5, <2>2
<1>. HIDE DEF b, d, t
<1>8. Numbers!Min({L, c + most}) = c + n
  <2>1. Numbers!Min({L, c + most}) = IF L <= c + most THEN L ELSE c + most
    BY <1>1, <1>5, LesserOfTwo
  <2>. QED BY <1>1, <1>2, <1>5, <2>1
<1>9. ASSUME NEW r \in Subscribers \ {s} PROVE Place(r)' = Place(r)
  <2>1. mCursorMap'[r] = mCursorMap[r]
    BY <1>2 DEF TypeOK
  <2>. QED BY <1>1, <2>1, PlaceKept
<1>10. Numbers!StoreGetPicks(s)
  <2>1. Place(s) # -1
    BY <1>5, <1>6
  <2>. DEFINE cursors == [r \in Subscribers |-> Place(r)]
  <2>2. cursors[s] = c
    BY <1>6
  <2>3. s \in Numbers!Subscribed
    BY <1>6, <2>1 DEF Numbers!Subscribed, Numbers!NotSubscribed
  <2>4. Numbers!LastGot(s) = c + n
    BY <1>8, <2>2 DEF Numbers!LastGot, L, most
  <2>5. cursors' = [cursors EXCEPT ![s] = c + n]
    BY <1>7, <1>9
  <2>. QED BY <1>1, <1>5, <1>6, <2>3, <2>4, <2>5 DEF Numbers!StoreGetPicks, L
<1>11. delivered' = [delivered EXCEPT ![s] =
                @ \o [i \in DOMAIN Numbers!NewPicks(s) |-> mDeque[Numbers!NewPicks(s)[i]]]]
  <2>1. Numbers!NewPicks(s) = [i \in 1..n |-> c + i]
    <3>1. Numbers!NewPicks(s) = [i \in 1..(Numbers!Min({L, c + most}) - c) |-> c + i]
      BY <1>6 DEF Numbers!NewPicks, L, most
    <3>2. (c + n) - c = n
      BY <1>5
    <3>. QED BY <1>8, <3>1, <3>2
  <2>2. [i \in DOMAIN Numbers!NewPicks(s) |-> mDeque[Numbers!NewPicks(s)[i]]]
          = [k \in 1..n |-> mDeque[c + k]]
    BY <2>1
  <2>. QED BY <1>2, <2>2
<1>. QED BY <1>10, <1>11

LEMMA Readable ==
    ASSUME TypeOK, DequeInv, FreshInv
    PROVE  ReadableByNumber
<1>. SUFFICES ASSUME NEW s \in Subscribers
              PROVE  Subscribed(s) /\ Scanned(s) # {}
                        <=> Place(s) # NoCursor /\ Place(s) < Len(mDeque)
  BY DEF ReadableByNumber
<1>. DEFINE L == Len(mDeque)
            b == Cardinality(Below(mDeque, mCursorMap[s]))
            late == (pc # "idle" /\ item.time < mCursorMap[s])
<1>1. /\ mDeque \in Seq(Item) /\ Sorted(mDeque) /\ DOMAIN mDeque = 1..L
      /\ mCursorMap[s] \in Int /\ ClockBound \in Int
  BY Bounds DEF TypeOK, DequeInv, DequeSorted
<1>2. /\ b \in 0..L /\ L \in Nat /\ late \in BOOLEAN
      /\ late => b = L
      /\ ~ Subscribed(s) => Place(s) = NoCursor
      /\ Subscribed(s) /\ Live(s) => Place(s) = L /\ b = L
      /\ Subscribed(s) /\ ~ Live(s) => Place(s) = b + (IF late THEN 1 ELSE 0)
  BY PlaceIs
<1>3. Scanned(s) = { k \in (b + 1)..L : k - b <= MaximumNumberOfPicks }
  <2>1. Below(mDeque, mCursorMap[s]) = 1..b
    BY <1>1, BelowIsPrefix
  <2>. HIDE DEF b
  <2>2. \A k \in 1..b : mDeque[k].time < mCursorMap[s]
    BY <2>1 DEF Below
  <2>3. ASSUME NEW k \in (b + 1)..L PROVE mDeque[k].time >= mCursorMap[s]
    <3>1. k \in DOMAIN mDeque /\ k \notin 1..b
      <4>. HIDE DEF L
      <4>. QED BY <1>1, <1>2
    <3>2. ~ (mDeque[k].time < mCursorMap[s]) /\ mDeque[k] \in Item
      BY <1>1, <2>1, <3>1 DEF Below
    <3>3. mDeque[k].time \in Int
      BY <3>2, TimesAreInts
    <3>. QED BY <1>1, <3>2, <3>3
  <2>. QED BY <1>2, <2>2, <2>3, ScannedPlaces
<1>. HIDE DEF L, b, late
<1>4. Scanned(s) # {} <=> b < L
  <2>1. ASSUME b < L PROVE b + 1 \in Scanned(s)
    BY <1>2, <1>3, <2>1, StoreAssumption
  <2>2. ASSUME NEW k \in Scanned(s) PROVE b < L
    BY <1>2, <1>3
  <2>. QED BY <2>1, <2>2
<1>5. CASE ~ Subscribed(s)
  BY <1>2, <1>5
<1>6. CASE Subscribed(s) /\ Live(s)
  BY <1>2, <1>4, <1>6 DEF L
<1>7. CASE Subscribed(s) /\ ~ Live(s)
  <2>1. Place(s) = b + (IF late THEN 1 ELSE 0) /\ NoCursor = -1
    BY <1>2, <1>7 DEF NoCursor
  <2>2. Scanned(s) # {} <=> Place(s) # NoCursor /\ Place(s) < L
    BY <1>2, <1>4, <2>1
  <2>. QED BY <1>7, <2>2 DEF L
<1>. QED BY <1>5, <1>6, <1>7

LEMMA NumbersNext ==
    ASSUME Forward, NumbersInv, [Next]_vars
    PROVE  NumbersStep
<1>1. TypeOK /\ DequeInv /\ FreshInv /\ PastInv
  BY DEF NumbersInv, StreamInv
<1>2. DequeInv'
  BY <1>1, DequeNext
<1>3. Tick \/ (\E p \in Picks : Receive(p)) \/ DateRetention => UNCHANGED Numbers!storeVars
  BY <1>1, NumbersUnchanged
<1>4. CleanDeque => \E n \in 0..Len(mDeque) : Renumbered(n)
  BY <1>1, <1>2, NumbersPurge
<1>5. Insert => Numbers!StoreEnqueue
  BY <1>1, NumbersInsert
<1>6. ASSUME NEW s \in Subscribers
      PROVE  /\ Subscribe(s) => \E from \in Numbers!LiveStarts : Numbers!StoreSubscribe(s, from)
             /\ \A startTime \in Time : SubscribeSince(s, startTime) =>
                   \E from \in Numbers!BackfillStarts : Numbers!StoreSubscribe(s, from)
             /\ Unsubscribe(s) => Numbers!StoreUnsubscribe(s)
  BY <1>1, NumbersSubscription
<1>7. ASSUME NEW s \in Subscribers
      PROVE  GetPicks(s) =>
               /\ Numbers!StoreGetPicks(s)
               /\ delivered' = [delivered EXCEPT ![s] =
                     @ \o [i \in DOMAIN Numbers!NewPicks(s) |-> mDeque[Numbers!NewPicks(s)[i]]]]
  BY <1>1, NumbersGet
<1>. QED BY <1>3, <1>4, <1>5, <1>6, <1>7 DEF NumbersStep

\* The store as the subscribe service's writers see it: between two purges the deque
\* with its cursors does what PickBacklog does with numbers, step for step (getPicks
\* hands out the picks of those numbers, and has some exactly if the number of the
\* last pick got is short of the last), and a purge numbers what is left anew.  This
\* is why SubscribeService may have PickBacklog in the store's stead.
THEOREM StoreIsBacklog ==
    ASSUME Forward
    PROVE  Spec => [](ReadableByNumber /\ Numbers!Subscribed = { s \in Subscribers : Subscribed(s) })
                     /\ [][NumbersStep]_vars
<1>1. Init => NumbersInv
  <2>1. Init => StreamInv
    BY StreamInit
  <2>2. Init => PastInv
    BY DEF Init, PastInv, Subscribed
  <2>. QED BY <2>1, <2>2 DEF NumbersInv
<1>2. NumbersInv /\ [Next]_vars => NumbersInv'
  BY StreamNext, PastNext DEF NumbersInv
<1>3. NumbersInv => ReadableByNumber /\ Numbers!Subscribed = { s \in Subscribers : Subscribed(s) }
  <2>. SUFFICES ASSUME NumbersInv
                PROVE  ReadableByNumber /\ Numbers!Subscribed = { s \in Subscribers : Subscribed(s) }
    OBVIOUS
  <2>1. TypeOK /\ DequeInv /\ FreshInv
    BY DEF NumbersInv, StreamInv
  <2>2. ASSUME NEW s \in Subscribers PROVE Place(s) # -1 <=> Subscribed(s)
    <3>. DEFINE b == Cardinality(Below(mDeque, mCursorMap[s]))
                late == (pc # "idle" /\ item.time < mCursorMap[s])
    <3>1. /\ b \in 0..Len(mDeque) /\ Len(mDeque) \in Nat /\ late \in BOOLEAN
          /\ ~ Subscribed(s) => Place(s) = NoCursor
          /\ Subscribed(s) /\ Live(s) => Place(s) = Len(mDeque)
          /\ Subscribed(s) /\ ~ Live(s) => Place(s) = b + (IF late THEN 1 ELSE 0)
      BY <2>1, PlaceIs
    <3>. HIDE DEF b, late
    <3>2. CASE ~ Subscribed(s)
      BY <3>1, <3>2 DEF NoCursor
    <3>3. CASE Subscribed(s) /\ Live(s)
      BY <3>1, <3>3
    <3>4. CASE Subscribed(s) /\ ~ Live(s)
      BY <3>1, <3>4
    <3>. QED BY <3>2, <3>3, <3>4
  <2>3. Numbers!Subscribed = { s \in Subscribers : Subscribed(s) }
    BY <2>2 DEF Numbers!Subscribed, Numbers!NotSubscribed
  <2>. QED BY <2>1, <2>3, Readable
<1>4. NumbersInv /\ [Next]_vars => NumbersStep
  BY NumbersNext
<1>. QED BY <1>1, <1>2, <1>3, <1>4, PTL DEF Spec
=============================================================================
