-------------------------- MODULE SubscriptionProofs ------------------------
(***************************************************************************)
(* Theorems about PickStore: what the deque spends on expired picks, and   *)
(* what a subscription is sent, for every value of its constants.          *)
(***************************************************************************)
EXTENDS PickStoreProofs

-----------------------------------------------------------------------------
(* ExpiredPicksBounded: a cleaning leaves a deque that is short or young.  *)

Expired(q) == { k \in DOMAIN q : q[k].time < oldest }

Room == IF MaxQueueCapacity \div 2 > 1 THEN MaxQueueCapacity \div 2 ELSE 1

\* After a cleaning the insertion that follows is left a place.
ExpiredInv ==
    /\ pc \in {"idle", "date"} => Cardinality(Expired(mDeque)) <= Room
    /\ pc = "insert" => Cardinality(Expired(mDeque)) <= Room - 1

LEMMA HalfIsNat == MaxQueueCapacity \div 2 \in Nat /\ Room \in Nat \ {0}
BY StoreAssumption DEF Room

LEMMA ExpiredFinite ==
    ASSUME NEW q \in Seq(Item)
    PROVE  /\ IsFiniteSet(Expired(q))
           /\ Cardinality(Expired(q)) \in Nat
           /\ Cardinality(Expired(q)) <= Len(q)
<1>1. /\ Len(q) \in Nat /\ DOMAIN q = 1..Len(q)
      /\ IsFiniteSet(1..Len(q)) /\ Cardinality(1..Len(q)) = Len(q)
  <2>1. Len(q) \in Nat /\ DOMAIN q = 1..Len(q)
    OBVIOUS
  <2>2. IsFiniteSet(1..Len(q)) /\ Cardinality(1..Len(q)) = Len(q)
    BY <2>1, FS_Interval
  <2>. QED BY <2>1, <2>2
<1>2. Expired(q) \in SUBSET (1..Len(q))
  BY <1>1 DEF Expired
<1>3. IsFiniteSet(Expired(q)) /\ Cardinality(Expired(q)) <= Cardinality(1..Len(q))
  BY <1>1, <1>2, FS_Subset
<1>. QED BY <1>1, <1>3, FS_CardinalityType

\* Of a sorted deque all the leading old picks are popped, or it is less than half
\* full.
LEMMA CleanedDeque ==
    ASSUME oldest \in Int, NEW q \in Seq(Item), Sorted(q), NEW n \in Pops(q, oldest)
    PROVE  Cardinality(Expired(PopFront(q, n))) <= Room - 1
<1>. DEFINE r == PopFront(q, n)
<1>1. n \in 0..Len(q)
  BY PopsInRange
<1>2. /\ r \in Seq(Item) /\ Len(r) = Len(q) - n
      /\ \A k \in 1..(Len(q) - n) : r[k] = q[n + k]
  BY <1>1, PopFrontProperties
<1>. HIDE DEF r
<1>3. CASE Len(q) < MaxQueueCapacity \div 2
  <2>1. n = 0
    BY <1>3 DEF Pops
  <2>2. Cardinality(Expired(r)) \in Nat /\ Cardinality(Expired(r)) <= Len(q)
    BY <1>2, <2>1, ExpiredFinite
  <2>. DEFINE half == MaxQueueCapacity \div 2
  <2>3. half \in Nat /\ (half > 0 => half <= Room) /\ Room \in Nat
    BY HalfIsNat DEF Room
  <2>4. Len(q) < half /\ Len(q) \in Nat
    BY <1>3
  <2>. HIDE DEF half
  <2>5. Cardinality(Expired(r)) <= Room - 1
    BY <2>2, <2>3, <2>4
  <2>. QED BY <2>5 DEF r
<1>4. CASE ~ (Len(q) < MaxQueueCapacity \div 2)
  <2>1. n < Len(q) => q[n + 1].time >= oldest
    BY <1>1, <1>4 DEF Pops
  <2>2. ASSUME NEW k \in DOMAIN r PROVE ~ (r[k].time < oldest)
    <3>1. k \in 1..(Len(q) - n) /\ r[k] = q[n + k]
      BY <1>1, <1>2, <2>2
    <3>2. n + 1 \in DOMAIN q /\ n + k \in DOMAIN q /\ n < Len(q)
      BY <1>1, <3>1
    <3>3. n + 1 < n + k => q[n + 1].time <= q[n + k].time
      BY <3>2 DEF Sorted
    <3>4. n + 1 = n + k \/ n + 1 < n + k
      BY <1>1, <3>1
    <3>5. q[n + 1] \in Item /\ q[n + k] \in Item
      BY <3>2
    <3>6. q[n + 1].time \in Int /\ q[n + k].time \in Int
      BY <3>5 DEF Item, Time
    <3>7. q[n + k].time >= oldest
      <4>. DEFINE a == q[n + 1].time
                  b == q[n + k].time
      <4>1. a \in Int /\ b \in Int /\ a >= oldest
        BY <2>1, <3>2, <3>6
      <4>2. a = b \/ a <= b
        BY <3>3, <3>4
      <4>. HIDE DEF a, b
      <4>3. b >= oldest
        BY <4>1, <4>2
      <4>. QED BY <4>3 DEF b
    <3>. QED BY <3>1, <3>6, <3>7
  <2>3. Expired(r) = {}
    BY <2>2 DEF Expired
  <2>4. Cardinality(Expired(r)) = 0
    BY <2>3, FS_EmptySet
  <2>. QED BY <2>4, HalfIsNat DEF r
<1>. QED BY <1>3, <1>4

\* The deque holds no item twice: its places and its items are as many.
LEMMA ExpiredItems ==
    ASSUME NEW q \in Seq(Item), IsInjective(q)
    PROVE  LET E == { i \in Range(q) : i.time < oldest }
           IN  IsFiniteSet(E) /\ Cardinality(E) = Cardinality(Expired(q))
<1>. DEFINE E == { i \in Range(q) : i.time < oldest }
            f == [k \in Expired(q) |-> q[k]]
<1>1. f \in Bijection(Expired(q), E)
  <2>1. f \in [Expired(q) -> E]
    BY DEF Expired, Range
  <2>2. \A j, k \in Expired(q) : f[j] = f[k] => j = k
    BY DEF Expired, IsInjective
  <2>3. \A i \in E : \E k \in Expired(q) : f[k] = i
    BY DEF Expired, Range
  <2>. HIDE DEF f, E
  <2>4. f \in Injection(Expired(q), E)
    BY <2>1, <2>2 DEF Injection, IsInjective
  <2>5. f \in Surjection(Expired(q), E)
    BY <2>1, <2>3 DEF Surjection
  <2>. QED BY <2>4, <2>5 DEF Bijection
<1>2. IsFiniteSet(Expired(q))
  BY ExpiredFinite
<1>3. ExistsBijection(Expired(q), E)
  BY <1>1 DEF ExistsBijection
<1>. HIDE DEF E, f
<1>4. IsFiniteSet(E) /\ Cardinality(E) = Cardinality(Expired(q))
  BY <1>2, <1>3, FS_Bijection
<1>. QED BY <1>4 DEF E

LEMMA InsertedExpired ==
    ASSUME NEW q \in Seq(Item), IsInjective(q), NEW r \in Seq(Item), IsInjective(r),
           NEW i \in Item, Range(r) = Range(q) \cup {i}, oldest \in Int
    PROVE  Cardinality(Expired(r)) <= Cardinality(Expired(q)) + 1
<1>. DEFINE E == { j \in Range(q) : j.time < oldest }
            D == { j \in Range(r) : j.time < oldest }
<1>1. IsFiniteSet(E) /\ Cardinality(E) = Cardinality(Expired(q))
  BY ExpiredItems
<1>2. IsFiniteSet(D) /\ Cardinality(D) = Cardinality(Expired(r))
  BY ExpiredItems
<1>3. D \in SUBSET (E \cup {i})
  OBVIOUS
<1>. HIDE DEF E, D
<1>4. /\ IsFiniteSet(E \cup {i})
      /\ Cardinality(E \cup {i}) = IF i \in E THEN Cardinality(E) ELSE Cardinality(E) + 1
  BY <1>1, FS_AddElement
<1>5. Cardinality(D) <= Cardinality(E \cup {i})
  BY <1>3, <1>4, FS_Subset
<1>6. Cardinality(E) \in Nat /\ Cardinality(D) \in Nat
  BY <1>1, <1>2, FS_CardinalityType
<1>7. Cardinality(D) <= Cardinality(E) + 1
  <2>. DEFINE c == Cardinality(E)
              d == Cardinality(D)
              b == Cardinality(E \cup {i})
  <2>1. c \in Nat /\ d \in Nat /\ d <= b /\ (b = c \/ b = c + 1)
    BY <1>4, <1>5, <1>6
  <2>. HIDE DEF b, c, d
  <2>2. d <= c + 1
    BY <2>1
  <2>. QED BY <2>2 DEF c, d
<1>. QED BY <1>1, <1>2, <1>7

LEMMA ExpiredInit == ASSUME Init PROVE ExpiredInv
<1>1. PICK loaded \in Backfills : \E q \in Sortings(loaded) : \E n \in Pops(q, oldest) :
          mDeque = PopFront(q, n)
  BY DEF Init
<1>2. PICK q \in Sortings(loaded) : \E n \in Pops(q, oldest) : mDeque = PopFront(q, n)
  BY <1>1
<1>3. PICK n \in Pops(q, oldest) : mDeque = PopFront(q, n)
  BY <1>2
<1>4. q \in Seq(Item) /\ Sorted(q)
  BY BackfillAssumption, SortingsProperties
<1>5. oldest \in Int
  BY TypeInit DEF TypeOK
<1>6. mDeque \in Seq(Item)
  BY TypeInit DEF TypeOK
<1>7. Cardinality(Expired(mDeque)) <= Room - 1 /\ Cardinality(Expired(mDeque)) \in Nat
  BY <1>3, <1>4, <1>5, <1>6, CleanedDeque, ExpiredFinite
<1>8. Cardinality(Expired(mDeque)) <= Room
  <2>. DEFINE c == Cardinality(Expired(mDeque))
  <2>1. c \in Nat /\ c <= Room - 1 /\ Room \in Nat
    BY <1>7, HalfIsNat
  <2>. HIDE DEF c
  <2>2. c <= Room
    BY <2>1
  <2>. QED BY <2>2 DEF c
<1>. QED BY <1>8 DEF Init, ExpiredInv

LEMMA ExpiredKept ==
    ASSUME ExpiredInv, UNCHANGED <<oldest, mDeque>>,
           pc' \in {"idle", "date"} => pc \in {"idle", "date"},
           pc' = "insert" => pc = "insert"
    PROVE  ExpiredInv'
<1>1. Expired(mDeque)' = Expired(mDeque)
  BY DEF Expired
<1>. QED BY <1>1 DEF ExpiredInv

LEMMA ExpiredNext == TypeOK /\ DequeInv /\ ExpiredInv /\ [Next]_vars => ExpiredInv'
<1>. SUFFICES ASSUME TypeOK, DequeInv, ExpiredInv, [Next]_vars PROVE ExpiredInv'
  OBVIOUS
<1>1. CASE Tick \/ StepBack
  BY <1>1, ExpiredKept DEF Tick, StepBack, enqueueVars
<1>2. ASSUME NEW p \in Picks, Receive(p) PROVE ExpiredInv'
  BY <1>2, ExpiredKept DEF Receive
<1>3. CASE DateRetention
  BY <1>3 DEF DateRetention, ExpiredInv
<1>4. CASE CleanDeque
  <2>1. PICK n \in Pops(mDeque, oldest) : mDeque' = PopFront(mDeque, n)
    BY <1>4 DEF CleanDeque
  <2>2. oldest' = oldest /\ pc' = "insert"
    BY <1>4 DEF CleanDeque
  <2>3. Cardinality(Expired(mDeque')) <= Room - 1
    BY <2>1, CleanedDeque DEF TypeOK, DequeInv, DequeSorted
  <2>4. Expired(mDeque)' = Expired(mDeque')
    BY <2>2 DEF Expired
  <2>. QED BY <2>2, <2>3, <2>4 DEF ExpiredInv
<1>5. CASE Insert
  <2>1. oldest' = oldest /\ pc = "insert" /\ pc' = "idle" /\ mDeque' \in WithItem
    BY <1>5 DEF Insert
  <2>2. item \notin Range(mDeque)
    BY <2>1 DEF DequeInv, DequeStored, ItemInFlightIsNew
  <2>3. /\ mDeque' \in Seq(Item) /\ IsInjective(mDeque')
        /\ Range(mDeque') = Range(mDeque) \cup {item}
    BY <2>1, <2>2, WithItemProperties DEF TypeOK, DequeInv
  <2>4. Cardinality(Expired(mDeque')) <= Cardinality(Expired(mDeque)) + 1
    BY <2>3, InsertedExpired DEF TypeOK, DequeInv
  <2>5. Cardinality(Expired(mDeque)) <= Room - 1
    BY <2>1 DEF ExpiredInv
  <2>6. Cardinality(Expired(mDeque)) \in Nat /\ Cardinality(Expired(mDeque')) \in Nat
    BY <2>3, ExpiredFinite DEF TypeOK
  <2>7. Cardinality(Expired(mDeque')) <= Room
    <3>. DEFINE c == Cardinality(Expired(mDeque))
                d == Cardinality(Expired(mDeque'))
    <3>1. c \in Nat /\ d \in Nat /\ d <= c + 1 /\ c <= Room - 1 /\ Room \in Nat
      BY <2>4, <2>5, <2>6, HalfIsNat
    <3>. HIDE DEF c, d
    <3>2. d <= Room
      BY <3>1
    <3>. QED BY <3>2 DEF d
  <2>8. Expired(mDeque)' = Expired(mDeque')
    BY <2>1 DEF Expired
  <2>. QED BY <2>1, <2>7, <2>8 DEF ExpiredInv
<1>6. ASSUME NEW s \in Subscribers, NEW c, NEW t, NEW b, SetCursor(s, c, t, b) PROVE ExpiredInv'
  BY <1>6, ExpiredKept DEF SetCursor, enqueueVars
<1>7. ASSUME NEW s \in Subscribers, GetPicks(s) PROVE ExpiredInv'
  BY <1>7, ExpiredKept DEF GetPicks, enqueueVars
<1>8. CASE UNCHANGED vars
  BY <1>8, ExpiredKept DEF vars, enqueueVars
<1>. QED BY <1>1, <1>2, <1>3, <1>4, <1>5, <1>6, <1>7, <1>8
         DEF Next, Subscribe, SubscribeSince, Unsubscribe

\* cleanDeque leaves the store young or less than half full: under any clock, what
\* had expired by then is never more than half the capacity.
THEOREM ExpiredAreFew == Spec => []ExpiredPicksBounded
<1>1. Init => TypeOK /\ DequeInv /\ ExpiredInv
  BY TypeInit, DequeInit, ExpiredInit
<1>2. TypeOK /\ DequeInv /\ ExpiredInv /\ [Next]_vars => (TypeOK /\ DequeInv /\ ExpiredInv)'
  BY TypeNext, DequeNext, ExpiredNext
<1>3. TypeOK /\ ExpiredInv => ExpiredPicksBounded
  <2>. SUFFICES ASSUME TypeOK, ExpiredInv, pc # "clean"
                PROVE  Cardinality(Expired(mDeque)) <= Room
    BY DEF ExpiredPicksBounded, Expired, Room
  <2>1. CASE pc = "insert"
    <3>. DEFINE c == Cardinality(Expired(mDeque))
    <3>1. c \in Nat /\ c <= Room - 1 /\ Room \in Nat
      BY <2>1, ExpiredFinite, HalfIsNat DEF ExpiredInv, TypeOK
    <3>. HIDE DEF c
    <3>2. c <= Room
      BY <3>1
    <3>. QED BY <3>2 DEF c
  <2>. QED BY <2>1 DEF TypeOK, ExpiredInv
<1>. QED BY <1>1, <1>2, <1>3, PTL DEF Spec

-----------------------------------------------------------------------------
(* A clock that moves forward, and an insertion into the database that     *)
(* takes a tick of it: no two picks have the same receipt time.            *)

Forward ==
    /\ MaxStepBack = 0 /\ MinInsertTicks > 0
    /\ \A loaded \in Backfills : \A j, k \in DOMAIN loaded :
          /\ loaded[j].time < StartTime
          /\ loaded[j].time = loaded[k].time => j = k

FreshInv ==
    /\ \A i \in stored : i.time < clock
    /\ \A i, j \in stored : i.time = j.time => i = j
    /\ pc # "idle" => item.time < clock /\ \A i \in stored : i.time < item.time

LEMMA TimesAreInts == ASSUME TypeOK
                      PROVE  /\ \A i \in Item : i.time \in Int
                             /\ clock \in Int /\ ClockBound \in Int /\ MaxHistory \in Int
BY StoreAssumption DEF TypeOK, Item, Time

LEMMA FreshInit == ASSUME Forward, Init PROVE FreshInv
<1>1. PICK loaded \in Backfills : stored = Range(loaded)
  BY DEF Init
<1>2. loaded \in Seq(Item)
  BY BackfillAssumption
<1>3. \A i \in stored : i.time < clock
  BY <1>1, <1>2 DEF Forward, Range, Init
<1>4. ASSUME NEW i \in stored, NEW j \in stored, i.time = j.time PROVE i = j
  <2>1. PICK m \in DOMAIN loaded : loaded[m] = i
    BY <1>1 DEF Range
  <2>2. PICK n \in DOMAIN loaded : loaded[n] = j
    BY <1>1 DEF Range
  <2>. QED BY <1>4, <2>1, <2>2 DEF Forward
<1>. QED BY <1>3, <1>4 DEF Init, FreshInv

LEMMA FreshNext == ASSUME Forward PROVE TypeOK /\ FreshInv /\ [Next]_vars => FreshInv'
<1>. SUFFICES ASSUME TypeOK, FreshInv, [Next]_vars PROVE FreshInv'
  OBVIOUS
<1>1. /\ \A i \in stored : i.time \in Int
      /\ item.time \in Int /\ clock \in Int
  BY TimesAreInts DEF TypeOK
<1>2. ASSUME UNCHANGED <<item, stored>>, clock' \in Int, clock' >= clock,
             pc # "idle" \/ pc' = "idle"
      PROVE  FreshInv'
  BY <1>1, <1>2 DEF FreshInv
<1>3. CASE Tick
  BY <1>1, <1>2, <1>3 DEF Tick, enqueueVars
<1>4. CASE StepBack
  <2>1. PICK t \in Time : t < clock /\ t >= clock - MaxStepBack
    BY <1>4 DEF StepBack
  <2>2. t \in Int
    BY StoreAssumption DEF Time
  <2>. QED BY <1>1, <2>1, <2>2 DEF Forward
<1>5. ASSUME NEW p \in Picks, Receive(p) PROVE FreshInv'
  <2>1. /\ clock' = clock + MinInsertTicks /\ item'.time = clock /\ stored' = stored
        /\ MinInsertTicks \in Int /\ MinInsertTicks > 0
    BY <1>5, StoreAssumption DEF Receive, Forward
  <2>2. clock' \in Int /\ clock < clock'
    BY <1>1, <2>1
  <2>3. \A i \in stored' : i.time < clock'
    BY <1>1, <2>1, <2>2 DEF FreshInv
  <2>. QED BY <2>1, <2>2, <2>3 DEF FreshInv
<1>6. CASE DateRetention \/ CleanDeque
  BY <1>1, <1>2, <1>6 DEF DateRetention, CleanDeque
<1>7. CASE Insert
  <2>1. /\ stored' = stored \cup {item} /\ clock' = clock
        /\ pc = "insert" /\ pc' = "idle"
    BY <1>7 DEF Insert
  <2>2. item.time < clock /\ \A i \in stored : i.time < item.time
    BY <2>1 DEF FreshInv
  <2>3. \A i \in stored' : i.time < clock'
    BY <2>1, <2>2 DEF FreshInv
  <2>4. \A i, j \in stored' : i.time = j.time => i = j
    BY <1>1, <2>1, <2>2 DEF FreshInv
  <2>. QED BY <2>1, <2>3, <2>4 DEF FreshInv
<1>8. ASSUME NEW s \in Subscribers, NEW c, NEW t, NEW b, SetCursor(s, c, t, b) PROVE FreshInv'
  BY <1>1, <1>2, <1>8 DEF SetCursor, enqueueVars
<1>9. ASSUME NEW s \in Subscribers, GetPicks(s) PROVE FreshInv'
  BY <1>1, <1>2, <1>9 DEF GetPicks, enqueueVars
<1>10. CASE UNCHANGED vars
  BY <1>1, <1>2, <1>10 DEF vars, enqueueVars
<1>. QED BY <1>3, <1>4, <1>5, <1>6, <1>7, <1>8, <1>9, <1>10
         DEF Next, Subscribe, SubscribeSince, Unsubscribe

\* The pick in flight is the youngest: it goes to the back, without a sort.
LEMMA InsertAppends ==
    ASSUME TypeOK, DequeInv, FreshInv, Insert
    PROVE  /\ mDeque' = Append(mDeque, item)
           /\ mDeque'[Len(mDeque')] = item
           /\ Range(mDeque') = Range(mDeque) \cup {item}
<1>1. mDeque' \in WithItem /\ pc = "insert"
  BY DEF Insert
<1>2. ASSUME mDeque # <<>> PROVE ~ (mDeque[Len(mDeque)].time > item.time)
  <2>1. Len(mDeque) \in DOMAIN mDeque
    BY <1>2 DEF TypeOK
  <2>2. mDeque[Len(mDeque)] \in stored
    BY <2>1 DEF DequeInv, DequeStored, Range
  <2>3. mDeque[Len(mDeque)].time < item.time
    BY <1>1, <2>2 DEF FreshInv
  <2>4. mDeque[Len(mDeque)].time \in Int /\ item.time \in Int
    BY <2>2, TimesAreInts DEF TypeOK
  <2>. QED BY <2>3, <2>4
<1>3. mDeque' = Append(mDeque, item)
  BY <1>1, <1>2 DEF WithItem
<1>4. mDeque'[Len(mDeque')] = item
  BY <1>3 DEF TypeOK
<1>. QED BY <1>1, <1>3, <1>4, WithItemProperties DEF TypeOK

-----------------------------------------------------------------------------
(* A subscription: its cursor lies where what it has been sent ends.       *)

Live(s) == mCursorMap[s] = MaxTime

\* Nothing is owed to a live subscription before its first pick; the cursor of any
\* other is the start time or comes from a pick that is stored.
CursorInv(s) ==
    /\ Live(s) => since[s] = 0 /\ owed[s] = {}
    /\ Subscribed(s) /\ ~ Live(s) =>
          /\ since[s] <= mCursorMap[s]
          /\ mCursorMap[s] = since[s] \/ \E i \in stored : mCursorMap[s] <= i.time + 1

AheadIsOwed(s) ==
    Subscribed(s) => \A i \in Range(mDeque) : i.time >= mCursorMap[s] => i \in owed[s]

NoneSkipped(s) ==
    Subscribed(s) =>
        \A i \in owed[s] :
            \/ i \in Range(delivered[s])
            \/ i \in Range(mDeque) /\ i.time >= mCursorMap[s]
            \/ i.time < clock - MaxHistory

OnlyOwed(s) == Range(delivered[s]) \subseteq owed[s]

SubscriptionInv(s) == CursorInv(s) /\ AheadIsOwed(s) /\ NoneSkipped(s) /\ OnlyOwed(s)

LEMMA NothingDelivered == Range(<<>>) = {}
BY DEF Range

LEMMA SubscriptionInit == ASSUME Init, NEW s \in Subscribers PROVE SubscriptionInv(s)
<1>1. mCursorMap[s] = -1 /\ delivered[s] = <<>>
  BY DEF Init, NoCursor
<1>2. MaxTime \in Nat
  BY StoreAssumption
<1>. QED BY <1>1, <1>2, NothingDelivered
         DEF SubscriptionInv, CursorInv, AheadIsOwed, NoneSkipped, OnlyOwed, Live,
             Subscribed, NoCursor

\* As time passes a pick that has expired stays so.
LEMMA StillExpired ==
    ASSUME NEW t \in Int, NEW now \in Int, NEW later \in Int, NEW h \in Int,
           t < now - h, later >= now
    PROVE  t < later - h
OBVIOUS

\* Whatever else happens: time passes, or what has expired is popped.
LEMMA SubscriptionKept ==
    ASSUME TypeOK, NEW s \in Subscribers, SubscriptionInv(s),
           mCursorMap'[s] = mCursorMap[s], since'[s] = since[s],
           owed'[s] = owed[s], delivered'[s] = delivered[s],
           stored' = stored, clock' \in Int, clock' >= clock,
           Range(mDeque') \subseteq Range(mDeque),
           \A i \in Range(mDeque) \ Range(mDeque') : i.time < clock - MaxHistory
    PROVE  SubscriptionInv(s)'
<1>1. CursorInv(s)'
  BY DEF SubscriptionInv, CursorInv, Live, Subscribed
<1>2. AheadIsOwed(s)' /\ OnlyOwed(s)'
  BY DEF SubscriptionInv, AheadIsOwed, OnlyOwed, Subscribed
<1>3. NoneSkipped(s)'
  <2>. SUFFICES ASSUME Subscribed(s), NEW i \in owed[s]
                PROVE  \/ i \in Range(delivered[s])
                       \/ i \in Range(mDeque') /\ i.time >= mCursorMap[s]
                       \/ i.time < clock' - MaxHistory
    BY DEF NoneSkipped, Subscribed
  <2>1. i.time \in Int /\ clock \in Int /\ MaxHistory \in Int
    BY TimesAreInts DEF TypeOK
  <2>2. i.time < clock - MaxHistory => i.time < clock' - MaxHistory
    BY <2>1, StillExpired
  <2>. QED BY <2>2 DEF SubscriptionInv, NoneSkipped
<1>. QED BY <1>1, <1>2, <1>3 DEF SubscriptionInv

LEMMA SubscriptionInsert ==
    ASSUME TypeOK, DequeInv, FreshInv, Insert,
           NEW s \in Subscribers, SubscriptionInv(s)
    PROVE  SubscriptionInv(s)'
<1>. DEFINE c == mCursorMap[s]
            d == mCursorMap'[s]
<1>1. /\ item \in Item /\ item.time \in Int /\ item.time < MaxTime /\ item.time >= 0
      /\ since[s] \in Int /\ c \in Int /\ MaxTime \in Int /\ MaxTime > 0
  <2>1. item \in Item /\ item.time \in 0..ClockBound
    BY DEF TypeOK, Item, Time
  <2>2. ClockBound \in Int /\ MaxTime \in Int /\ MaxTime > ClockBound + 1 /\ ClockBound >= 0
    BY StoreAssumption
  <2>3. item.time \in Int /\ item.time < MaxTime /\ item.time >= 0 /\ MaxTime > 0
    <3>. DEFINE t == item.time
    <3>1. t \in 0..ClockBound
      BY <2>1
    <3>. HIDE DEF t
    <3>2. t \in Int /\ t < MaxTime /\ t >= 0 /\ MaxTime > 0
      BY <3>1, <2>2
    <3>. QED BY <3>2 DEF t
  <2>4. since[s] \in 0..ClockBound
    BY DEF TypeOK, Time
  <2>5. c \in 0..(ClockBound + 1) \cup {NoCursor, MaxTime}
    BY DEF TypeOK
  <2>6. c \in Int
    BY <2>2, <2>5 DEF NoCursor
  <2>. QED BY <2>1, <2>2, <2>3, <2>4, <2>6
<1>2. /\ Range(mDeque') = Range(mDeque) \cup {item}
      /\ d = IF c = MaxTime THEN item.time ELSE c
      /\ owed'[s] = IF Subscribed(s) /\ item.time >= since[s]
                    THEN owed[s] \cup {item} ELSE owed[s]
      /\ since' = since /\ delivered' = delivered /\ clock' = clock
      /\ stored' = stored \cup {item}
  BY InsertAppends DEF Insert, FirstCursor
<1>3. \A i \in stored : i.time < item.time /\ i.time \in Int
  BY TimesAreInts DEF FreshInv, Insert, TypeOK
<1>4. Range(mDeque) \subseteq stored
  BY DEF DequeInv, DequeStored
<1>5. Subscribed(s)' <=> Subscribed(s)
  BY <1>1, <1>2 DEF Subscribed, NoCursor
<1>6. d # MaxTime
  BY <1>1, <1>2
<1>7. Subscribed(s) => since[s] <= d
  BY <1>1, <1>2 DEF SubscriptionInv, CursorInv, Live, Subscribed
\* The pick that is inserted lies ahead of every cursor it is owed to.
<1>8. Subscribed(s) /\ item.time >= since[s] => item.time >= d
  <2>. SUFFICES ASSUME Subscribed(s), item.time >= since[s], c # MaxTime
                PROVE  item.time >= c
    BY <1>1, <1>2
  <2>1. CASE c = since[s]
    BY <2>1
  <2>2. CASE \E i \in stored : c <= i.time + 1
    <3>1. PICK i \in stored : c <= i.time + 1
      BY <2>2
    <3>2. i.time < item.time /\ i.time \in Int
      BY <1>3
    <3>. HIDE DEF c
    <3>. QED BY <1>1, <3>1, <3>2
  <2>. QED BY <2>1, <2>2 DEF SubscriptionInv, CursorInv, Live
<1>9. CursorInv(s)'
  <2>1. Subscribed(s) => d = since[s] \/ \E i \in stored' : d <= i.time + 1
    BY <1>1, <1>2 DEF SubscriptionInv, CursorInv, Live
  <2>. QED BY <1>2, <1>5, <1>6, <1>7, <2>1 DEF CursorInv, Live
<1>10. AheadIsOwed(s)'
  <2>. SUFFICES ASSUME Subscribed(s), NEW i \in Range(mDeque'), i.time >= d
                PROVE  i \in owed'[s]
    BY <1>5 DEF AheadIsOwed
  <2>1. CASE i = item
    BY <1>1, <1>2, <1>7, <2>1
  <2>2. CASE i \in Range(mDeque)
    <3>1. i.time < item.time /\ i.time \in Int
      BY <1>3, <1>4, <2>2
    <3>2. c # MaxTime /\ d = c
      BY <1>1, <1>2, <3>1
    <3>. QED BY <1>2, <2>2, <3>2 DEF SubscriptionInv, AheadIsOwed
  <2>. QED BY <1>2, <2>1, <2>2
<1>11. NoneSkipped(s)'
  <2>. SUFFICES ASSUME Subscribed(s), NEW i \in owed'[s]
                PROVE  \/ i \in Range(delivered[s])
                       \/ i \in Range(mDeque') /\ i.time >= d
                       \/ i.time < clock - MaxHistory
    BY <1>2, <1>5 DEF NoneSkipped
  <2>1. CASE i \in owed[s]
    <3>1. c # MaxTime /\ d = c
      BY <1>2, <2>1 DEF SubscriptionInv, CursorInv, Live
    <3>. QED BY <1>2, <2>1, <3>1 DEF SubscriptionInv, NoneSkipped
  <2>2. CASE i = item /\ item.time >= since[s]
    BY <1>2, <1>8, <2>2
  <2>. QED BY <1>2, <2>1, <2>2
<1>12. OnlyOwed(s)'
  BY <1>2 DEF SubscriptionInv, OnlyOwed
<1>. QED BY <1>9, <1>10, <1>11, <1>12 DEF SubscriptionInv

\* A batch of getPicks is what is pending up to a place in the deque.
LEMMA BatchIsPrefix ==
    ASSUME TypeOK, NEW s \in Subscribers,
           NEW k \in Pending(s), k \notin Scanned(s), NEW j \in Scanned(s)
    PROVE  j < k
<1>1. Pending(s) \subseteq 1..Len(mDeque) /\ Len(mDeque) \in Nat
  BY DEF Pending, TypeOK
<1>2. j \in Pending(s) /\ j \in Int /\ k \in Int
  BY <1>1 DEF Scanned
<1>. DEFINE Upto(m) == { i \in Pending(s) : i <= m }
<1>3. \A m : IsFiniteSet(Upto(m)) /\ Cardinality(Upto(m)) \in Nat
  <2>. TAKE m
  <2>1. IsFiniteSet(1..Len(mDeque))
    BY <1>1, FS_Interval
  <2>2. Upto(m) \in SUBSET (1..Len(mDeque))
    BY <1>1
  <2>. HIDE DEF Upto
  <2>3. IsFiniteSet(Upto(m))
    BY <2>1, <2>2, FS_Subset
  <2>. QED BY <2>3, FS_CardinalityType
<1>4. Cardinality(Upto(j)) <= MaximumNumberOfPicks
  BY DEF Scanned
<1>5. ~ (Cardinality(Upto(k)) <= MaximumNumberOfPicks)
  BY DEF Scanned
<1>6. ASSUME k <= j PROVE FALSE
  <2>1. Upto(k) \in SUBSET Upto(j)
    BY <1>1, <1>2, <1>6
  <2>. HIDE DEF Upto
  <2>2. Cardinality(Upto(k)) <= Cardinality(Upto(j))
    BY <1>3, <2>1, FS_Subset
  <2>. DEFINE a == Cardinality(Upto(k))
              b == Cardinality(Upto(j))
  <2>3. a \in Nat /\ b \in Nat /\ a <= b /\ b <= MaximumNumberOfPicks
        /\ ~ (a <= MaximumNumberOfPicks) /\ MaximumNumberOfPicks \in Nat
    BY <1>3, <1>4, <1>5, <2>2, StoreAssumption
  <2>. HIDE DEF a, b
  <2>. QED BY <2>3
<1>. QED BY <1>2, <1>6

\* All of it is in the batch.
LEMMA BatchIsComplete ==
    ASSUME TypeOK, NEW s \in Subscribers, NEW f \in Ascending(Scanned(s)),
           Scanned(s) # {}, NEW k \in Scanned(s)
    PROVE  \E m \in 1..Len(f) : f[m] = k
<1>. DEFINE S == Scanned(s)
            n == Cardinality(S)
<1>1. /\ n \in Nat \ {0} /\ Len(f) = n
      /\ \A i, j \in 1..Len(f) : i < j => f[i] < f[j]
      /\ f \in [1..n -> DOMAIN mDeque]
  BY ScannedProperties
<1>2. f \in [1..n -> S] /\ \A i \in 1..n : f[i] \in Int
  <2>1. f \in [1..n -> S]
    BY DEF Ascending
  <2>2. DOMAIN mDeque = 1..Len(mDeque) /\ Len(mDeque) \in Nat
    BY DEF TypeOK
  <2>. QED BY <1>1, <2>1, <2>2
<1>3. \A i, j \in 1..n : f[i] = f[j] => i = j
  BY <1>1, <1>2
<1>4. IsFiniteSet(S)
  <2>1. S \in SUBSET (1..Len(mDeque)) /\ Len(mDeque) \in Nat
    BY DEF Scanned, Pending, TypeOK
  <2>2. IsFiniteSet(1..Len(mDeque))
    BY <2>1, FS_Interval
  <2>. QED BY <2>1, <2>2, FS_Subset
<1>5. IsFiniteSet(1..n) /\ Cardinality(1..n) = n
  BY <1>1, FS_Interval
<1>6. f \in Injection(1..n, S)
  BY <1>2, <1>3 DEF Injection, IsInjective
<1>. HIDE DEF n
<1>7. f \in Surjection(1..n, S)
  BY <1>4, <1>5, <1>6, FS_Injection DEF n
<1>. QED BY <1>1, <1>7 DEF Surjection

\* What is in the deque was inserted at a time of its own.
LEMMA DequeTimes ==
    ASSUME TypeOK, DequeInv, FreshInv, NEW j \in DOMAIN mDeque, NEW k \in DOMAIN mDeque, j < k
    PROVE  mDeque[j].time < mDeque[k].time
<1>1. mDeque[j] \in Range(mDeque) /\ mDeque[k] \in Range(mDeque)
  BY DEF Range
<1>2. mDeque[j] \in stored /\ mDeque[k] \in stored
  BY <1>1 DEF DequeInv, DequeStored
<1>3. DOMAIN mDeque = 1..Len(mDeque) /\ Len(mDeque) \in Nat
  BY DEF TypeOK
<1>4. mDeque[j] # mDeque[k]
  BY <1>3 DEF DequeInv, IsInjective
<1>5. mDeque[j].time # mDeque[k].time
  BY <1>2, <1>4 DEF FreshInv
<1>6. mDeque[j].time <= mDeque[k].time
  BY DEF DequeInv, DequeSorted, Sorted
<1>7. mDeque[j].time \in Int /\ mDeque[k].time \in Int
  BY <1>2, TimesAreInts DEF TypeOK
<1>. QED BY <1>5, <1>6, <1>7

LEMMA RangeOfBoth ==
    ASSUME NEW q \in Seq(Item), NEW r \in Seq(Item)
    PROVE  Range(q \o r) = Range(q) \cup Range(r)
<1>1. /\ Len(q) \in Nat /\ Len(r) \in Nat
      /\ DOMAIN q = 1..Len(q) /\ DOMAIN r = 1..Len(r)
      /\ DOMAIN (q \o r) = 1..(Len(q) + Len(r))
  OBVIOUS
<1>2. \A k \in 1..Len(q) : (q \o r)[k] = q[k]
  OBVIOUS
<1>3. \A k \in 1..Len(r) : (q \o r)[Len(q) + k] = r[k]
  OBVIOUS
<1>4. \A k \in DOMAIN (q \o r) : k \in 1..Len(q) \/ \E j \in 1..Len(r) : k = Len(q) + j
  <2>. SUFFICES ASSUME NEW k \in DOMAIN (q \o r), ~ (k \in 1..Len(q))
                PROVE  \E j \in 1..Len(r) : k = Len(q) + j
    OBVIOUS
  <2>1. k - Len(q) \in 1..Len(r) /\ k = Len(q) + (k - Len(q))
    BY <1>1
  <2>. QED BY <2>1
<1>5. \A k \in 1..Len(r) : Len(q) + k \in DOMAIN (q \o r)
  BY <1>1
<1>6. \A k \in 1..Len(q) : k \in DOMAIN (q \o r)
  BY <1>1
<1>7. Range(q \o r) \subseteq Range(q) \cup Range(r)
  BY <1>1, <1>2, <1>3, <1>4 DEF Range
<1>8. Range(q) \subseteq Range(q \o r)
  BY <1>1, <1>2, <1>6 DEF Range
<1>9. Range(r) \subseteq Range(q \o r)
  BY <1>1, <1>3, <1>5 DEF Range
<1>. QED BY <1>7, <1>8, <1>9

\* The cursor goes past the batch, and past nothing else that is pending.
LEMMA SubscriptionGetPicks ==
    ASSUME TypeOK, DequeInv, FreshInv, NEW s \in Subscribers, GetPicks(s), SubscriptionInv(s)
    PROVE  SubscriptionInv(s)'
<1>. DEFINE c == mCursorMap[s]
            d == mCursorMap'[s]
<1>1. PICK f \in Ascending(Scanned(s)) :
        LET result == [k \in 1..Len(f) |-> mDeque[f[k]]] IN
        /\ delivered' = [delivered EXCEPT ![s] = @ \o result]
        /\ mCursorMap' = [mCursorMap EXCEPT ![s] = CursorAfter(result[Len(result)].time)]
  BY DEF GetPicks
<1>. DEFINE result == [k \in 1..Len(f) |-> mDeque[f[k]]]
            n == Len(f)
<1>2. /\ Subscribed(s) /\ Scanned(s) # {}
      /\ UNCHANGED <<clock, mDeque, stored, since, owed>>
  BY DEF GetPicks
<1>3. /\ n \in Nat \ {0} /\ n = Cardinality(Scanned(s))
      /\ \A i, j \in 1..n : i < j => f[i] < f[j]
      /\ f \in [1..n -> DOMAIN mDeque]
  BY <1>2, ScannedProperties
<1>4. \A m \in 1..n : f[m] \in Scanned(s)
  BY <1>3 DEF Ascending
<1>5. DOMAIN mDeque = 1..Len(mDeque) /\ Len(mDeque) \in Nat
  BY DEF TypeOK
<1>6. result \in Seq(Item) /\ Len(result) = n
  <2>1. \A k \in 1..n : mDeque[f[k]] \in Item
    BY <1>2, ScannedProperties
  <2>. QED BY <1>3, <2>1
<1>. DEFINE last == mDeque[f[n]]
<1>7. /\ f[n] \in Scanned(s) /\ f[n] \in DOMAIN mDeque
      /\ result[Len(result)] = last /\ last \in Range(mDeque) /\ last \in stored
  <2>1. n \in 1..n
    BY <1>3
  <2>2. f[n] \in Scanned(s) /\ f[n] \in DOMAIN mDeque
    BY <1>3, <1>4, <2>1
  <2>3. last \in Range(mDeque)
    BY <2>2 DEF Range
  <2>4. result[Len(result)] = last
    BY <1>6, <2>1
  <2>. QED BY <2>2, <2>3, <2>4 DEF DequeInv, DequeStored
<1>8. d = last.time + 1
  <2>1. d = CursorAfter(result[Len(result)].time)
    BY <1>1 DEF TypeOK
  <2>. QED BY <1>7, <2>1 DEF CursorAfter
<1>9. delivered'[s] = delivered[s] \o result
  BY <1>1 DEF TypeOK
<1>10. Range(delivered'[s]) = Range(delivered[s]) \cup Range(result)
  <2>1. delivered[s] \in Seq(Item)
    BY DEF TypeOK
  <2>. HIDE DEF result
  <2>. QED BY <1>6, <1>9, <2>1, RangeOfBoth
<1>11. /\ last.time \in Int /\ last.time >= c /\ c \in Int /\ since[s] \in Int
       /\ last.time + 1 < MaxTime /\ MaxTime \in Int
  <2>1. last.time \in 0..ClockBound
    BY <1>7 DEF TypeOK, Item, Time
  <2>2. ClockBound \in Int /\ MaxTime \in Int /\ MaxTime > ClockBound + 1
    BY StoreAssumption
  <2>3. c \in 0..(ClockBound + 1) \cup {NoCursor, MaxTime} /\ since[s] \in 0..ClockBound
    BY DEF TypeOK, Time
  <2>4. last.time >= c
    BY <1>7 DEF Scanned, Pending
  <2>5. c \in Int
    BY <2>2, <2>3 DEF NoCursor
  <2>. HIDE DEF c, last
  <2>. QED BY <2>1, <2>2, <2>3, <2>4, <2>5
<1>12. c # MaxTime /\ since[s] <= c
  <2>1. c # MaxTime
    <3>. HIDE DEF c, last
    <3>. QED BY <1>11
  <2>. QED BY <1>2, <2>1 DEF SubscriptionInv, CursorInv, Live
<1>13. Subscribed(s)' /\ d # MaxTime /\ since[s] <= d
  <2>1. last.time >= 0
    BY <1>7, StoreAssumption DEF TypeOK, Item, Time
  <2>2. d \in Int /\ d # MaxTime /\ d > 0 /\ since[s] <= d
    <3>. HIDE DEF c, d, last
    <3>. QED BY <1>8, <1>11, <1>12, <2>1
  <2>. QED BY <2>2 DEF Subscribed, NoCursor
\* An item of the deque at or past the cursor is in the batch or still ahead.
<1>14. ASSUME NEW i \in Range(mDeque), i.time >= c
       PROVE  i \in Range(result) \/ i.time >= d
  <2>1. PICK k \in DOMAIN mDeque : mDeque[k] = i
    BY DEF Range
  <2>2. k \in Pending(s)
    BY <1>14, <2>1 DEF Pending
  <2>3. CASE k \in Scanned(s)
    <3>1. PICK m \in 1..n : f[m] = k
      BY <1>2, <2>3, BatchIsComplete
    <3>2. result[m] = i /\ m \in DOMAIN result
      BY <2>1, <3>1
    <3>. HIDE DEF result
    <3>. QED BY <3>2 DEF Range
  <2>4. CASE k \notin Scanned(s)
    <3>1. f[n] < k
      BY <1>7, <2>2, <2>4, BatchIsPrefix
    <3>2. last.time < i.time
      BY <1>7, <2>1, <3>1, DequeTimes
    <3>3. i.time \in Int
      BY <2>1, TimesAreInts DEF TypeOK
    <3>4. i.time >= d
      <4>. HIDE DEF d, last
      <4>. QED BY <1>8, <1>11, <3>2, <3>3
    <3>. QED BY <3>4
  <2>. QED BY <2>3, <2>4
<1>15. Range(result) \subseteq owed[s]
  <2>. SUFFICES ASSUME NEW m \in 1..n PROVE mDeque[f[m]] \in owed[s]
    BY DEF Range
  <2>1. f[m] \in Pending(s) /\ f[m] \in DOMAIN mDeque
    BY <1>3, <1>4 DEF Scanned
  <2>2. mDeque[f[m]] \in Range(mDeque) /\ mDeque[f[m]].time >= c
    BY <2>1 DEF Pending, Range
  <2>. QED BY <1>2, <2>2 DEF SubscriptionInv, AheadIsOwed
<1>16. CursorInv(s)'
  <2>1. d <= last.time + 1
    <3>. HIDE DEF d, last
    <3>. QED BY <1>8, <1>11
  <2>2. \E i \in stored' : d <= i.time + 1
    BY <1>2, <1>7, <2>1
  <2>. QED BY <1>2, <1>13, <2>2 DEF CursorInv, Live
<1>17. AheadIsOwed(s)'
  <2>. SUFFICES ASSUME NEW i \in Range(mDeque), i.time >= d PROVE i \in owed[s]
    BY <1>2 DEF AheadIsOwed
  <2>1. i.time \in Int
    BY TimesAreInts DEF TypeOK, Range
  <2>2. i.time >= c
    <3>. HIDE DEF c, d, last
    <3>. QED BY <1>8, <1>11, <2>1
  <2>. QED BY <1>2, <2>2 DEF SubscriptionInv, AheadIsOwed
<1>18. NoneSkipped(s)'
  <2>. SUFFICES ASSUME NEW i \in owed[s]
                PROVE  \/ i \in Range(delivered'[s])
                       \/ i \in Range(mDeque) /\ i.time >= d
                       \/ i.time < clock - MaxHistory
    BY <1>2 DEF NoneSkipped
  <2>1. \/ i \in Range(delivered[s])
        \/ i \in Range(mDeque) /\ i.time >= c
        \/ i.time < clock - MaxHistory
    BY <1>2 DEF SubscriptionInv, NoneSkipped
  <2>. QED BY <1>10, <1>14, <2>1
<1>19. OnlyOwed(s)'
  BY <1>2, <1>10, <1>15 DEF SubscriptionInv, OnlyOwed
<1>. QED BY <1>16, <1>17, <1>18, <1>19 DEF SubscriptionInv

\* Of two subscriptions only the one that is meant changes.
LEMMA OtherSubscription ==
    ASSUME TypeOK, NEW s \in Subscribers, NEW r \in Subscribers, r # s, SubscriptionInv(r),
           GetPicks(s) \/ \E c, t, b : SetCursor(s, c, t, b)
    PROVE  SubscriptionInv(r)'
<1>1. /\ mCursorMap'[r] = mCursorMap[r] /\ since'[r] = since[r]
      /\ owed'[r] = owed[r] /\ delivered'[r] = delivered[r]
      /\ mDeque' = mDeque /\ stored' = stored /\ clock' = clock
  <2>1. CASE GetPicks(s)
    BY <2>1 DEF GetPicks, TypeOK
  <2>2. CASE \E c, t, b : SetCursor(s, c, t, b)
    BY <2>2 DEF SetCursor, TypeOK
  <2>. QED BY <2>1, <2>2
<1>2. clock \in Int
  BY TimesAreInts
<1>. QED BY <1>1, <1>2, SubscriptionKept

\* A subscription begins with what is retained from its start time on, or with
\* nothing at all when it is live or over.
LEMMA SubscriptionSet ==
    ASSUME TypeOK, NEW s \in Subscribers,
           \/ Subscribe(s)
           \/ \E startTime \in Time : SubscribeSince(s, startTime)
           \/ Unsubscribe(s)
    PROVE  SubscriptionInv(s)'
<1>1. MaxTime \in Nat /\ ClockBound \in Nat /\ MaxTime > ClockBound + 1
  BY StoreAssumption
<1>2. \A i \in Range(mDeque) : i.time \in 0..ClockBound
  <2>1. \A i \in Range(mDeque) : i \in Item
    BY DEF TypeOK, Range
  <2>2. \A i \in Item : i.time \in 0..ClockBound
    BY DEF Item, Time
  <2>. QED BY <2>1, <2>2
<1>3. ASSUME NEW c, NEW t, NEW b, SetCursor(s, c, t, b)
      PROVE  /\ mCursorMap'[s] = c /\ since'[s] = t /\ owed'[s] = b /\ delivered'[s] = <<>>
             /\ mDeque' = mDeque
  BY <1>3 DEF SetCursor, TypeOK
<1>4. CASE Subscribe(s)
  <2>1. /\ mCursorMap'[s] = MaxTime /\ since'[s] = 0 /\ owed'[s] = {}
        /\ delivered'[s] = <<>> /\ mDeque' = mDeque
    BY <1>3, <1>4 DEF Subscribe
  <2>2. \A i \in Range(mDeque) : ~ (i.time >= MaxTime)
    BY <1>1, <1>2
  <2>. QED BY <2>1, <2>2, NothingDelivered
           DEF SubscriptionInv, CursorInv, AheadIsOwed, NoneSkipped, OnlyOwed, Live
<1>5. ASSUME NEW startTime \in Time, SubscribeSince(s, startTime) PROVE SubscriptionInv(s)'
  <2>1. /\ mCursorMap'[s] = startTime /\ since'[s] = startTime
        /\ owed'[s] = { i \in Range(mDeque) : i.time >= startTime }
        /\ delivered'[s] = <<>> /\ mDeque' = mDeque
    BY <1>3, <1>5 DEF SubscribeSince
  <2>2. startTime \in Int /\ startTime # MaxTime
    BY <1>1 DEF Time
  <2>. QED BY <2>1, <2>2, NothingDelivered
           DEF SubscriptionInv, CursorInv, AheadIsOwed, NoneSkipped, OnlyOwed, Live
<1>6. CASE Unsubscribe(s)
  <2>1. /\ mCursorMap'[s] = NoCursor /\ since'[s] = 0 /\ owed'[s] = {}
        /\ delivered'[s] = <<>>
    BY <1>3, <1>6 DEF Unsubscribe
  <2>2. MaxTime # NoCursor
    BY <1>1 DEF NoCursor
  <2>. QED BY <2>1, <2>2, NothingDelivered
           DEF SubscriptionInv, CursorInv, AheadIsOwed, NoneSkipped, OnlyOwed, Live, Subscribed
<1>. QED BY <1>4, <1>5, <1>6

\* What cleanDeque pops has expired.
LEMMA PoppedHasExpired ==
    ASSUME TypeOK, RetentionInv, CleanDeque
    PROVE  /\ Range(mDeque') \subseteq Range(mDeque)
           /\ \A i \in Range(mDeque) \ Range(mDeque') : i.time < clock - MaxHistory
<1>1. PICK n \in Pops(mDeque, oldest) : mDeque' = PopFront(mDeque, n)
  BY DEF CleanDeque
<1>2. mDeque \in Seq(Item) /\ n \in 0..Len(mDeque) /\ DOMAIN mDeque = 1..Len(mDeque)
  BY PopsInRange DEF TypeOK
<1>3. \A k \in 1..n : mDeque[k].time < oldest
  BY <1>2 DEF Pops
<1>4. /\ mDeque' \in Seq(Item) /\ Len(mDeque') = Len(mDeque) - n
      /\ \A k \in 1..(Len(mDeque) - n) : mDeque'[k] = mDeque[n + k]
  BY <1>1, <1>2, PopFrontProperties
<1>5. DOMAIN mDeque' = 1..(Len(mDeque) - n)
  BY <1>4
<1>6. Range(mDeque') \subseteq Range(mDeque)
  <2>. SUFFICES ASSUME NEW k \in DOMAIN mDeque' PROVE mDeque'[k] \in Range(mDeque)
    BY DEF Range
  <2>1. n + k \in DOMAIN mDeque
    BY <1>2, <1>5
  <2>. QED BY <1>4, <1>5, <2>1 DEF Range
<1>7. ASSUME NEW i \in Range(mDeque) \ Range(mDeque') PROVE i.time < clock - MaxHistory
  <2>1. PICK k \in DOMAIN mDeque : mDeque[k] = i
    BY DEF Range
  <2>2. ASSUME k > n PROVE FALSE
    <3>1. k - n \in DOMAIN mDeque' /\ n + (k - n) = k
      BY <1>2, <1>5, <2>2
    <3>2. mDeque'[k - n] = i
      BY <1>4, <1>5, <2>1, <3>1
    <3>. QED BY <3>1, <3>2 DEF Range
  <2>3. i.time < oldest
    BY <1>2, <1>3, <2>1, <2>2
  <2>4. /\ i.time \in Int /\ oldest \in Int /\ clock \in Int /\ MaxHistory \in Int
        /\ oldest <= clock - MaxHistory
    BY <2>1, TimesAreInts DEF TypeOK, Range, RetentionInv, CutoffIsPast
  <2>. DEFINE t == i.time
  <2>5. t \in Int /\ t < oldest
    BY <2>3, <2>4
  <2>. HIDE DEF t
  <2>6. t < clock - MaxHistory
    BY <2>4, <2>5
  <2>. QED BY <2>6 DEF t
<1>. QED BY <1>6, <1>7

LEMMA SubscriptionNext ==
    ASSUME Forward, TypeOK, DequeInv, RetentionInv, FreshInv, [Next]_vars,
           NEW s \in Subscribers, SubscriptionInv(s)
    PROVE  SubscriptionInv(s)'
<1>1. clock \in Int /\ MinInsertTicks \in Nat
  BY TimesAreInts, StoreAssumption
<1>2. ASSUME UNCHANGED <<mDeque, mCursorMap, stored, historyVars>>, clock' \in Int, clock' >= clock
      PROVE  SubscriptionInv(s)'
  BY <1>2, SubscriptionKept DEF historyVars
<1>3. CASE Tick
  BY <1>1, <1>2, <1>3 DEF Tick
<1>4. CASE StepBack
  <2>1. PICK t \in Time : t < clock /\ t >= clock - MaxStepBack
    BY <1>4 DEF StepBack
  <2>2. t \in Int
    BY StoreAssumption DEF Time
  <2>. QED BY <1>1, <2>1, <2>2 DEF Forward
<1>5. ASSUME NEW p \in Picks, Receive(p) PROVE SubscriptionInv(s)'
  <2>1. clock' = clock + MinInsertTicks /\ UNCHANGED <<mDeque, mCursorMap, stored, historyVars>>
    BY <1>5 DEF Receive
  <2>. QED BY <1>1, <1>2, <2>1
<1>6. CASE DateRetention
  BY <1>1, <1>2, <1>6 DEF DateRetention
<1>7. CASE CleanDeque
  <2>1. /\ clock' = clock /\ stored' = stored /\ mCursorMap' = mCursorMap
        /\ since' = since /\ owed' = owed /\ delivered' = delivered
    BY <1>7 DEF CleanDeque, historyVars
  <2>. QED BY <1>1, <1>7, <2>1, PoppedHasExpired, SubscriptionKept
<1>8. CASE Insert
  BY <1>8, SubscriptionInsert
<1>9. ASSUME NEW r \in Subscribers,
             Subscribe(r) \/ (\E startTime \in Time : SubscribeSince(r, startTime)) \/ Unsubscribe(r)
      PROVE  SubscriptionInv(s)'
  <2>1. CASE r = s
    BY <1>9, <2>1, SubscriptionSet
  <2>2. CASE r # s
    <3>1. \E c, t, b : SetCursor(r, c, t, b)
      BY <1>9 DEF Subscribe, SubscribeSince, Unsubscribe
    <3>. QED BY <2>2, <3>1, OtherSubscription
  <2>. QED BY <2>1, <2>2
<1>10. ASSUME NEW r \in Subscribers, GetPicks(r) PROVE SubscriptionInv(s)'
  <2>1. CASE r = s
    BY <1>10, <2>1, SubscriptionGetPicks
  <2>2. CASE r # s
    BY <1>10, <2>2, OtherSubscription
  <2>. QED BY <2>1, <2>2
<1>11. CASE UNCHANGED vars
  BY <1>1, <1>2, <1>11 DEF vars
<1>. QED BY <1>3, <1>4, <1>5, <1>6, <1>7, <1>8, <1>9, <1>10, <1>11 DEF Next

-----------------------------------------------------------------------------
EverySubscriptionInv == \A s \in Subscribers : SubscriptionInv(s)

StreamInv == TypeOK /\ DequeInv /\ RetentionInv /\ FreshInv /\ EverySubscriptionInv

LEMMA StreamInit == ASSUME Forward PROVE Init => StreamInv
BY TypeInit, DequeInit, RetentionInit, FreshInit, SubscriptionInit
   DEF StreamInv, EverySubscriptionInv

LEMMA StreamNext == ASSUME Forward PROVE StreamInv /\ [Next]_vars => StreamInv'
<1>. SUFFICES ASSUME StreamInv, [Next]_vars PROVE StreamInv'
  OBVIOUS
<1>1. TypeOK /\ DequeInv /\ RetentionInv /\ FreshInv /\ EverySubscriptionInv
  BY DEF StreamInv
<1>2. TypeOK' /\ DequeInv'
  BY <1>1, TypeNext, DequeNext
<1>3. RetentionInv'
  BY <1>1, RetentionNext DEF Forward
<1>4. FreshInv'
  BY <1>1, FreshNext
<1>5. EverySubscriptionInv'
  BY <1>1, SubscriptionNext DEF EverySubscriptionInv
<1>. QED BY <1>2, <1>3, <1>4, <1>5 DEF StreamInv

\* getPicks moves the cursor by the last pick of a batch, and cleanDeque pops under
\* it: a pick the subscription is for is still read, still ahead, or too old.
THEOREM NoneIsSkipped ==
    ASSUME Forward
    PROVE  Spec => []NoPickSkipped
<1>1. StreamInv => NoPickSkipped
  BY DEF StreamInv, EverySubscriptionInv, SubscriptionInv, NoneSkipped, NoPickSkipped
<1>. QED BY <1>1, StreamInit, StreamNext, PTL DEF Spec

\* A subscriber is sent no pick from before the start time it asked for nor, when
\* it is live, one that was in the store when it subscribed.
THEOREM OnlyOwedIsDelivered ==
    ASSUME Forward
    PROVE  Spec => []OnlyOwedDelivered
<1>1. StreamInv => OnlyOwedDelivered
  BY DEF StreamInv, EverySubscriptionInv, SubscriptionInv, OnlyOwed, OnlyOwedDelivered
<1>. QED BY <1>1, StreamInit, StreamNext, PTL DEF Spec
-----------------------------------------------------------------------------
(* The deque as the set of its items, which is how Broker has it.          *)

\* The items that a cleaning with the cutoff oldest leaves: Broker!Cleaned.
CleanedItems(items) ==
    IF Cardinality(items) < MaxQueueCapacity \div 2
    THEN items
    ELSE { i \in items : i.time >= oldest }

LEMMA ItemsAreCounted ==
    ASSUME NEW q \in Seq(Item), IsInjective(q)
    PROVE  Cardinality(Range(q)) = Len(q)
<1>1. Len(q) \in Nat /\ q \in [1..Len(q) -> Item]
  OBVIOUS
<1>2. q \in Bijection(1..Len(q), Range(q))
  <2>1. q \in [1..Len(q) -> Range(q)]
    BY <1>1 DEF Range
  <2>2. \A i \in Range(q) : \E k \in 1..Len(q) : q[k] = i
    BY <1>1 DEF Range
  <2>. QED BY <2>1, <2>2 DEF Bijection, Injection, Surjection
<1>3. IsFiniteSet(1..Len(q)) /\ Cardinality(1..Len(q)) = Len(q)
  BY <1>1, FS_Interval
<1>. QED BY <1>2, <1>3, FS_Bijection DEF ExistsBijection

\* What is popped off a sorted deque are the old items, wherever equal times are.
LEMMA PoppedItems ==
    ASSUME oldest \in Int, NEW q \in Seq(Item), Sorted(q), IsInjective(q),
           NEW n \in Pops(q, oldest)
    PROVE  Range(PopFront(q, n)) = CleanedItems(Range(q))
<1>. DEFINE r == PopFront(q, n)
<1>1. n \in 0..Len(q) /\ Len(q) \in Nat
  BY PopsInRange
<1>2. /\ r \in Seq(Item) /\ Len(r) = Len(q) - n
      /\ \A k \in 1..(Len(q) - n) : r[k] = q[n + k]
  BY <1>1, PopFrontProperties
<1>. HIDE DEF r
<1>3. Range(r) = { q[k] : k \in (n + 1)..Len(q) }
  <2>1. DOMAIN r = 1..(Len(q) - n)
    BY <1>1, <1>2
  <2>2. \A k \in (n + 1)..Len(q) : k - n \in 1..(Len(q) - n) /\ n + (k - n) = k
    BY <1>1
  <2>3. \A k \in 1..(Len(q) - n) : n + k \in (n + 1)..Len(q)
    BY <1>1
  <2>. QED BY <1>2, <2>1, <2>2, <2>3 DEF Range
<1>4. Cardinality(Range(q)) = Len(q)
  BY ItemsAreCounted
<1>5. CASE Len(q) < MaxQueueCapacity \div 2
  <2>1. n = 0
    BY <1>5 DEF Pops
  <2>2. Range(q) = { q[k] : k \in 1..Len(q) }
    BY DEF Range
  <2>3. Range(r) = Range(q)
    BY <1>3, <2>1, <2>2
  <2>. QED BY <1>4, <1>5, <2>3 DEF CleanedItems, r
<1>6. CASE ~ (Len(q) < MaxQueueCapacity \div 2)
  <2>1. /\ \A k \in 1..n : q[k].time < oldest
        /\ n < Len(q) => q[n + 1].time >= oldest
    BY <1>1, <1>6 DEF Pops
  <2>2. ASSUME NEW k \in 1..Len(q) PROVE q[k].time \in Int
    <3>1. q[k] \in Item
      BY <1>1
    <3>. QED BY <3>1 DEF Item, Time
  <2>3. ASSUME NEW k \in (n + 1)..Len(q) PROVE q[k].time >= oldest
    <3>1. n < Len(q) /\ n + 1 \in 1..Len(q) /\ k \in 1..Len(q) /\ (n + 1 < k \/ n + 1 = k)
      BY <1>1, <2>3
    <3>2. n + 1 < k => q[n + 1].time <= q[k].time
      BY <3>1 DEF Sorted
    <3>. DEFINE a == q[n + 1].time
                b == q[k].time
    <3>3. a \in Int /\ b \in Int /\ a >= oldest /\ (a <= b \/ a = b)
      BY <2>1, <2>2, <3>1, <3>2
    <3>. HIDE DEF a, b
    <3>4. b >= oldest
      BY <3>3
    <3>. QED BY <3>4 DEF b
  <2>4. ASSUME NEW k \in 1..Len(q), q[k].time >= oldest PROVE k \in (n + 1)..Len(q)
    <3>1. ~ (q[k].time < oldest)
      BY <2>2, <2>4
    <3>2. k \notin 1..n
      BY <2>1, <3>1
    <3>. QED BY <1>1, <3>2
  <2>5. Range(r) = { i \in Range(q) : i.time >= oldest }
    <3>1. Range(q) = { q[k] : k \in 1..Len(q) }
      BY DEF Range
    <3>2. \A k \in (n + 1)..Len(q) : k \in 1..Len(q)
      BY <1>1
    <3>. QED BY <1>3, <2>3, <2>4, <3>1, <3>2
  <2>. QED BY <1>4, <1>6, <2>5 DEF CleanedItems, r
<1>. QED BY <1>5, <1>6

LEMMA InitialItems == ASSUME Init PROVE Range(mDeque) = CleanedItems(stored)
<1>1. PICK loaded \in Backfills : \E q \in Sortings(loaded) : \E n \in Pops(q, oldest) :
          mDeque = PopFront(q, n) /\ stored = Range(loaded)
  BY DEF Init
<1>2. PICK q \in Sortings(loaded) : \E n \in Pops(q, oldest) : mDeque = PopFront(q, n)
  BY <1>1
<1>3. PICK n \in Pops(q, oldest) : mDeque = PopFront(q, n)
  BY <1>2
<1>4. q \in Seq(Item) /\ Sorted(q) /\ IsInjective(q) /\ Range(q) = Range(loaded)
  BY BackfillAssumption, SortingsProperties
<1>5. oldest \in Int
  BY TypeInit DEF TypeOK
<1>. QED BY <1>1, <1>3, <1>4, <1>5, PoppedItems

\* A step changes the items as Broker's actions do.
ItemsStep ==
    /\ CleanDeque => Range(mDeque') = CleanedItems(Range(mDeque))
    /\ Insert => item \notin Range(mDeque) /\ Range(mDeque') = Range(mDeque) \cup {item}
    /\ CleanDeque \/ Insert \/ mDeque' = mDeque

\* cleanDeque and enqueue: Broker's store, a set that the cutoff divides and to which
\* an item is added, is the deque, whatever the clock, the sort and the order of
\* equal times do; and it starts as the constructor leaves it.
THEOREM StoreIsItsItems ==
    Spec => Range(mDeque) = CleanedItems(stored) /\ [][ItemsStep]_vars
<1>1. Init => TypeOK /\ DequeInv /\ Range(mDeque) = CleanedItems(stored)
  BY TypeInit, DequeInit, InitialItems
<1>2. TypeOK /\ DequeInv /\ [Next]_vars => (TypeOK /\ DequeInv)'
  BY TypeNext, DequeNext
<1>3. ASSUME TypeOK, DequeInv, [Next]_vars PROVE [ItemsStep]_vars
  <2>1. ASSUME CleanDeque PROVE Range(mDeque') = CleanedItems(Range(mDeque))
    <3>1. PICK n \in Pops(mDeque, oldest) : mDeque' = PopFront(mDeque, n)
      BY <2>1 DEF CleanDeque
    <3>. QED BY <1>3, <3>1, PoppedItems DEF TypeOK, DequeInv, DequeSorted
  <2>2. ASSUME Insert
        PROVE  item \notin Range(mDeque) /\ Range(mDeque') = Range(mDeque) \cup {item}
    <3>1. pc = "insert" /\ mDeque' \in WithItem
      BY <2>2 DEF Insert
    <3>. QED BY <1>3, <3>1, WithItemProperties
             DEF TypeOK, DequeInv, DequeStored, ItemInFlightIsNew
  <2>3. CleanDeque \/ Insert \/ mDeque' = mDeque \/ UNCHANGED vars
    BY <1>3 DEF Next, Tick, StepBack, Receive, DateRetention, Subscribe, SubscribeSince,
                Unsubscribe, SetCursor, GetPicks
  <2>. QED BY <2>1, <2>2, <2>3 DEF ItemsStep
<1>. QED BY <1>1, <1>2, <1>3, PTL DEF Spec
=============================================================================
