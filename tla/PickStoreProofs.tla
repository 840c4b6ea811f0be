--------------------------- MODULE PickStoreProofs --------------------------
(***************************************************************************)
(* Theorems about PickStore, for every value of its constants.             *)
(***************************************************************************)
EXTENDS PickStore, FiniteSetTheorems, SequenceTheorems, TLAPS

LEMMA PopFrontProperties ==
    ASSUME NEW S, NEW q \in Seq(S), NEW n \in 0..Len(q)
    PROVE  /\ PopFront(q, n) \in Seq(S)
           /\ Len(PopFront(q, n)) = Len(q) - n
           /\ \A k \in 1..(Len(q) - n) : PopFront(q, n)[k] = q[n + k]
  BY DEF PopFront

LEMMA SortingsProperties ==
    ASSUME NEW q \in Seq(Item), NEW r \in Sortings(q)
    PROVE  /\ r \in Seq(Item)
           /\ Len(r) = Len(q)
           /\ Sorted(r)
           /\ Range(r) = Range(q)
           /\ IsInjective(q) => IsInjective(r)
<1>1. PICK b \in Bijection(1..Len(q), 1..Len(q)) : r = [k \in 1..Len(q) |-> q[b[k]]]
  BY DEF Sortings, Arrangements
<1>2. b \in [1..Len(q) -> 1..Len(q)]
  BY DEF Bijection, Injection
<1>3. r \in [1..Len(q) -> Item]
  BY <1>1, <1>2
<1>4. r \in Seq(Item) /\ Len(r) = Len(q)
  BY <1>3
<1>5. Sorted(r)
  BY DEF Sortings
<1>6. Range(r) = Range(q)
  <2>1. Range(r) \subseteq Range(q)
    BY <1>1, <1>2 DEF Range
  <2>2. \A k \in 1..Len(q) : \E j \in 1..Len(q) : b[j] = k
    BY DEF Bijection, Surjection
  <2>3. ASSUME NEW k \in 1..Len(q) PROVE q[k] \in Range(r)
    <3>1. PICK j \in 1..Len(q) : b[j] = k
      BY <2>2
    <3>2. j \in DOMAIN r /\ r[j] = q[k]
      BY <1>1, <3>1
    <3>. QED BY <3>2 DEF Range
  <2>4. Range(q) \subseteq Range(r)
    BY <2>3, DOMAIN q = 1..Len(q) DEF Range
  <2>. QED BY <2>1, <2>4
<1>7. IsInjective(q) => IsInjective(r)
  BY <1>1, <1>2 DEF Bijection, Injection, IsInjective
<1>. QED BY <1>4, <1>5, <1>6, <1>7

LEMMA PopsInRange ==
    ASSUME NEW q \in Seq(Item), NEW o, NEW n \in Pops(q, o)
    PROVE  n \in 0..Len(q)
<1>1. Len(q) \in Nat
  OBVIOUS
<1>. QED BY <1>1 DEF Pops

\* What Insert does to the deque, sorted or not.
LEMMA WithItemProperties ==
    ASSUME mDeque \in Seq(Item), item \in Item, NEW r \in WithItem
    PROVE  /\ r \in Seq(Item)
           /\ Len(r) = Len(mDeque) + 1
           /\ DequeSorted => Sorted(r)
           /\ Range(r) = Range(mDeque) \cup {item}
           /\ IsInjective(mDeque) /\ item \notin Range(mDeque) => IsInjective(r)
<1>. DEFINE q == Append(mDeque, item)
<1>1. /\ q \in Seq(Item)
      /\ Len(q) = Len(mDeque) + 1
      /\ \A k \in 1..Len(mDeque) : q[k] = mDeque[k]
      /\ q[Len(mDeque) + 1] = item
      /\ DOMAIN q = 1..(Len(mDeque) + 1)
  OBVIOUS
<1>2. Range(q) = Range(mDeque) \cup {item}
  <2>1. Range(q) \subseteq Range(mDeque) \cup {item}
    BY <1>1 DEF Range
  <2>2. Range(mDeque) \subseteq Range(q)
    <3>1. ASSUME NEW k \in 1..Len(mDeque) PROVE mDeque[k] \in Range(q)
      BY <1>1, k \in DOMAIN q, q[k] = mDeque[k] DEF Range
    <3>. QED BY <3>1 DEF Range
  <2>3. item \in Range(q)
    BY <1>1, Len(mDeque) + 1 \in DOMAIN q DEF Range
  <2>. QED BY <2>1, <2>2, <2>3
<1>3. IsInjective(mDeque) /\ item \notin Range(mDeque) => IsInjective(q)
  BY <1>1 DEF IsInjective, Range
<1>4. CASE mDeque # <<>> /\ mDeque[Len(mDeque)].time > item.time
  <2>1. r \in Sortings(q)
    BY <1>4 DEF WithItem
  <2>. HIDE DEF q
  <2>. QED BY <1>1, <1>2, <1>3, <2>1, SortingsProperties
<1>5. CASE ~(mDeque # <<>> /\ mDeque[Len(mDeque)].time > item.time)
  <2>1. r = q
    BY <1>5 DEF WithItem
  <2>2. DequeSorted => Sorted(q)
    <3>. SUFFICES ASSUME DequeSorted, NEW j \in DOMAIN q, NEW k \in DOMAIN q, j < k
                  PROVE  q[j].time <= q[k].time
      BY DEF Sorted
    <3>1. CASE k <= Len(mDeque)
      BY <1>1, <3>1 DEF DequeSorted, Sorted
    <3>2. CASE k = Len(mDeque) + 1
      <4>1. /\ j \in 1..Len(mDeque) /\ mDeque # <<>>
            /\ q[j] = mDeque[j] /\ q[k] = item
        BY <1>1, <3>2
      <4>2. mDeque[j].time <= mDeque[Len(mDeque)].time
        <5>1. mDeque[j] \in Item /\ Len(mDeque) \in DOMAIN mDeque
          BY <4>1
        <5>2. mDeque[j].time \in Int
          BY <5>1 DEF Item, Time
        <5>3. CASE j = Len(mDeque)
          BY <5>2, <5>3
        <5>4. CASE j < Len(mDeque)
          BY <4>1, <5>1, <5>4 DEF DequeSorted, Sorted
        <5>. QED BY <4>1, <5>3, <5>4
      <4>3. mDeque[Len(mDeque)].time <= item.time
        <5>1. mDeque[Len(mDeque)] \in Item
          BY <4>1
        <5>. QED BY <1>5, <4>1, <5>1 DEF Item, Time
      <4>4. mDeque[j] \in Item /\ mDeque[Len(mDeque)] \in Item
        BY <4>1
      <4>. QED BY <4>1, <4>2, <4>3, <4>4 DEF Item, Time
    <3>. QED BY <1>1, <3>1, <3>2
  <2>. QED BY <1>1, <1>2, <1>3, <2>1, <2>2
<1>. QED BY <1>4, <1>5

-----------------------------------------------------------------------------
(* Type correctness.                                                       *)

LEMMA InitialDeque ==
    ASSUME Init
    PROVE  /\ mDeque \in Seq(Item)
           /\ stored \subseteq Item
           /\ Range(mDeque) \subseteq stored
           /\ DequeSorted
           /\ IsInjective(mDeque)
<1>1. PICK loaded \in Backfills : \E q \in Sortings(loaded) : \E n \in Pops(q, oldest) :
          mDeque = PopFront(q, n) /\ stored = Range(loaded)
  BY DEF Init
<1>2. PICK q \in Sortings(loaded) : \E n \in Pops(q, oldest) :
          mDeque = PopFront(q, n) /\ stored = Range(loaded)
  BY <1>1
<1>3. PICK n \in Pops(q, oldest) : mDeque = PopFront(q, n) /\ stored = Range(loaded)
  BY <1>2
<1>4. loaded \in Seq(Item) /\ IsInjective(loaded)
  BY BackfillAssumption
<1>5. /\ q \in Seq(Item) /\ Sorted(q) /\ IsInjective(q)
      /\ Range(q) = Range(loaded)
  BY <1>4, SortingsProperties
<1>6. n \in 0..Len(q)
  BY <1>5, PopsInRange
<1>7. /\ mDeque \in Seq(Item) /\ Len(mDeque) = Len(q) - n
      /\ \A k \in 1..(Len(q) - n) : mDeque[k] = q[n + k]
  BY <1>3, <1>5, <1>6, PopFrontProperties
<1>8. stored \subseteq Item
  BY <1>3, <1>4 DEF Range
<1>9. \A k \in DOMAIN mDeque : n + k \in DOMAIN q /\ mDeque[k] = q[n + k] /\ k \in Int
  BY <1>5, <1>6, <1>7
<1>10. Range(mDeque) \subseteq stored
  BY <1>3, <1>5, <1>9 DEF Range
<1>11. DequeSorted
  BY <1>5, <1>6, <1>9 DEF DequeSorted, Sorted
<1>12. IsInjective(mDeque)
  BY <1>5, <1>6, <1>9 DEF IsInjective
<1>. QED BY <1>7, <1>8, <1>10, <1>11, <1>12

\* The batch getPicks returns: it exists in the deque, is in ascending order,
\* and its elements are at or past the cursor.
LEMMA ScannedProperties ==
    ASSUME TypeOK, NEW s \in Subscribers, Scanned(s) # {}, NEW f \in Ascending(Scanned(s))
    PROVE  /\ Cardinality(Scanned(s)) \in Nat \ {0}
           /\ f \in [1..Cardinality(Scanned(s)) -> DOMAIN mDeque]
           /\ f \in Seq(DOMAIN mDeque)
           /\ Len(f) = Cardinality(Scanned(s))
           /\ \A k \in 1..Len(f) : mDeque[f[k]] \in Item
           /\ \A k \in 1..Len(f) : mDeque[f[k]].time >= mCursorMap[s]
           /\ \A j, k \in 1..Len(f) : j < k => f[j] < f[k]
<1>1. Scanned(s) \subseteq 1..Len(mDeque)
  BY DEF Scanned, Pending, TypeOK
<1>2. IsFiniteSet(Scanned(s)) /\ Cardinality(Scanned(s)) \in Nat
  <2>1. Len(mDeque) \in Nat
    BY DEF TypeOK
  <2>2. IsFiniteSet(1..Len(mDeque))
    BY <2>1, FS_Interval
  <2>3. IsFiniteSet(Scanned(s))
    BY <1>1, <2>2, FS_Subset
  <2>. QED BY <2>3, FS_CardinalityType
<1>3. Cardinality(Scanned(s)) # 0
  BY <1>2, FS_EmptySet
<1>4. f \in [1..Cardinality(Scanned(s)) -> Scanned(s)]
  BY DEF Ascending
<1>5. f \in Seq(DOMAIN mDeque) /\ Len(f) = Cardinality(Scanned(s))
  <2>1. f \in [1..Cardinality(Scanned(s)) -> DOMAIN mDeque]
    BY <1>1, <1>4 DEF TypeOK
  <2>. HIDE DEF Ascending
  <2>2. f \in Seq(DOMAIN mDeque)
    BY <1>2, <2>1, IsASeq
  <2>. QED BY <1>2, <2>1, <2>2
<1>6. \A k \in 1..Len(f) : f[k] \in Scanned(s)
  BY <1>4, <1>5
<1>7. \A k \in 1..Len(f) : mDeque[f[k]] \in Item
  BY <1>1, <1>6 DEF TypeOK
<1>8. \A k \in 1..Len(f) : mDeque[f[k]].time >= mCursorMap[s]
  BY <1>6 DEF Scanned, Pending
<1>9. \A j, k \in 1..Len(f) : j < k => f[j] < f[k]
  BY <1>4, <1>5 DEF Ascending
<1>. QED BY <1>1, <1>2, <1>3, <1>4, <1>5, <1>7, <1>8, <1>9 DEF TypeOK

LEMMA TypeInit == Init => TypeOK
<1>. SUFFICES ASSUME Init PROVE TypeOK
  OBVIOUS
<1>1. mDeque \in Seq(Item) /\ stored \subseteq Item
  BY InitialDeque
<1>2. clock \in Time /\ oldest \in Int
  BY StoreAssumption DEF Init, Time
<1>3. item \in Item
  BY StoreAssumption, BackfillAssumption DEF Init, Item, Time
<1>4. 0 \in Time
  BY StoreAssumption DEF Time
<1>. QED BY <1>1, <1>2, <1>3, <1>4 DEF Init, TypeOK

LEMMA TypeNext == TypeOK /\ [Next]_vars => TypeOK'
<1>. SUFFICES ASSUME TypeOK, [Next]_vars PROVE TypeOK'
  OBVIOUS
<1>. USE StoreAssumption
<1>1. CASE Tick
  BY <1>1 DEF Tick, TypeOK, enqueueVars, historyVars, Time
<1>2. CASE StepBack
  BY <1>2 DEF StepBack, TypeOK, enqueueVars, historyVars
<1>3. ASSUME NEW p \in Picks, Receive(p) PROVE TypeOK'
  <2>1. clock \in Time /\ clock' \in Time
    BY <1>3 DEF Receive, TypeOK, Time
  <2>2. item' \in Item
    BY <1>3, <2>1 DEF Receive, Item
  <2>. QED BY <1>3, <2>1, <2>2 DEF Receive, TypeOK, historyVars
<1>4. CASE DateRetention
  BY <1>4 DEF DateRetention, TypeOK, historyVars, Time
<1>5. CASE CleanDeque
  <2>1. PICK n \in Pops(mDeque, oldest) : mDeque' = PopFront(mDeque, n)
    BY <1>5 DEF CleanDeque
  <2>2. mDeque' \in Seq(Item)
    BY <2>1, PopsInRange, PopFrontProperties DEF TypeOK
  <2>. QED BY <1>5, <2>2 DEF CleanDeque, TypeOK, historyVars
<1>6. CASE Insert
  <2>1. mDeque' \in Seq(Item) /\ mDeque'[Len(mDeque')] \in Item
    BY <1>6, WithItemProperties DEF Insert, TypeOK
  <2>2. mDeque'[Len(mDeque')].time \in Time
    BY <2>1 DEF Item
  <2>3. mCursorMap' \in [Subscribers -> 0..(ClockBound + 1) \cup {NoCursor, MaxTime}]
    BY <1>6, <2>2 DEF Insert, TypeOK, FirstCursor, Time
  <2>4. owed' \in [Subscribers -> SUBSET Item]
    BY <1>6 DEF Insert, TypeOK
  <2>. QED BY <1>6, <2>1, <2>3, <2>4 DEF Insert, TypeOK
<1>7. ASSUME NEW s \in Subscribers, Subscribe(s) PROVE TypeOK'
  BY <1>7 DEF Subscribe, SetCursor, TypeOK, enqueueVars, Time
<1>8. ASSUME NEW s \in Subscribers, NEW t \in Time, SubscribeSince(s, t) PROVE TypeOK'
  <2>1. { i \in Range(mDeque) : i.time >= t } \subseteq Item
    BY DEF Range, TypeOK
  <2>2. t \in 0..(ClockBound + 1)
    BY DEF Time
  <2>. QED BY <1>8, <2>1, <2>2 DEF SubscribeSince, SetCursor, TypeOK, enqueueVars
<1>9. ASSUME NEW s \in Subscribers, Unsubscribe(s) PROVE TypeOK'
  BY <1>9 DEF Unsubscribe, SetCursor, TypeOK, enqueueVars, Time
<1>10. ASSUME NEW s \in Subscribers, GetPicks(s) PROVE TypeOK'
  <2>. PICK f \in Ascending(Scanned(s)) :
          LET result == [k \in 1..Len(f) |-> mDeque[f[k]]] IN
          /\ delivered' = [delivered EXCEPT ![s] = @ \o result]
          /\ mCursorMap' = [mCursorMap EXCEPT
                              ![s] = CursorAfter(result[Len(result)].time)]
    BY <1>10 DEF GetPicks
  <2>. DEFINE result == [k \in 1..Len(f) |-> mDeque[f[k]]]
  <2>1. /\ Len(f) \in Nat \ {0}
        /\ \A k \in 1..Len(f) : mDeque[f[k]] \in Item
    BY <1>10, ScannedProperties DEF GetPicks
  <2>2. result \in Seq(Item) /\ Len(result) = Len(f) /\ result[Len(result)] \in Item
    BY <2>1
  <2>3. CursorAfter(result[Len(result)].time) \in 0..(ClockBound + 1)
    BY <2>2 DEF CursorAfter, Item, Time
  <2>4. delivered[s] \o result \in Seq(Item)
    BY <2>2 DEF TypeOK
  <2>. HIDE DEF result
  <2>5. /\ delivered' = [delivered EXCEPT ![s] = delivered[s] \o result]
        /\ mCursorMap' = [mCursorMap EXCEPT ![s] = CursorAfter(result[Len(result)].time)]
    BY DEF result
  <2>6. delivered' \in [Subscribers -> Seq(Item)]
    BY <2>4, <2>5 DEF TypeOK
  <2>7. mCursorMap' \in [Subscribers -> 0..(ClockBound + 1) \cup {NoCursor, MaxTime}]
    BY <2>3, <2>5 DEF TypeOK
  <2>. QED BY <1>10, <2>6, <2>7 DEF GetPicks, TypeOK, enqueueVars
<1>11. CASE UNCHANGED vars
  BY <1>11 DEF vars, enqueueVars, historyVars, TypeOK
<1>. QED
  BY <1>1, <1>2, <1>3, <1>4, <1>5, <1>6, <1>7, <1>8, <1>9, <1>10, <1>11 DEF Next

\* Every variable keeps its type, whatever the constants: in particular a cursor
\* is never past the instant after the last receipt, so that it is not mistaken
\* for MAX_TIME.
THEOREM TypeCorrect == Spec => []TypeOK
<1>. QED BY TypeInit, TypeNext, PTL DEF Spec

-----------------------------------------------------------------------------
(* DeliveredInOrder and what it rests on: the deque is sorted and holds no *)
(* item twice, because the pick in flight is not stored yet; and what a    *)
(* subscription has read lies below its cursor.                            *)

DequeStored == Range(mDeque) \subseteq stored

ItemInFlightIsNew == pc # "idle" => item \notin stored

DequeInv == DequeSorted /\ IsInjective(mDeque) /\ DequeStored /\ ItemInFlightIsNew

ReadBelowCursor ==
    \A s \in Subscribers : delivered[s] # <<>> =>
        /\ mCursorMap[s] # MaxTime
        /\ \A k \in DOMAIN delivered[s] : delivered[s][k].time < mCursorMap[s]

\* Purging a prefix disturbs none of it.
LEMMA PurgeKeepsDeque ==
    ASSUME TypeOK, DequeInv, CleanDeque
    PROVE  DequeSorted' /\ IsInjective(mDeque)' /\ Range(mDeque') \subseteq Range(mDeque)
<1>1. PICK n \in Pops(mDeque, oldest) : mDeque' = PopFront(mDeque, n)
  BY DEF CleanDeque
<1>2. /\ n \in 0..Len(mDeque)
      /\ mDeque' \in Seq(Item) /\ Len(mDeque') = Len(mDeque) - n
      /\ \A k \in 1..(Len(mDeque) - n) : mDeque'[k] = mDeque[n + k]
  BY <1>1, PopsInRange, PopFrontProperties DEF TypeOK
<1>3. \A k \in DOMAIN mDeque' : n + k \in DOMAIN mDeque /\ mDeque'[k] = mDeque[n + k] /\ k \in Int
  <2>1. mDeque \in Seq(Item)
    BY DEF TypeOK
  <2>2. DOMAIN mDeque' = 1..(Len(mDeque) - n) /\ DOMAIN mDeque = 1..Len(mDeque)
    BY <1>2, <2>1
  <2>3. Len(mDeque) \in Nat
    BY <2>1
  <2>4. ASSUME NEW k \in 1..(Len(mDeque) - n) PROVE n + k \in 1..Len(mDeque) /\ k \in Int
    BY <1>2, <2>3
  <2>. QED BY <1>2, <2>2, <2>4
<1>4. DequeSorted'
  <2>. SUFFICES ASSUME NEW j \in DOMAIN mDeque', NEW k \in DOMAIN mDeque', j < k
                PROVE  mDeque'[j].time <= mDeque'[k].time
    BY DEF DequeSorted, Sorted
  <2>1. n + j < n + k
    BY <1>2, <1>3
  <2>. QED BY <1>3, <2>1 DEF DequeInv, DequeSorted, Sorted
<1>5. IsInjective(mDeque)'
  BY <1>2, <1>3 DEF DequeInv, IsInjective
<1>6. Range(mDeque') \subseteq Range(mDeque)
  BY <1>3 DEF Range
<1>. QED BY <1>4, <1>5, <1>6

LEMMA DequeNext == TypeOK /\ DequeInv /\ [Next]_vars => DequeInv'
<1>. SUFFICES ASSUME TypeOK, DequeInv, [Next]_vars PROVE DequeInv'
  OBVIOUS
<1>1. ASSUME UNCHANGED <<pc, item, mDeque, stored>> PROVE DequeInv'
  BY <1>1 DEF DequeInv, DequeSorted, DequeStored, ItemInFlightIsNew
<1>2. CASE Tick
  BY <1>1, <1>2 DEF Tick, enqueueVars
<1>3. CASE StepBack
  BY <1>1, <1>3 DEF StepBack, enqueueVars
<1>4. ASSUME NEW p \in Picks, Receive(p) PROVE DequeInv'
  <2>1. item' \notin stored
    BY <1>4 DEF Receive
  <2>. QED BY <1>4, <2>1 DEF Receive, DequeInv, DequeSorted, DequeStored, ItemInFlightIsNew
<1>5. CASE DateRetention
  BY <1>5 DEF DateRetention, DequeInv, DequeSorted, DequeStored, ItemInFlightIsNew
<1>6. CASE CleanDeque
  BY <1>6, PurgeKeepsDeque DEF CleanDeque, DequeInv, DequeStored, ItemInFlightIsNew
<1>7. CASE Insert
  <2>1. item \notin Range(mDeque)
    BY <1>7 DEF Insert, DequeInv, DequeStored, ItemInFlightIsNew
  <2>2. /\ Sorted(mDeque') /\ IsInjective(mDeque')
        /\ Range(mDeque') = Range(mDeque) \cup {item}
    BY <1>7, <2>1, WithItemProperties DEF Insert, TypeOK, DequeInv
  <2>. QED BY <1>7, <2>2 DEF Insert, DequeInv, DequeSorted, DequeStored, ItemInFlightIsNew
<1>8. ASSUME NEW s \in Subscribers, NEW c, NEW t, NEW b, SetCursor(s, c, t, b) PROVE DequeInv'
  BY <1>1, <1>8 DEF SetCursor, enqueueVars
<1>9. ASSUME NEW s \in Subscribers, GetPicks(s) PROVE DequeInv'
  BY <1>1, <1>9 DEF GetPicks, enqueueVars
<1>10. CASE UNCHANGED vars
  BY <1>1, <1>10 DEF vars, enqueueVars
<1>. QED
  BY <1>2, <1>3, <1>4, <1>5, <1>6, <1>7, <1>8, <1>9, <1>10
  DEF Next, Subscribe, SubscribeSince, Unsubscribe

LEMMA DequeInit == Init => DequeInv
  BY InitialDeque DEF Init, DequeInv, DequeStored, ItemInFlightIsNew

\* The deque is ordered by receipt time however the clock is set back.
THEOREM DequeIsSorted == Spec => []DequeSorted
<1>1. Init => TypeOK /\ DequeInv
  BY TypeInit, DequeInit
<1>2. TypeOK /\ DequeInv /\ [Next]_vars => (TypeOK /\ DequeInv)'
  BY TypeNext, DequeNext
<1>3. DequeInv => DequeSorted
  BY DEF DequeInv
<1>. QED BY <1>1, <1>2, <1>3, PTL DEF Spec

\* A batch read by getPicks: sorted, without repetition, at or past the cursor,
\* and the cursor ends up just past all of it.
LEMMA GetPicksProperties ==
    ASSUME TypeOK, DequeInv, NEW s \in Subscribers, GetPicks(s)
    PROVE  \E result \in Seq(Item) :
              /\ Len(result) \in Nat \ {0}
              /\ delivered' = [delivered EXCEPT ![s] = delivered[s] \o result]
              /\ mCursorMap' = [mCursorMap EXCEPT ![s] = result[Len(result)].time + 1]
              /\ \A k \in DOMAIN result : result[k].time >= mCursorMap[s]
              /\ \A k \in DOMAIN result : result[k].time <= result[Len(result)].time
              /\ Sorted(result)
              /\ IsInjective(result)
<1>1. PICK f \in Ascending(Scanned(s)) :
          LET result == [k \in 1..Len(f) |-> mDeque[f[k]]] IN
          /\ delivered' = [delivered EXCEPT ![s] = @ \o result]
          /\ mCursorMap' = [mCursorMap EXCEPT
                              ![s] = CursorAfter(result[Len(result)].time)]
  BY DEF GetPicks
<1>. DEFINE result == [k \in 1..Len(f) |-> mDeque[f[k]]]
<1>2. /\ Len(f) \in Nat \ {0}
      /\ \A k \in 1..Len(f) : f[k] \in DOMAIN mDeque /\ mDeque[f[k]] \in Item
      /\ \A k \in 1..Len(f) : mDeque[f[k]].time >= mCursorMap[s]
      /\ \A j, k \in 1..Len(f) : j < k => f[j] < f[k]
  BY ScannedProperties DEF GetPicks
<1>3. result \in Seq(Item) /\ Len(result) = Len(f) /\ DOMAIN result = 1..Len(f)
  BY <1>2
<1>4. \A k \in DOMAIN result : result[k] = mDeque[f[k]] /\ k \in Int
  BY <1>3
<1>5. DOMAIN mDeque \subseteq Int
  BY DEF TypeOK
<1>6. Sorted(result)
  BY <1>2, <1>3, <1>4 DEF DequeInv, DequeSorted, Sorted
<1>7. IsInjective(result)
  <2>. SUFFICES ASSUME NEW j \in DOMAIN result, NEW k \in DOMAIN result,
                       result[j] = result[k]
                PROVE  j = k
    BY DEF IsInjective
  <2>1. f[j] = f[k]
    BY <1>2, <1>3, <1>4 DEF DequeInv, IsInjective
  <2>2. f[j] \in Int /\ j \in Int /\ k \in Int
    BY <1>2, <1>3, <1>4, <1>5
  <2>. QED BY <1>2, <1>3, <2>1, <2>2
<1>8. \A k \in DOMAIN result : result[k].time <= result[Len(result)].time
  <2>. SUFFICES ASSUME NEW k \in DOMAIN result
                PROVE  result[k].time <= result[Len(result)].time
    OBVIOUS
  <2>1. Len(result) \in DOMAIN result /\ result[k] \in Item
    BY <1>2, <1>3
  <2>2. result[k].time \in Int
    BY <2>1 DEF Item, Time
  <2>3. CASE k = Len(result)
    BY <2>2, <2>3
  <2>4. CASE k < Len(result)
    BY <1>6, <2>1, <2>4 DEF Sorted
  <2>. QED BY <1>2, <1>3, <2>3, <2>4
<1>9. \A k \in DOMAIN result : result[k].time >= mCursorMap[s]
  BY <1>2, <1>3, <1>4
<1>10. /\ delivered' = [delivered EXCEPT ![s] = delivered[s] \o result]
       /\ mCursorMap' = [mCursorMap EXCEPT ![s] = result[Len(result)].time + 1]
  BY <1>1 DEF CursorAfter
<1>11. Len(result) \in Nat \ {0} /\ result \in Seq(Item)
  BY <1>2, <1>3
<1>. HIDE DEF result
<1>. QED BY <1>6, <1>7, <1>8, <1>9, <1>10, <1>11

OrderInv == ReadBelowCursor /\ DeliveredInOrder

\* What follows what is already below the cursor: a subscription extended by a
\* batch at or past the cursor is still ordered and without repetition.
LEMMA ExtendInOrder ==
    ASSUME NEW d \in Seq(Item), NEW r \in Seq(Item), NEW c \in Int,
           \A k \in DOMAIN d : d[k].time < c,
           \A k \in DOMAIN r : r[k].time >= c,
           Sorted(d), Sorted(r), IsInjective(d), IsInjective(r)
    PROVE  Sorted(d \o r) /\ IsInjective(d \o r)
<1>. DEFINE q == d \o r
<1>1. /\ DOMAIN q = 1..(Len(d) + Len(r))
      /\ Len(d) \in Nat /\ Len(r) \in Nat
      /\ DOMAIN d = 1..Len(d) /\ DOMAIN r = 1..Len(r)
      /\ \A k \in 1..Len(d) : q[k] = d[k]
      /\ \A k \in (Len(d) + 1)..(Len(d) + Len(r)) : q[k] = r[k - Len(d)]
  OBVIOUS
<1>2. /\ \A k \in DOMAIN d : d[k].time \in Int
      /\ \A k \in DOMAIN r : r[k].time \in Int
  <2>1. /\ \A k \in DOMAIN d : d[k] \in Item
        /\ \A k \in DOMAIN r : r[k] \in Item
    BY <1>1
  <2>. QED BY <2>1 DEF Item, Time
<1>. HIDE DEF q
<1>3. \A k \in DOMAIN q : \/ k \in DOMAIN d /\ q[k] = d[k] /\ q[k].time < c
                          \/ /\ k - Len(d) \in DOMAIN r
                             /\ q[k] = r[k - Len(d)] /\ q[k].time >= c
  BY <1>1
<1>4. Sorted(q)
  <2>. SUFFICES ASSUME NEW j \in DOMAIN q, NEW k \in DOMAIN q, j < k
                PROVE  q[j].time <= q[k].time
    BY DEF Sorted
  <2>1. CASE k \in DOMAIN d
    BY <1>1, <2>1 DEF Sorted
  <2>2. CASE j \in DOMAIN d /\ k \notin DOMAIN d
    BY <1>1, <1>2, <1>3, <2>2
  <2>3. CASE j \notin DOMAIN d
    <3>1. /\ j - Len(d) \in DOMAIN r /\ k - Len(d) \in DOMAIN r
          /\ j - Len(d) < k - Len(d)
          /\ q[j] = r[j - Len(d)] /\ q[k] = r[k - Len(d)]
      BY <1>1, <2>3
    <3>. QED BY <3>1 DEF Sorted
  <2>. QED BY <2>1, <2>2, <2>3
<1>5. IsInjective(q)
  <2>. SUFFICES ASSUME NEW j \in DOMAIN q, NEW k \in DOMAIN q, q[j] = q[k]
                PROVE  j = k
    BY DEF IsInjective
  <2>1. CASE j \in DOMAIN d /\ k \in DOMAIN d
    BY <1>1, <2>1 DEF IsInjective
  <2>2. CASE j \notin DOMAIN d /\ k \notin DOMAIN d
    <3>1. /\ j - Len(d) \in DOMAIN r /\ k - Len(d) \in DOMAIN r
          /\ q[j] = r[j - Len(d)] /\ q[k] = r[k - Len(d)]
          /\ j \in Int /\ k \in Int
      BY <1>1, <2>2
    <3>2. j - Len(d) = k - Len(d)
      BY <3>1 DEF IsInjective
    <3>. QED BY <1>1, <3>1, <3>2
  <2>3. ASSUME j \in DOMAIN d, k \notin DOMAIN d PROVE FALSE
    <3>1. q[j].time < c /\ q[k].time >= c /\ q[j].time \in Int
      BY <1>1, <1>2, <1>3, <2>3
    <3>. QED BY <3>1
  <2>4. ASSUME j \notin DOMAIN d, k \in DOMAIN d PROVE FALSE
    <3>1. q[k].time < c /\ q[j].time >= c /\ q[k].time \in Int
      BY <1>1, <1>2, <1>3, <2>4
    <3>. QED BY <3>1
  <2>. QED BY <2>1, <2>2, <2>3, <2>4
<1>. QED BY <1>4, <1>5 DEF q

LEMMA OrderNext == TypeOK /\ DequeInv /\ OrderInv /\ [Next]_vars => OrderInv'
<1>. SUFFICES ASSUME TypeOK, DequeInv, OrderInv, [Next]_vars PROVE OrderInv'
  OBVIOUS
<1>1. ASSUME UNCHANGED <<mCursorMap, delivered>> PROVE OrderInv'
  BY <1>1 DEF OrderInv, ReadBelowCursor, DeliveredInOrder
<1>2. CASE Tick \/ StepBack \/ DateRetention \/ CleanDeque \/ UNCHANGED vars
  BY <1>1, <1>2 DEF Tick, StepBack, DateRetention, CleanDeque, vars, historyVars
<1>3. ASSUME NEW p \in Picks, Receive(p) PROVE OrderInv'
  BY <1>1, <1>3 DEF Receive, historyVars
<1>4. CASE Insert
  <2>1. \A s \in Subscribers : delivered'[s] # <<>> => mCursorMap'[s] = mCursorMap[s]
    BY <1>4 DEF Insert, OrderInv, ReadBelowCursor, FirstCursor
  <2>. QED BY <1>4, <2>1 DEF Insert, OrderInv, ReadBelowCursor, DeliveredInOrder
<1>5. ASSUME NEW s \in Subscribers, NEW c, NEW t, NEW b, SetCursor(s, c, t, b) PROVE OrderInv'
  <2>1. /\ delivered'[s] = <<>>
        /\ \A u \in Subscribers \ {s} : delivered'[u] = delivered[u] /\ mCursorMap'[u] = mCursorMap[u]
    BY <1>5 DEF SetCursor, TypeOK
  <2>2. Sorted(<<>>) /\ IsInjective(<<>>)
    BY DEF Sorted, IsInjective
  <2>3. ReadBelowCursor'
    BY <2>1 DEF OrderInv, ReadBelowCursor
  <2>4. DeliveredInOrder'
    BY <2>1, <2>2 DEF OrderInv, DeliveredInOrder
  <2>. QED BY <2>3, <2>4 DEF OrderInv
<1>6. ASSUME NEW s \in Subscribers, GetPicks(s) PROVE OrderInv'
  <2>1. PICK result \in Seq(Item) :
              /\ Len(result) \in Nat \ {0}
              /\ delivered' = [delivered EXCEPT ![s] = delivered[s] \o result]
              /\ mCursorMap' = [mCursorMap EXCEPT ![s] = result[Len(result)].time + 1]
              /\ \A k \in DOMAIN result : result[k].time >= mCursorMap[s]
              /\ \A k \in DOMAIN result : result[k].time <= result[Len(result)].time
              /\ Sorted(result)
              /\ IsInjective(result)
    BY <1>6, GetPicksProperties
  <2>. DEFINE last == result[Len(result)].time
  <2>2. /\ delivered[s] \in Seq(Item)
        /\ mCursorMap[s] \in Int
        /\ \A k \in DOMAIN delivered[s] : delivered[s][k].time < mCursorMap[s]
        /\ Sorted(delivered[s]) /\ IsInjective(delivered[s])
    <3>1. mCursorMap[s] \in Int
      <4>1. mCursorMap[s] \in 0..(ClockBound + 1) \cup {NoCursor, MaxTime}
        BY DEF TypeOK
      <4>. QED BY <4>1, StoreAssumption DEF NoCursor
    <3>2. \A k \in DOMAIN delivered[s] : delivered[s][k].time < mCursorMap[s]
      <4>1. CASE delivered[s] = <<>>
        BY <4>1
      <4>2. CASE delivered[s] # <<>>
        BY <4>2 DEF OrderInv, ReadBelowCursor
      <4>. QED BY <4>1, <4>2
    <3>. QED BY <3>1, <3>2 DEF TypeOK, OrderInv, DeliveredInOrder
  <2>3. Sorted(delivered[s] \o result) /\ IsInjective(delivered[s] \o result)
    BY <2>1, <2>2, ExtendInOrder
  <2>4. /\ delivered'[s] = delivered[s] \o result /\ mCursorMap'[s] = last + 1
        /\ \A u \in Subscribers \ {s} : delivered'[u] = delivered[u] /\ mCursorMap'[u] = mCursorMap[u]
    BY <2>1 DEF TypeOK
  <2>5. DeliveredInOrder'
    BY <2>3, <2>4 DEF OrderInv, DeliveredInOrder
  <2>6. Len(result) \in DOMAIN result /\ result[Len(result)] \in Item
    BY <2>1
  <2>7. last \in Time
    BY <2>6 DEF Item
  <2>8. mCursorMap'[s] # MaxTime
    BY StoreAssumption, <2>4, <2>7 DEF Time
  <2>9. last >= mCursorMap[s]
    BY <2>1, <2>6
  <2>10. \A k \in DOMAIN delivered'[s] : delivered'[s][k].time < mCursorMap'[s]
    <3>. SUFFICES ASSUME NEW k \in DOMAIN delivered'[s]
                  PROVE  delivered'[s][k].time < mCursorMap'[s]
      OBVIOUS
    <3>1. \/ k \in DOMAIN delivered[s] /\ delivered'[s][k] = delivered[s][k]
          \/ k - Len(delivered[s]) \in DOMAIN result /\ delivered'[s][k] = result[k - Len(delivered[s])]
      BY <2>2, <2>4
    <3>2. CASE k \in DOMAIN delivered[s] /\ delivered'[s][k] = delivered[s][k]
      <4>1. delivered[s][k] \in Item
        BY <2>2, <3>2
      <4>2. delivered[s][k].time \in Int /\ last \in Int
        BY <2>7, <4>1 DEF Item, Time
      <4>. HIDE DEF last
      <4>. QED BY <2>2, <2>4, <2>9, <3>2, <4>2
    <3>3. CASE k - Len(delivered[s]) \in DOMAIN result /\ delivered'[s][k] = result[k - Len(delivered[s])]
      <4>1. result[k - Len(delivered[s])] \in Item
        BY <3>3
      <4>2. result[k - Len(delivered[s])].time \in Int /\ last \in Int
        BY <2>7, <4>1 DEF Item, Time
      <4>3. result[k - Len(delivered[s])].time <= last
        BY <2>1, <3>3
      <4>. HIDE DEF last
      <4>. QED BY <2>4, <3>3, <4>2, <4>3
    <3>. QED BY <3>1, <3>2, <3>3
  <2>11. ReadBelowCursor'
    BY <2>4, <2>8, <2>10 DEF OrderInv, ReadBelowCursor
  <2>. QED BY <2>5, <2>11 DEF OrderInv
<1>. QED
  BY <1>2, <1>3, <1>4, <1>5, <1>6 DEF Next, Subscribe, SubscribeSince, Unsubscribe

LEMMA OrderInit == Init => OrderInv
<1>1. Sorted(<<>>) /\ IsInjective(<<>>)
  BY DEF Sorted, IsInjective
<1>. QED BY <1>1 DEF Init, OrderInv, ReadBelowCursor, DeliveredInOrder

\* No subscription ever sees a pick twice, or an older one after a newer one,
\* under any clock, any chunk and any interleaving of the readers with the two
\* critical sections of enqueue.
THEOREM DeliveryIsInOrder == Spec => []DeliveredInOrder
<1>1. Init => TypeOK /\ DequeInv /\ OrderInv
  BY TypeInit, DequeInit, OrderInit
<1>2. TypeOK /\ DequeInv /\ OrderInv /\ [Next]_vars => (TypeOK /\ DequeInv /\ OrderInv)'
  BY TypeNext, DequeNext, OrderNext
<1>3. OrderInv => DeliveredInOrder
  BY DEF OrderInv
<1>. QED BY <1>1, <1>2, <1>3, PTL DEF Spec

-----------------------------------------------------------------------------
(* RetentionContract, under a clock that is never set back: the cutoff the *)
(* pick processor dated is then no later than the one of now.              *)

CutoffIsPast == oldest <= clock - MaxHistory

RetentionInv == RetentionContract /\ CutoffIsPast

LEMMA RetentionInit == Init => RetentionInv
<1>. SUFFICES ASSUME Init PROVE RetentionInv
  OBVIOUS
<1>1. PICK loaded \in Backfills : \E q \in Sortings(loaded) : \E n \in Pops(q, oldest) :
          mDeque = PopFront(q, n) /\ stored = Range(loaded)
  BY DEF Init
<1>2. PICK q \in Sortings(loaded) : \E n \in Pops(q, oldest) :
          mDeque = PopFront(q, n) /\ stored = Range(loaded)
  BY <1>1
<1>3. PICK n \in Pops(q, oldest) : mDeque = PopFront(q, n) /\ stored = Range(loaded)
  BY <1>2
<1>4. q \in Seq(Item) /\ Range(q) = stored
  BY <1>3, BackfillAssumption, SortingsProperties
<1>5. n \in 0..Len(q) /\ \A k \in 1..n : q[k].time < oldest
  <2>1. n \in 0..Len(q)
    BY <1>4, PopsInRange
  <2>. QED BY <2>1 DEF Pops
<1>6. /\ Len(mDeque) = Len(q) - n /\ mDeque \in Seq(Item)
      /\ \A k \in 1..(Len(q) - n) : mDeque[k] = q[n + k]
  BY <1>3, <1>4, <1>5, PopFrontProperties
<1>7. oldest = clock - MaxHistory /\ clock \in Int /\ MaxHistory \in Int
  BY StoreAssumption DEF Init
<1>8. ASSUME NEW i \in stored, i.time >= clock - MaxHistory PROVE i \in Range(mDeque)
  <2>1. PICK k \in DOMAIN q : q[k] = i
    BY <1>4 DEF Range
  <2>2. q[k] \in Item /\ k \in 1..Len(q)
    BY <1>4
  <2>3. ~(k \in 1..n)
    BY <1>5, <1>7, <1>8, <2>1, <2>2 DEF Item, Time
  <2>4. k - n \in DOMAIN mDeque /\ mDeque[k - n] = i
    BY <1>4, <1>5, <1>6, <2>1, <2>2, <2>3
  <2>. QED BY <2>4 DEF Range
<1>9. RetentionContract
  BY <1>8 DEF RetentionContract
<1>. QED BY <1>7, <1>9 DEF RetentionInv, CutoffIsPast

\* As time passes a pick that was too old stays so.
LEMMA LaterCutoff ==
    ASSUME NEW t \in Int, NEW now \in Int, NEW later \in Int, NEW h \in Int,
           t <= now - h, later >= now
    PROVE  t <= later - h
  OBVIOUS

LEMMA RetentionNext ==
    ASSUME MaxStepBack = 0
    PROVE  TypeOK /\ RetentionInv /\ [Next]_vars => RetentionInv'
<1>. SUFFICES ASSUME TypeOK, RetentionInv, [Next]_vars PROVE RetentionInv'
  OBVIOUS
<1>1. clock \in Int /\ oldest \in Int /\ MaxHistory \in Int /\ MinInsertTicks \in Nat
  BY StoreAssumption DEF TypeOK, Time
<1>2. \A i \in stored : i.time \in Int
  BY StoreAssumption DEF TypeOK, Item, Time
<1>3. ASSUME clock' \in Int, clock' >= clock, UNCHANGED <<oldest, mDeque, stored>>
      PROVE  RetentionInv'
  <2>. stored' = stored /\ mDeque' = mDeque
    BY <1>3
  <2>1. ASSUME NEW i \in stored, i.time >= clock' - MaxHistory PROVE i \in Range(mDeque)
    <3>1. i.time >= clock - MaxHistory
      BY <1>1, <1>2, <1>3, <2>1
    <3>. QED BY <3>1 DEF RetentionInv, RetentionContract
  <2>2. RetentionContract'
    BY <2>1 DEF RetentionContract
  <2>3. CutoffIsPast'
    <3>1. oldest' = oldest /\ clock' \in Int /\ clock' >= clock
      BY <1>3
    <3>2. oldest <= clock - MaxHistory
      BY DEF RetentionInv, CutoffIsPast
    <3>3. oldest <= clock' - MaxHistory
      BY <1>1, <3>1, <3>2, LaterCutoff
    <3>. QED BY <3>1, <3>3 DEF CutoffIsPast
  <2>. QED BY <2>2, <2>3 DEF RetentionInv
<1>4. CASE Tick
  BY <1>1, <1>3, <1>4 DEF Tick, enqueueVars
<1>5. CASE StepBack
  <2>1. PICK t \in Time : t < clock /\ t >= clock - MaxStepBack
    BY <1>5 DEF StepBack
  <2>2. t \in Int
    BY StoreAssumption DEF Time
  <2>. QED BY <1>1, <2>1, <2>2
<1>6. ASSUME NEW p \in Picks, Receive(p) PROVE RetentionInv'
  <2>1. clock' = clock + MinInsertTicks /\ UNCHANGED <<oldest, mDeque, stored>>
    BY <1>6 DEF Receive
  <2>. QED BY <1>1, <1>3, <2>1
<1>7. CASE DateRetention
  BY <1>1, <1>7 DEF DateRetention, RetentionInv, RetentionContract, CutoffIsPast
<1>8. CASE CleanDeque
  <2>1. PICK n \in Pops(mDeque, oldest) : mDeque' = PopFront(mDeque, n)
    BY <1>8 DEF CleanDeque
  <2>2. mDeque \in Seq(Item) /\ n \in 0..Len(mDeque)
    BY PopsInRange DEF TypeOK
  <2>3. \A k \in 1..n : mDeque[k].time < oldest
    BY <2>2 DEF Pops
  <2>4. /\ mDeque' \in Seq(Item) /\ Len(mDeque') = Len(mDeque) - n
        /\ \A k \in 1..(Len(mDeque) - n) : mDeque'[k] = mDeque[n + k]
    BY <2>1, <2>2, PopFrontProperties
  <2>5. ASSUME NEW i \in stored, i.time >= clock - MaxHistory PROVE i \in Range(mDeque')
    <3>1. PICK k \in DOMAIN mDeque : mDeque[k] = i
      BY <2>5 DEF RetentionInv, RetentionContract, Range
    <3>2. k \in 1..Len(mDeque) /\ i.time \in Int
      BY <1>2, <2>2
    <3>3. ~(k \in 1..n)
      BY <1>1, <2>3, <2>5, <3>1, <3>2 DEF RetentionInv, CutoffIsPast
    <3>4. k - n \in DOMAIN mDeque' /\ mDeque'[k - n] = i
      BY <2>2, <2>4, <3>1, <3>2, <3>3
    <3>. QED BY <3>4 DEF Range
  <2>. QED BY <1>8, <2>5 DEF CleanDeque, RetentionInv, RetentionContract, CutoffIsPast
<1>9. CASE Insert
  <2>1. Range(mDeque') = Range(mDeque) \cup {item}
    BY <1>9, WithItemProperties DEF Insert, TypeOK
  <2>. QED BY <1>9, <2>1 DEF Insert, RetentionInv, RetentionContract, CutoffIsPast
<1>10. ASSUME NEW s \in Subscribers, NEW c, NEW t, NEW b, SetCursor(s, c, t, b) PROVE RetentionInv'
  BY <1>1, <1>3, <1>10 DEF SetCursor, enqueueVars
<1>11. ASSUME NEW s \in Subscribers, GetPicks(s) PROVE RetentionInv'
  BY <1>1, <1>3, <1>11 DEF GetPicks, enqueueVars
<1>12. CASE UNCHANGED vars
  BY <1>1, <1>3, <1>12 DEF vars, enqueueVars
<1>. QED
  BY <1>4, <1>5, <1>6, <1>7, <1>8, <1>9, <1>10, <1>11, <1>12
  DEF Next, Subscribe, SubscribeSince, Unsubscribe

\* The contract in the comment at cleanDeque: when the clock is never set back,
\* a pick younger than the maximum history is in the deque, whatever the queue
\* capacity, the load and the time enqueue spends between its critical sections.
THEOREM RetentionIsKept ==
    ASSUME MaxStepBack = 0
    PROVE  Spec => []RetentionContract
<1>1. Init => TypeOK /\ RetentionInv
  BY TypeInit, RetentionInit
<1>2. TypeOK /\ RetentionInv /\ [Next]_vars => (TypeOK /\ RetentionInv)'
  BY TypeNext, RetentionNext
<1>3. RetentionInv => RetentionContract
  BY DEF RetentionInv
<1>. QED BY <1>1, <1>2, <1>3, PTL DEF Spec
=============================================================================
