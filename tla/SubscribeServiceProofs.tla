----------------------- MODULE SubscribeServiceProofs -----------------------
(***************************************************************************)
(* Theorems about SubscribeService, for every set of subscribers, limit,   *)
(* chunk size and number of picks.                                         *)
(***************************************************************************)
EXTENDS SubscribeService, FiniteSetTheorems, SequenceTheorems, TLAPS

-----------------------------------------------------------------------------
(* One writer and its cursor in the store.                                 *)

Cursors == {NotSubscribed} \cup 0..MaxPicks

Unfinished(w) ==
    /\ w.refusal = "none" => w.finishes <= 1
    /\ w.refusal = "none" /\ (w.phase \notin {"idle", "done"} \/ w.mWriteInProgress)
          => w.finishes = 0

\* What is bound, registered or subscribed, in which part of a writer's life.
Placed(w, c) ==
    /\ w.mWriteInProgress => w.phase = "idle" /\ w.mPicksQueue # <<>>
    /\ w.bound => w.phase \in {"polling", "idle", "done"}
    /\ w.registered => w.phase \in {"polling", "idle"}
    /\ w.phase \in {"polling", "idle"} /\ ~ w.registered => c = NotSubscribed
    /\ w.phase \in {"none", "admitted", "checked", "done"} => c = NotSubscribed
    /\ w.phase \in {"none", "admitted", "checked", "subscribed"} =>
          w.mPicksQueue = <<>> /\ w.written = <<>>

\* What the writer has written, then its queue, then what it has yet to get.
InOrder(w, c) ==
    /\ \A i \in 1..Len(w.written) : w.written[i] = w.from + i
    /\ w.phase = "subscribed" => c \in {NotSubscribed, w.from}
    /\ w.phase = "polling" \/ w.mWriteInProgress =>
          /\ \A i \in 1..Len(w.mPicksQueue) :
                w.mPicksQueue[i] = w.from + Len(w.written) + i
          /\ c # NotSubscribed => c = w.from + Len(w.written) + Len(w.mPicksQueue)

WriterInv(w, c) ==
    /\ w \in Writer /\ c \in Cursors
    /\ Unfinished(w) /\ Placed(w, c) /\ InOrder(w, c)

ServiceInv ==
    /\ writer \in [Subscribers -> Writer] /\ cursor \in [Subscribers -> Cursors]
    /\ store \in 0..MaxPicks
    /\ Server!ServerTypeOK
    /\ \A s \in Subscribers : WriterInv(writer[s], cursor[s])

LEMMA ServerTypes ==
    ASSUME Server!ServerTypeOK, Server!Start \/ (\E o : Server!Stop(o))
    PROVE  Server!ServerTypeOK'
<1>1. CASE Server!BeginStart
  <2>1. mSubscriberCount' \in Int
    BY <1>1 DEF Server!BeginStart
  <2>2. mKeepRunning' \in BOOLEAN /\ mServerStarted' \in BOOLEAN
    BY <1>1 DEF Server!BeginStart, Server!ServerTypeOK
  <2>. QED BY <1>1, <2>1, <2>2 DEF Server!BeginStart, Server!ServerTypeOK
<1>2. CASE Server!BuildAndStart
  BY <1>2 DEF Server!BuildAndStart, Server!ServerTypeOK
<1>3. CASE Server!MarkStarted
  BY <1>3 DEF Server!MarkStarted, Server!ServerTypeOK
<1>4. CASE Server!WaitReturns
  BY <1>4 DEF Server!WaitReturns, Server!ServerTypeOK
<1>5. CASE Server!BeginStop
  BY <1>5 DEF Server!BeginStop, Server!ServerTypeOK
<1>6. CASE Server!Shutdown
  BY <1>6 DEF Server!Shutdown, Server!ServerTypeOK
<1>7. CASE Server!NothingToShutDown
  BY <1>7 DEF Server!NothingToShutDown, Server!ServerTypeOK
<1>8. CASE Server!ResetCount
  <2>1. mSubscriberCount' \in Int
    BY <1>8 DEF Server!ResetCount
  <2>2. mKeepRunning' \in BOOLEAN /\ mServerStarted' \in BOOLEAN
    BY <1>8 DEF Server!ResetCount, Server!ServerTypeOK
  <2>. QED BY <1>8, <2>1, <2>2 DEF Server!ResetCount, Server!ServerTypeOK
<1>9. ASSUME NEW o, Server!ShutdownReturns(o) PROVE Server!ServerTypeOK'
  BY <1>9 DEF Server!ShutdownReturns, Server!ServerTypeOK
<1>. QED BY <1>1, <1>2, <1>3, <1>4, <1>5, <1>6, <1>7, <1>8, <1>9 DEF Server!Start, Server!Stop

\* The queue is the rest of what has been got: its front is the next to be written.
LEMMA FrontIsWritten ==
    ASSUME SubscribeAssumption, NEW w \in Writer, NEW c \in Cursors, InOrder(w, c),
           w.mWriteInProgress, w.mPicksQueue # <<>>
    PROVE  \A written, rest :
           written = Append(w.written, Head(w.mPicksQueue)) /\ rest = Tail(w.mPicksQueue) =>
           /\ written \in Seq(1..MaxPicks) /\ rest \in Seq(1..MaxPicks)
           /\ \A i \in 1..Len(written) : written[i] = w.from + i
           /\ \A i \in 1..Len(rest) : rest[i] = w.from + Len(written) + i
           /\ c # NotSubscribed => c = w.from + Len(written) + Len(rest)
<1>. DEFINE P == 1..MaxPicks
            q == w.mPicksQueue
            d == w.written
            f == w.from
            done == Append(d, Head(q))
            left == Tail(q)
<1>1. q \in Seq(P) /\ d \in Seq(P) /\ f \in Nat /\ q # <<>>
  BY DEF Writer, SubscribeAssumption
<1>2. /\ \A i \in 1..Len(d) : d[i] = f + i
      /\ \A i \in 1..Len(q) : q[i] = f + Len(d) + i
      /\ c # NotSubscribed => c = f + Len(d) + Len(q)
  BY DEF InOrder
<1>. HIDE DEF P, q, d, f
<1>3. Len(d) \in Nat /\ Len(q) \in Nat \ {0}
  BY <1>1, LenProperties, EmptySeq
<1>4. /\ Head(q) \in P /\ Head(q) = q[1] /\ left \in Seq(P) /\ Len(left) = Len(q) - 1
      /\ \A i \in 1..Len(left) : left[i] = q[i + 1]
  BY <1>1, HeadTailProperties
<1>5. /\ done \in Seq(P) /\ Len(done) = Len(d) + 1
      /\ \A i \in 1..Len(d) : done[i] = d[i]
      /\ done[Len(d) + 1] = Head(q)
  BY <1>1, <1>4, AppendProperties
<1>. HIDE DEF done, left
<1>6. \A i \in 1..Len(done) : done[i] = f + i
  <2>. TAKE i \in 1..Len(done)
  <2>1. CASE i = Len(d) + 1
    <3>1. q[1] = f + Len(d) + 1
      BY <1>2, <1>3
    <3>. QED BY <1>1, <1>3, <1>4, <1>5, <2>1, <3>1
  <2>2. CASE i # Len(d) + 1
    <3>1. i \in 1..Len(d)
      BY <1>3, <1>5, <2>2
    <3>. QED BY <1>2, <1>5, <3>1
  <2>. QED BY <2>1, <2>2
<1>7. \A i \in 1..Len(left) : left[i] = f + Len(done) + i
  <2>. TAKE i \in 1..Len(left)
  <2>1. i + 1 \in 1..Len(q)
    BY <1>3, <1>4
  <2>2. left[i] = f + Len(d) + (i + 1)
    BY <1>2, <1>4, <2>1
  <2>. QED BY <1>1, <1>3, <1>5, <2>2
<1>8. c # NotSubscribed => c = f + Len(done) + Len(left)
  BY <1>1, <1>2, <1>3, <1>4, <1>5
<1>. QED BY <1>4, <1>5, <1>6, <1>7, <1>8 DEF P, q, d, f, done, left

\* The least of two numbers.
LEMMA MinOfTwo ==
    ASSUME NEW a \in Int, NEW b \in Int
    PROVE  Min({a, b}) = IF a <= b THEN a ELSE b
<1>. DEFINE m == IF a <= b THEN a ELSE b
<1>1. m \in {a, b} /\ \A y \in {a, b} : m <= y
  OBVIOUS
<1>2. \A x \in {a, b} : (\A y \in {a, b} : x <= y) => x = m
  OBVIOUS
<1>. HIDE DEF m
<1>3. (CHOOSE x \in {a, b} : \A y \in {a, b} : x <= y) = m
  BY <1>1, <1>2
<1>. QED BY <1>3 DEF Min, m

-----------------------------------------------------------------------------
(* One step of a writer.                                                   *)

\* grpc::ServerWriteReactor::Finish raises finishes and leaves the rest alone.
LEMMA FinishedProperties ==
    ASSUME NEW w \in Writer
    PROVE  /\ Finished(w) \in Writer
           /\ Finished(w).finishes = w.finishes + 1
           /\ Finished(w).phase = w.phase /\ Finished(w).bound = w.bound
           /\ Finished(w).registered = w.registered /\ Finished(w).refusal = w.refusal
           /\ Finished(w).mPicksQueue = w.mPicksQueue
           /\ Finished(w).mWriteInProgress = w.mWriteInProgress
           /\ Finished(w).from = w.from /\ Finished(w).written = w.written
<1>. DEFINE k == w.finishes + 1
            v == [w EXCEPT !.finishes = k]
<1>1. k \in Nat
  BY DEF Writer
<1>2. Finished(w) = v
  BY DEF Finished
<1>. HIDE DEF k
<1>3. /\ v \in Writer /\ v.finishes = k
      /\ v.phase = w.phase /\ v.bound = w.bound
      /\ v.registered = w.registered /\ v.refusal = w.refusal
      /\ v.mPicksQueue = w.mPicksQueue /\ v.mWriteInProgress = w.mWriteInProgress
      /\ v.from = w.from /\ v.written = w.written
  BY <1>1 DEF Writer
<1>. QED BY <1>2, <1>3 DEF k

\* The constructor goes on: its checks change nothing but the phase.
LEMMA ChecksKeep ==
    ASSUME SubscribeAssumption, NEW w, NEW c, WriterInv(w, c),
           NEW old \in {"none", "admitted"}, w.phase = old,
           NEW next \in {"admitted", "checked"}
    PROVE  WriterInv([w EXCEPT !.phase = next], c)
<1>. DEFINE v == [w EXCEPT !.phase = next]
<1>1. w \in Writer /\ c \in Cursors
  BY DEF WriterInv
<1>2. v \in Writer
  BY <1>1 DEF Writer
<1>3. Unfinished(v)
  BY <1>1 DEF WriterInv, Writer, Unfinished
<1>4. Placed(v, c)
  BY <1>1 DEF WriterInv, Writer, Placed
<1>5. InOrder(v, c)
  BY <1>1 DEF WriterInv, Writer, Placed, InOrder
<1>. QED BY <1>1, <1>2, <1>3, <1>4, <1>5 DEF WriterInv, Cursors

\* Or it finishes the RPC, and goes on all the same.
LEMMA RefusalsKeep ==
    ASSUME SubscribeAssumption, NEW w, NEW c, WriterInv(w, c),
           w.phase \in {"none", "admitted", "checked"},
           NEW next \in {"admitted", "checked", "subscribed"},
           NEW why \in {"limit", "token", "start"}
    PROVE  WriterInv(Refused([w EXCEPT !.phase = next], why), c)
<1>. DEFINE u == [w EXCEPT !.phase = next]
            v == Refused([w EXCEPT !.phase = next], why)
<1>1. w \in Writer /\ c \in Cursors
  BY DEF WriterInv
<1>2. u \in Writer
  BY <1>1 DEF Writer
<1>3. /\ v \in Writer /\ v.finishes = u.finishes + 1
      /\ v.phase = u.phase /\ v.bound = u.bound
      /\ v.registered = u.registered /\ v.refusal = why
      /\ v.mPicksQueue = u.mPicksQueue /\ v.mWriteInProgress = u.mWriteInProgress
      /\ v.from = u.from /\ v.written = u.written
  BY <1>2, FinishedProperties DEF Writer, Refused
<1>. HIDE DEF v
<1>4. Unfinished(v)
  <2>1. u.finishes = w.finishes /\ u.refusal = w.refusal
    BY <1>1 DEF Writer
  <2>2. w.refusal = "none" => w.finishes = 0
    BY <1>1 DEF WriterInv, Unfinished
  <2>3. v.refusal = "none" => v.finishes = 0 + 1
    BY <1>3, <2>1, <2>2
  <2>4. v.refusal = "none" => v.phase = "idle" /\ ~ v.mWriteInProgress
    BY <1>1, <1>3 DEF WriterInv, Writer, Placed
  <2>. QED BY <2>3, <2>4 DEF Unfinished
<1>5. Placed(v, c)
  BY <1>1, <1>3 DEF WriterInv, Writer, Placed
<1>6. InOrder(v, c)
  BY <1>1, <1>3 DEF WriterInv, Writer, Placed, InOrder
<1>. QED BY <1>1, <1>3, <1>4, <1>5, <1>6 DEF WriterInv, v

\* PickStore::subscribe.
LEMMA SubscribeKeeps ==
    ASSUME SubscribeAssumption, NEW w, NEW c, WriterInv(w, c),
           w.phase = "checked", NEW from \in 0..MaxPicks
    PROVE  WriterInv([w EXCEPT !.phase = "subscribed", !.from = from], from)
<1>. DEFINE v == [w EXCEPT !.phase = "subscribed", !.from = from]
<1>1. w \in Writer /\ c \in Cursors
  BY DEF WriterInv
<1>2. v \in Writer
  BY <1>1 DEF Writer
<1>3. Unfinished(v)
  BY <1>1 DEF WriterInv, Writer, Unfinished
<1>4. Placed(v, from)
  BY <1>1 DEF WriterInv, Writer, Placed
<1>5. InOrder(v, from)
  BY <1>1 DEF WriterInv, Writer, Placed, InOrder
<1>. QED BY <1>1, <1>2, <1>3, <1>4, <1>5 DEF WriterInv, Cursors

\* The writer is counted as a subscriber.
LEMMA RegisterKeeps ==
    ASSUME SubscribeAssumption, NEW w, NEW c, WriterInv(w, c),
           w.phase = "subscribed"
    PROVE  WriterInv([w EXCEPT !.phase = "polling", !.registered = TRUE], c)
<1>. DEFINE v == [w EXCEPT !.phase = "polling", !.registered = TRUE]
<1>1. w \in Writer /\ c \in Cursors
  BY DEF WriterInv
<1>2. v \in Writer
  BY <1>1 DEF Writer
<1>3. Unfinished(v)
  BY <1>1 DEF WriterInv, Writer, Unfinished
<1>4. Placed(v, c)
  BY <1>1 DEF WriterInv, Writer, Placed
<1>5. InOrder(v, c)
  BY <1>1 DEF WriterInv, Writer, Placed, InOrder
<1>. QED BY <1>1, <1>2, <1>3, <1>4, <1>5 DEF WriterInv, Cursors

\* nextWrite leaves its loop.
LEMMA LeaveKeeps ==
    ASSUME SubscribeAssumption, NEW w, NEW c, WriterInv(w, c),
           w.phase = "polling"
    PROVE  WriterInv(Finished([w EXCEPT !.phase = "idle", !.bound = TRUE]), c)
<1>. DEFINE u == [w EXCEPT !.phase = "idle", !.bound = TRUE]
            v == Finished([w EXCEPT !.phase = "idle", !.bound = TRUE])
<1>1. w \in Writer /\ c \in Cursors
  BY DEF WriterInv
<1>2. u \in Writer
  BY <1>1 DEF Writer
<1>3. /\ v \in Writer /\ v.finishes = u.finishes + 1
      /\ v.phase = u.phase /\ v.bound = u.bound
      /\ v.registered = u.registered /\ v.refusal = u.refusal
      /\ v.mPicksQueue = u.mPicksQueue /\ v.mWriteInProgress = u.mWriteInProgress
      /\ v.from = u.from /\ v.written = u.written
  BY <1>2, FinishedProperties DEF Writer
<1>. HIDE DEF v
<1>4. Unfinished(v)
  <2>1. u.finishes = w.finishes /\ u.refusal = w.refusal
    BY <1>1 DEF Writer
  <2>2. w.refusal = "none" => w.finishes = 0
    BY <1>1 DEF WriterInv, Unfinished
  <2>3. v.refusal = "none" => v.finishes = 0 + 1
    BY <1>3, <2>1, <2>2
  <2>4. v.refusal = "none" => v.phase = "idle" /\ ~ v.mWriteInProgress
    BY <1>1, <1>3 DEF WriterInv, Writer, Placed
  <2>. QED BY <2>3, <2>4 DEF Unfinished
<1>5. Placed(v, c)
  BY <1>1, <1>3 DEF WriterInv, Writer, Placed
<1>6. InOrder(v, c)
  BY <1>1, <1>3 DEF WriterInv, Writer, Placed, InOrder
<1>. QED BY <1>1, <1>3, <1>4, <1>5, <1>6 DEF WriterInv, v

\* nextWrite has a pick to write.
LEMMA WriteKeeps ==
    ASSUME SubscribeAssumption, NEW w, NEW c, WriterInv(w, c),
           w.phase = "polling", w.mPicksQueue # <<>>
    PROVE  WriterInv([w EXCEPT !.phase = "idle", !.bound = TRUE, !.mWriteInProgress = TRUE], c)
<1>. DEFINE v == [w EXCEPT !.phase = "idle", !.bound = TRUE, !.mWriteInProgress = TRUE]
<1>1. w \in Writer /\ c \in Cursors
  BY DEF WriterInv
<1>2. v \in Writer
  BY <1>1 DEF Writer
<1>3. Unfinished(v)
  BY <1>1 DEF WriterInv, Writer, Unfinished
<1>4. Placed(v, c)
  BY <1>1 DEF WriterInv, Writer, Placed
<1>5. InOrder(v, c)
  BY <1>1 DEF WriterInv, Writer, Placed, InOrder
<1>. QED BY <1>1, <1>2, <1>3, <1>4, <1>5 DEF WriterInv, Cursors

\* The stream is broken.
LEMMA BrokenKeeps ==
    ASSUME SubscribeAssumption, NEW w, NEW c, WriterInv(w, c),
           w.mWriteInProgress
    PROVE  WriterInv(Finished([w EXCEPT !.mWriteInProgress = FALSE]), c)
<1>. DEFINE u == [w EXCEPT !.mWriteInProgress = FALSE]
            v == Finished([w EXCEPT !.mWriteInProgress = FALSE])
<1>1. w \in Writer /\ c \in Cursors
  BY DEF WriterInv
<1>2. u \in Writer
  BY <1>1 DEF Writer
<1>3. /\ v \in Writer /\ v.finishes = u.finishes + 1
      /\ v.phase = u.phase /\ v.bound = u.bound
      /\ v.registered = u.registered /\ v.refusal = u.refusal
      /\ v.mPicksQueue = u.mPicksQueue /\ v.mWriteInProgress = u.mWriteInProgress
      /\ v.from = u.from /\ v.written = u.written
  BY <1>2, FinishedProperties DEF Writer
<1>. HIDE DEF v
<1>4. Unfinished(v)
  <2>1. u.finishes = w.finishes /\ u.refusal = w.refusal
    BY <1>1 DEF Writer
  <2>2. w.refusal = "none" => w.finishes = 0
    BY <1>1 DEF WriterInv, Unfinished
  <2>3. v.refusal = "none" => v.finishes = 0 + 1
    BY <1>3, <2>1, <2>2
  <2>4. v.refusal = "none" => v.phase = "idle" /\ ~ v.mWriteInProgress
    BY <1>1, <1>3 DEF WriterInv, Writer, Placed
  <2>. QED BY <2>3, <2>4 DEF Unfinished
<1>5. Placed(v, c)
  BY <1>1, <1>3 DEF WriterInv, Writer, Placed
<1>6. InOrder(v, c)
  BY <1>1, <1>3 DEF WriterInv, Writer, Placed, InOrder
<1>. QED BY <1>1, <1>3, <1>4, <1>5, <1>6 DEF WriterInv, v

\* The client cancels.
LEMMA CancelKeeps ==
    ASSUME SubscribeAssumption, NEW w, NEW c, WriterInv(w, c)
    PROVE  WriterInv([w EXCEPT !.cancelled = TRUE], c)
<1>. DEFINE v == [w EXCEPT !.cancelled = TRUE]
<1>1. w \in Writer /\ c \in Cursors
  BY DEF WriterInv
<1>2. v \in Writer
  BY <1>1 DEF Writer
<1>3. Unfinished(v)
  BY <1>1 DEF WriterInv, Writer, Unfinished
<1>4. Placed(v, c)
  BY <1>1 DEF WriterInv, Writer, Placed
<1>5. InOrder(v, c)
  BY <1>1 DEF WriterInv, Writer, Placed, InOrder
<1>. QED BY <1>1, <1>2, <1>3, <1>4, <1>5 DEF WriterInv, Cursors

\* OnCancel and OnDone unsubscribe a writer that is registered.
LEMMA UnsubscribeKeeps ==
    ASSUME SubscribeAssumption, NEW w, NEW c, WriterInv(w, c),
           w.phase \in {"polling", "idle"}, w.registered
    PROVE  WriterInv([w EXCEPT !.registered = FALSE, !.onCancel = TRUE], NotSubscribed)
<1>. DEFINE v == [w EXCEPT !.registered = FALSE, !.onCancel = TRUE]
<1>1. w \in Writer /\ c \in Cursors
  BY DEF WriterInv
<1>2. v \in Writer
  BY <1>1 DEF Writer
<1>3. Unfinished(v)
  BY <1>1 DEF WriterInv, Writer, Unfinished
<1>4. Placed(v, NotSubscribed)
  BY <1>1 DEF WriterInv, Writer, Placed
<1>5. InOrder(v, NotSubscribed)
  BY <1>1 DEF WriterInv, Writer, Placed, InOrder
<1>. QED BY <1>1, <1>2, <1>3, <1>4, <1>5 DEF WriterInv, Cursors

\* Not one that is not.
LEMMA UnregisteredKeeps ==
    ASSUME SubscribeAssumption, NEW w, NEW c, WriterInv(w, c),
           ~ w.registered
    PROVE  WriterInv([w EXCEPT !.registered = FALSE, !.onCancel = TRUE], c)
<1>. DEFINE v == [w EXCEPT !.registered = FALSE, !.onCancel = TRUE]
<1>1. w \in Writer /\ c \in Cursors
  BY DEF WriterInv
<1>2. v \in Writer
  BY <1>1 DEF Writer
<1>3. Unfinished(v)
  BY <1>1 DEF WriterInv, Writer, Unfinished
<1>4. Placed(v, c)
  BY <1>1 DEF WriterInv, Writer, Placed
<1>5. InOrder(v, c)
  BY <1>1 DEF WriterInv, Writer, Placed, InOrder
<1>. QED BY <1>1, <1>2, <1>3, <1>4, <1>5 DEF WriterInv, Cursors

\* The reactor is deleted.
LEMMA DoneKeeps ==
    ASSUME SubscribeAssumption, NEW w, NEW c, WriterInv(w, c),
           w.phase = "idle", ~ w.mWriteInProgress,
           NEW d, d = IF w.registered THEN NotSubscribed ELSE c
    PROVE  WriterInv([w EXCEPT !.phase = "done", !.registered = FALSE], d)
<1>. DEFINE v == [w EXCEPT !.phase = "done", !.registered = FALSE]
<1>1. w \in Writer /\ c \in Cursors
  BY DEF WriterInv
<1>2. v \in Writer
  BY <1>1 DEF Writer
<1>3. Unfinished(v)
  BY <1>1 DEF WriterInv, Writer, Unfinished
<1>4. Placed(v, d)
  BY <1>1 DEF WriterInv, Writer, Placed
<1>5. InOrder(v, d)
  BY <1>1 DEF WriterInv, Writer, Placed, InOrder
<1>. QED BY <1>1, <1>2, <1>3, <1>4, <1>5 DEF WriterInv, Cursors

LEMMA FunctionIsSeq ==
    ASSUME NEW S, NEW m \in Nat, NEW q \in [1..m -> S]
    PROVE  q \in Seq(S) /\ Len(q) = m
<1>1. q \in Seq(S)
  BY SeqDef, Zenon
<1>2. Len(q) \in Nat /\ DOMAIN q = 1..Len(q) /\ DOMAIN q = 1..m
  BY <1>1, LenProperties
<1>3. Len(q) = m
  BY <1>2
<1>. QED BY <1>1, <1>3

\* PickStore::getPicks fills an empty queue and moves the cursor along.
LEMMA GotKeeps ==
    ASSUME SubscribeAssumption, NEW w, NEW c, WriterInv(w, c),
           w.phase = "polling", w.mPicksQueue = <<>>,
           NEW n \in 0..MaxPicks, c # NotSubscribed, c < n,
           NEW d, d = Min({n, c + MAXIMUM_QUEUE_SIZE}),
           NEW q, q = [i \in 1..(d - c) |-> c + i]
    PROVE  WriterInv([w EXCEPT !.mPicksQueue = q], d)
<1>. DEFINE v == [w EXCEPT !.mPicksQueue = q]
            l == Len(w.written)
            f == w.from
<1>1. w \in Writer /\ c \in 0..MaxPicks
  BY DEF WriterInv, Cursors
<1>2. /\ l \in Nat /\ f \in Nat /\ MAXIMUM_QUEUE_SIZE \in Nat \ {0} /\ MaxPicks \in Nat
      /\ c \in Nat /\ n \in Nat
  BY <1>1, LenProperties DEF Writer, SubscribeAssumption
<1>3. c = f + l
  BY <1>1, <1>2 DEF WriterInv, InOrder
<1>4. d \in Nat /\ c < d /\ d <= n /\ d - c \in Nat \ {0}
  BY <1>2, MinOfTwo
<1>5. \A i \in 1..(d - c) : c + i \in 1..MaxPicks
  BY <1>2, <1>4
<1>6. q \in Seq(1..MaxPicks) /\ Len(q) = d - c /\ \A i \in 1..Len(q) : q[i] = c + i
  <2>. DEFINE m == d - c
  <2>1. m \in Nat
    BY <1>4
  <2>2. q = [i \in 1..m |-> c + i] /\ \A i \in 1..m : c + i \in 1..MaxPicks
    BY <1>5
  <2>. HIDE DEF m
  <2>3. q \in [1..m -> 1..MaxPicks] /\ DOMAIN q = 1..m /\ \A i \in 1..m : q[i] = c + i
    BY <2>2
  <2>4. q \in Seq(1..MaxPicks) /\ Len(q) = m
    BY <2>1, <2>3, FunctionIsSeq
  <2>. QED BY <2>3, <2>4 DEF m
<1>. HIDE DEF l, f
<1>7. q # <<>> /\ d = f + l + Len(q) /\ \A i \in 1..Len(q) : q[i] = f + l + i
  <2>1. d = f + l + Len(q) /\ Len(q) # 0
    BY <1>2, <1>3, <1>4, <1>6
  <2>. QED BY <1>3, <1>6, <2>1
<1>8. v \in Writer
  BY <1>1, <1>6 DEF Writer
<1>9. /\ v.phase = "polling" /\ v.finishes = w.finishes /\ v.refusal = w.refusal
      /\ v.mWriteInProgress = w.mWriteInProgress /\ v.bound = w.bound
      /\ v.registered = w.registered /\ v.written = w.written /\ v.from = f
      /\ v.mPicksQueue = q /\ Len(v.written) = l
  BY <1>1 DEF Writer, f, l
<1>. HIDE DEF v
<1>10. Unfinished(v)
  BY <1>9 DEF WriterInv, Unfinished
<1>11. Placed(v, d)
  BY <1>1, <1>9, <1>2 DEF WriterInv, Placed, NotSubscribed
<1>12. InOrder(v, d)
  BY <1>7, <1>9 DEF WriterInv, InOrder, f
<1>13. d \in Cursors
  BY <1>2, <1>4 DEF Cursors
<1>. QED BY <1>8, <1>10, <1>11, <1>12, <1>13 DEF WriterInv, v

\* The pick at the front has been written.
LEMMA WrittenKeeps ==
    ASSUME SubscribeAssumption, NEW w, NEW c, WriterInv(w, c), w.mWriteInProgress,
           NEW u, u = [w EXCEPT !.written = Append(@, Head(w.mPicksQueue))]
    PROVE  WriterInv(Written(u), c) /\ WriterInv(Stopped(u), c)
<1>. DEFINE written == Append(w.written, Head(w.mPicksQueue))
            rest == Tail(w.mPicksQueue)
            v == [w EXCEPT !.phase = "polling", !.mWriteInProgress = FALSE,
                           !.mPicksQueue = rest, !.written = written]
            x == [w EXCEPT !.mWriteInProgress = FALSE, !.written = written]
            y == Finished(x)
<1>1. w \in Writer /\ c \in Cursors /\ InOrder(w, c) /\ Placed(w, c) /\ Unfinished(w)
  BY DEF WriterInv
<1>2. w.phase = "idle" /\ w.mPicksQueue # <<>>
  BY <1>1 DEF Placed
<1>a. written = Append(w.written, Head(w.mPicksQueue)) /\ rest = Tail(w.mPicksQueue)
  OBVIOUS
<1>b. \A d, r : d = Append(w.written, Head(w.mPicksQueue)) /\ r = Tail(w.mPicksQueue) =>
          /\ d \in Seq(1..MaxPicks) /\ r \in Seq(1..MaxPicks)
          /\ \A i \in 1..Len(d) : d[i] = w.from + i
          /\ \A i \in 1..Len(r) : r[i] = w.from + Len(d) + i
          /\ c # NotSubscribed => c = w.from + Len(d) + Len(r)
  BY <1>1, <1>2, FrontIsWritten
<1>. HIDE DEF written, rest
<1>3. /\ written \in Seq(1..MaxPicks) /\ rest \in Seq(1..MaxPicks)
      /\ \A i \in 1..Len(written) : written[i] = w.from + i
      /\ \A i \in 1..Len(rest) : rest[i] = w.from + Len(written) + i
      /\ c # NotSubscribed => c = w.from + Len(written) + Len(rest)
  BY <1>a, <1>b
<1>4. u = [w EXCEPT !.written = written]
  BY DEF written
<1>5. Written(u) = v
  BY <1>1, <1>4 DEF Written, Writer, rest
<1>6. Stopped(u) = y
  BY <1>1, <1>4 DEF Stopped, Writer
<1>7. v \in Writer /\ x \in Writer
  BY <1>1, <1>3 DEF Writer
<1>8. /\ v.phase = "polling" /\ v.finishes = w.finishes /\ v.refusal = w.refusal
      /\ ~ v.mWriteInProgress /\ v.bound = w.bound
      /\ v.registered = w.registered /\ v.written = written /\ v.from = w.from
      /\ v.mPicksQueue = rest
  BY <1>1 DEF Writer
<1>9. /\ x.phase = "idle" /\ x.finishes = w.finishes /\ x.refusal = w.refusal
      /\ ~ x.mWriteInProgress /\ x.bound = w.bound
      /\ x.registered = w.registered /\ x.written = written /\ x.from = w.from
  BY <1>1, <1>2 DEF Writer
<1>. HIDE DEF v, x
<1>10. /\ y \in Writer /\ y.finishes = w.finishes + 1
       /\ y.phase = "idle" /\ y.bound = w.bound /\ y.refusal = w.refusal
       /\ y.registered = w.registered /\ y.written = written /\ y.from = w.from
       /\ ~ y.mWriteInProgress
  BY <1>7, <1>9, FinishedProperties
<1>. HIDE DEF y
<1>11. w.refusal = "none" => w.finishes = 0
  BY <1>1 DEF Unfinished
<1>12. Unfinished(v)
  BY <1>1, <1>8, <1>11 DEF Unfinished
<1>13. Unfinished(y)
  BY <1>10, <1>11 DEF Unfinished
<1>14. Placed(v, c)
  BY <1>1, <1>2, <1>8 DEF Placed
<1>15. Placed(y, c)
  BY <1>1, <1>2, <1>10 DEF Placed
<1>16. InOrder(v, c)
  BY <1>3, <1>8 DEF InOrder
<1>17. InOrder(y, c)
  BY <1>3, <1>10 DEF InOrder
<1>. QED BY <1>1, <1>5, <1>6, <1>7, <1>10, <1>12, <1>13, <1>14, <1>15, <1>16, <1>17
         DEF WriterInv

-----------------------------------------------------------------------------
(* All writers.                                                            *)

LEMMA OneWriterSteps ==
    ASSUME ServiceInv, NEW s \in Subscribers, NEW v, NEW d, WriterInv(v, d),
           writer' = [writer EXCEPT ![s] = v], cursor' = [cursor EXCEPT ![s] = d],
           store' = store, mSubscriberCount' \in Int, UNCHANGED serviceVars
    PROVE  ServiceInv'
<1>1. v \in Writer /\ d \in Cursors
  BY DEF WriterInv
<1>2. writer' \in [Subscribers -> Writer] /\ cursor' \in [Subscribers -> Cursors]
  BY <1>1 DEF ServiceInv
<1>3. \A t \in Subscribers : WriterInv(writer'[t], cursor'[t])
  <2>. TAKE t \in Subscribers
  <2>1. CASE t = s
    <3>1. writer'[t] = v /\ cursor'[t] = d
      BY <2>1 DEF ServiceInv
    <3>. QED BY <3>1
  <2>2. CASE t # s
    <3>1. writer'[t] = writer[t] /\ cursor'[t] = cursor[t]
      BY <2>2 DEF ServiceInv
    <3>2. WriterInv(writer[t], cursor[t])
      BY DEF ServiceInv
    <3>. QED BY <3>1, <3>2
  <2>. QED BY <2>1, <2>2
<1>4. store' \in 0..MaxPicks
  BY DEF ServiceInv
<1>5. Server!ServerTypeOK'
  BY DEF ServiceInv, serviceVars, Server!ServerTypeOK
<1>. QED BY <1>2, <1>3, <1>4, <1>5 DEF ServiceInv

LEMMA ServiceInvInit == ASSUME SubscribeAssumption, Init PROVE ServiceInv
<1>1. WriterInv(NoWriter, NotSubscribed)
  <2>1. NoWriter \in Writer
    BY DEF NoWriter, Writer, SubscribeAssumption
  <2>. QED BY <2>1 DEF WriterInv, Cursors, Unfinished, Placed, InOrder, NoWriter
<1>2. /\ NoWriter \in Writer /\ NotSubscribed \in Cursors
      /\ 0 \in 0..MaxPicks
  BY <1>1 DEF WriterInv, SubscribeAssumption
<1>3. Server!ServerTypeOK
  <2>1. mSubscriberCount \in Int
    BY DEF Init, Server!ServerInit
  <2>2. mKeepRunning \in BOOLEAN /\ mServerStarted \in BOOLEAN
    BY DEF Init, Server!ServerInit
  <2>. QED BY <2>1, <2>2 DEF Init, Server!ServerInit, Server!ServerTypeOK
<1>. QED BY <1>1, <1>2, <1>3 DEF Init, ServiceInv

LEMMA ServiceInvNext ==
    ASSUME SubscribeAssumption, ServiceInv, [Next]_vars PROVE ServiceInv'
<1>. USE DEF writerVars, storeVars
<1>a. /\ writer \in [Subscribers -> Writer] /\ cursor \in [Subscribers -> Cursors]
      /\ store \in 0..MaxPicks /\ Server!ServerTypeOK
      /\ \A s \in Subscribers : WriterInv(writer[s], cursor[s])
      /\ mSubscriberCount \in Int
  BY DEF ServiceInv, Server!ServerTypeOK
\* A writer steps, and its cursor stays where it is.
<1>b. ASSUME NEW s \in Subscribers, NEW v, WriterInv(v, cursor[s]),
             writer' = [writer EXCEPT ![s] = v], cursor' = cursor,
             store' = store, mSubscriberCount' \in Int, UNCHANGED serviceVars
      PROVE  ServiceInv'
  <2>1. cursor' = [cursor EXCEPT ![s] = cursor[s]]
    BY <1>a, <1>b
  <2>. QED BY <1>b, <2>1, OneWriterSteps
<1>1. CASE Enqueue
  <2>1. store' \in 0..MaxPicks
    BY <1>1, <1>a DEF Enqueue, StoreEnqueue, SubscribeAssumption
  <2>2. Server!ServerTypeOK'
    BY <1>1, <1>a DEF Enqueue, serviceVars, Server!ServerTypeOK
  <2>3. writer' = writer /\ cursor' = cursor
    BY <1>1 DEF Enqueue, StoreEnqueue
  <2>. QED BY <1>a, <2>1, <2>2, <2>3 DEF ServiceInv
<1>2. ASSUME NEW s \in Subscribers, CheckLimit(s) PROVE ServiceInv'
  <2>. DEFINE w == writer[s]
              c == cursor[s]
              v == IF LimitReached
                   THEN Refused([w EXCEPT !.phase = "admitted"], "limit")
                   ELSE [w EXCEPT !.phase = "admitted"]
  <2>1. WriterInv(w, c) /\ w.phase = "none"
    BY <1>2, <1>a DEF CheckLimit
  <2>2. WriterInv(v, c)
    BY <2>1, ChecksKeep, RefusalsKeep
  <2>3. writer' = [writer EXCEPT ![s] = v]
    BY <1>2, <1>a DEF CheckLimit
  <2>. HIDE DEF v
  <2>. QED BY <1>2, <1>a, <1>b, <2>2, <2>3 DEF CheckLimit
<1>3. ASSUME NEW s \in Subscribers, CheckToken(s) PROVE ServiceInv'
  <2>. DEFINE w == writer[s]
              c == cursor[s]
              v == IF s \in Unauthorized
                   THEN Refused([w EXCEPT !.phase = "checked"], "token")
                   ELSE [w EXCEPT !.phase = "checked"]
  <2>1. WriterInv(w, c) /\ w.phase = "admitted"
    BY <1>3, <1>a DEF CheckToken
  <2>2. WriterInv(v, c)
    BY <2>1, ChecksKeep, RefusalsKeep
  <2>3. writer' = [writer EXCEPT ![s] = v]
    BY <1>3, <1>a DEF CheckToken
  <2>. HIDE DEF v
  <2>. QED BY <1>3, <1>a, <1>b, <2>2, <2>3 DEF CheckToken
<1>4. ASSUME NEW s \in Subscribers, Subscribe(s) PROVE ServiceInv'
  <2>1. PICK from \in Starts(s) :
          /\ StoreSubscribe(s, from)
          /\ writer' = [writer EXCEPT ![s].phase = "subscribed", ![s].from = from]
    BY <1>4 DEF Subscribe
  <2>. DEFINE w == writer[s]
              v == [w EXCEPT !.phase = "subscribed", !.from = from]
  <2>2. from \in 0..MaxPicks
    BY <1>a DEF Starts, LiveStarts, SubscribeAssumption
  <2>3. WriterInv(w, cursor[s]) /\ w.phase = "checked"
    BY <1>4, <1>a DEF Subscribe
  <2>4. WriterInv(v, from)
    BY <2>2, <2>3, SubscribeKeeps
  <2>5. writer' = [writer EXCEPT ![s] = v]
    BY <2>1, <1>a
  <2>. HIDE DEF v
  <2>. QED BY <1>4, <1>a, <2>1, <2>4, <2>5, OneWriterSteps DEF Subscribe, StoreSubscribe
<1>5. ASSUME NEW s \in Subscribers, SubscribeFails(s) PROVE ServiceInv'
  <2>. DEFINE w == writer[s]
              v == Refused([w EXCEPT !.phase = "subscribed"], "start")
  <2>1. WriterInv(w, cursor[s]) /\ w.phase = "checked"
    BY <1>5, <1>a DEF SubscribeFails
  <2>2. WriterInv(v, cursor[s])
    BY <2>1, RefusalsKeep
  <2>3. writer' = [writer EXCEPT ![s] = v]
    BY <1>5, <1>a DEF SubscribeFails
  <2>. HIDE DEF v
  <2>. QED BY <1>5, <1>a, <1>b, <2>2, <2>3 DEF SubscribeFails
<1>6. ASSUME NEW s \in Subscribers, Register(s) PROVE ServiceInv'
  <2>. DEFINE w == writer[s]
              v == [w EXCEPT !.phase = "polling", !.registered = TRUE]
  <2>1. WriterInv(w, cursor[s]) /\ w.phase = "subscribed"
    BY <1>6, <1>a DEF Register
  <2>2. WriterInv(v, cursor[s])
    BY <2>1, RegisterKeeps
  <2>3. writer' = [writer EXCEPT ![s] = v]
    BY <1>6, <1>a DEF Register
  <2>4. mSubscriberCount' \in Int
    BY <1>6, <1>a DEF Register
  <2>. HIDE DEF v
  <2>. QED BY <1>6, <1>a, <1>b, <2>2, <2>3, <2>4 DEF Register
<1>7. ASSUME NEW s \in Subscribers, LeaveLoop(s) PROVE ServiceInv'
  <2>. DEFINE w == writer[s]
              v == Finished([w EXCEPT !.phase = "idle", !.bound = TRUE])
  <2>1. WriterInv(w, cursor[s]) /\ w.phase = "polling"
    BY <1>7, <1>a DEF LeaveLoop
  <2>2. WriterInv(v, cursor[s])
    BY <2>1, LeaveKeeps
  <2>3. writer' = [writer EXCEPT ![s] = v]
    BY <1>7, <1>a DEF LeaveLoop
  <2>. HIDE DEF v
  <2>. QED BY <1>7, <1>a, <1>b, <2>2, <2>3 DEF LeaveLoop
<1>8. ASSUME NEW s \in Subscribers, WriteFront(s) PROVE ServiceInv'
  <2>. DEFINE w == writer[s]
              v == [w EXCEPT !.phase = "idle", !.bound = TRUE, !.mWriteInProgress = TRUE]
  <2>1. WriterInv(w, cursor[s]) /\ w.phase = "polling" /\ w.mPicksQueue # <<>>
    BY <1>8, <1>a DEF WriteFront
  <2>2. WriterInv(v, cursor[s])
    BY <2>1, WriteKeeps
  <2>3. writer' = [writer EXCEPT ![s] = v]
    BY <1>8, <1>a DEF WriteFront
  <2>. HIDE DEF v
  <2>. QED BY <1>8, <1>a, <1>b, <2>2, <2>3 DEF WriteFront
<1>9. ASSUME NEW s \in Subscribers, GetPicks(s) PROVE ServiceInv'
  <2>. DEFINE w == writer[s]
              c == cursor[s]
              d == Min({store, c + MAXIMUM_QUEUE_SIZE})
              q == [i \in 1..(d - c) |-> c + i]
              v == [w EXCEPT !.mPicksQueue = q]
  <2>1. /\ WriterInv(w, c) /\ w.phase = "polling" /\ w.mPicksQueue = <<>>
        /\ store \in 0..MaxPicks /\ c # NotSubscribed /\ c < store
    BY <1>9, <1>a DEF GetPicks, StoreGetPicks, Subscribed
  <2>2. WriterInv(v, d)
    BY <2>1, GotKeeps
  <2>3. writer' = [writer EXCEPT ![s] = v] /\ cursor' = [cursor EXCEPT ![s] = d]
    BY <1>9, <1>a DEF GetPicks, StoreGetPicks, NewPicks, LastGot
  <2>. HIDE DEF v, d
  <2>. QED BY <1>9, <1>a, <2>2, <2>3, OneWriterSteps DEF GetPicks, StoreGetPicks
<1>10. ASSUME NEW s \in Subscribers, OnWriteDone(s) PROVE ServiceInv'
  <2>. DEFINE w == writer[s]
              u == [w EXCEPT !.written = Append(@, Head(w.mPicksQueue))]
              v == IF mKeepRunning THEN Written(u) ELSE Stopped(u)
  <2>1. WriterInv(w, cursor[s]) /\ w.mWriteInProgress
    BY <1>10, <1>a DEF OnWriteDone
  <2>2. WriterInv(v, cursor[s])
    BY <2>1, WrittenKeeps
  <2>3. writer' = [writer EXCEPT ![s] = v]
    BY <1>10, <1>a DEF OnWriteDone
  <2>. HIDE DEF v
  <2>. QED BY <1>10, <1>a, <1>b, <2>2, <2>3 DEF OnWriteDone
<1>11. ASSUME NEW s \in Subscribers, OnWriteDoneNotOk(s) PROVE ServiceInv'
  <2>. DEFINE w == writer[s]
              v == Finished([w EXCEPT !.mWriteInProgress = FALSE])
  <2>1. WriterInv(w, cursor[s]) /\ w.mWriteInProgress
    BY <1>11, <1>a DEF OnWriteDoneNotOk
  <2>2. WriterInv(v, cursor[s])
    BY <2>1, BrokenKeeps
  <2>3. writer' = [writer EXCEPT ![s] = v]
    BY <1>11, <1>a DEF OnWriteDoneNotOk
  <2>. HIDE DEF v
  <2>. QED BY <1>11, <1>a, <1>b, <2>2, <2>3 DEF OnWriteDoneNotOk
<1>12. ASSUME NEW s \in Subscribers, Cancel(s) PROVE ServiceInv'
  <2>. DEFINE w == writer[s]
              v == [w EXCEPT !.cancelled = TRUE]
  <2>1. WriterInv(w, cursor[s])
    BY <1>a
  <2>2. WriterInv(v, cursor[s])
    BY <2>1, CancelKeeps
  <2>3. writer' = [writer EXCEPT ![s] = v]
    BY <1>12, <1>a DEF Cancel
  <2>. HIDE DEF v
  <2>. QED BY <1>12, <1>a, <1>b, <2>2, <2>3 DEF Cancel
<1>13. ASSUME NEW s \in Subscribers, OnCancel(s) PROVE ServiceInv'
  <2>. DEFINE w == writer[s]
              d == IF w.registered THEN NotSubscribed ELSE cursor[s]
              v == [w EXCEPT !.registered = FALSE, !.onCancel = TRUE]
  <2>1. WriterInv(w, cursor[s])
    BY <1>a
  <2>2. w.registered => w.phase \in {"polling", "idle"}
    BY <2>1 DEF WriterInv, Placed
  <2>3. WriterInv(v, d)
    BY <2>1, <2>2, UnsubscribeKeeps, UnregisteredKeeps
  <2>4. writer' = [writer EXCEPT ![s] = v] /\ cursor' = [cursor EXCEPT ![s] = d]
    BY <1>13, <1>a DEF OnCancel, Unregister, StoreUnsubscribe
  <2>. HIDE DEF v, d
  <2>. QED BY <1>13, <1>a, <2>3, <2>4, OneWriterSteps DEF OnCancel, Unregister, StoreUnsubscribe
<1>14. ASSUME NEW s \in Subscribers, OnDone(s) PROVE ServiceInv'
  <2>. DEFINE w == writer[s]
              d == IF w.registered THEN NotSubscribed ELSE cursor[s]
              v == [w EXCEPT !.phase = "done", !.registered = FALSE]
  <2>1. WriterInv(w, cursor[s]) /\ w.phase = "idle" /\ ~ w.mWriteInProgress
    BY <1>14, <1>a DEF OnDone
  <2>2. WriterInv(v, d)
    BY <2>1, DoneKeeps
  <2>3. writer' = [writer EXCEPT ![s] = v] /\ cursor' = [cursor EXCEPT ![s] = d]
    BY <1>14, <1>a DEF OnDone, Depart, Unregister, StoreUnsubscribe
  <2>. HIDE DEF v, d
  <2>. QED BY <1>14, <1>a, <2>2, <2>3, OneWriterSteps DEF OnDone, Depart, Unregister, StoreUnsubscribe
<1>15. CASE Start \/ Stop
  <2>1. Server!ServerTypeOK' /\ UNCHANGED writerVars
    BY <1>15, <1>a, ServerTypes DEF Start, Stop
  <2>. QED BY <1>a, <2>1 DEF ServiceInv, writerVars
<1>16. CASE UNCHANGED vars
  <2>1. Server!ServerTypeOK'
    BY <1>16, <1>a DEF vars, serviceVars, Server!ServerTypeOK
  <2>. QED BY <1>16, <1>a, <2>1 DEF vars, writerVars, ServiceInv
<1>. QED BY <1>1, <1>2, <1>3, <1>4, <1>5, <1>6, <1>7, <1>8, <1>9, <1>10, <1>11, <1>12,
            <1>13, <1>14, <1>15, <1>16 DEF Next, Construct, NextWrite

LEMMA ServiceInvHolds == ASSUME SubscribeAssumption PROVE Spec => []ServiceInv
<1>1. Init => ServiceInv
  BY ServiceInvInit
<1>2. ServiceInv /\ [Next]_vars => ServiceInv'
  BY ServiceInvNext
<1>. QED BY <1>1, <1>2, PTL DEF Spec

\* Type correctness; a write in progress always has the pick it writes.
THEOREM TypeCorrect == ASSUME SubscribeAssumption PROVE Spec => []TypeOK
<1>1. ServiceInv => TypeOK
  BY DEF ServiceInv, TypeOK, WriterInv, Placed, Cursors
<1>. QED BY <1>1, ServiceInvHolds, PTL

\* nextWrite, OnWriteDone and the chunks of getPicks: whatever a subscriber is sent is
\* its backlog in order, without gaps or repetitions.
THEOREM StreamIsBacklog == ASSUME SubscribeAssumption PROVE Spec => []WritesFollowTheStore
<1>1. ServiceInv => WritesFollowTheStore
  BY DEF ServiceInv, WritesFollowTheStore, WriterInv, InOrder
<1>. QED BY <1>1, ServiceInvHolds, PTL

\* OnCancel, OnDone: no writer that is gone leaves a subscription behind, also when it
\* was refused and served nonetheless.
THEOREM SubscriptionsEnd == ASSUME SubscribeAssumption PROVE Spec => []NoSubscriptionLeaks
<1>1. ServiceInv => NoSubscriptionLeaks
  BY DEF ServiceInv, NoSubscriptionLeaks, Subscribed, WriterInv, Placed
<1>. QED BY <1>1, ServiceInvHolds, PTL

\* Of the calls of Finish spread over the writer only one is reached, unless its
\* constructor made one already.
THEOREM OneFinish == ASSUME SubscribeAssumption PROVE Spec => []FinishedAtMostOnce
<1>1. ServiceInv => FinishedAtMostOnce
  BY DEF ServiceInv, FinishedAtMostOnce, WriterInv, Unfinished
<1>. QED BY <1>1, ServiceInvHolds, PTL

-----------------------------------------------------------------------------
(* How an RPC ends, the safety part of ShutdownDrains; and what is counted *)
(* by a count that is never lowered.                                       *)

Connected == {"polling", "idle", "done"}
EverConnected == InPhase(Connected)

EndInv(w) ==
    /\ w.phase = "idle" => w.mWriteInProgress \/ w.finishes > 0
    /\ w.phase = "done" => ~ w.mWriteInProgress /\ w.finishes > 0

WriterStep(s) ==
    \/ Construct(s) \/ NextWrite(s)
    \/ OnWriteDone(s) \/ OnWriteDoneNotOk(s)
    \/ Cancel(s) \/ OnCancel(s) \/ OnDone(s)

\* The writer w becomes v, and is connected by this if `joins`.
Moves(w, v, joins) ==
    /\ EndInv(v)
    /\ joins => w.phase \notin Connected
    /\ v.phase \in Connected <=> joins \/ w.phase \in Connected

LEMMA WriterMoves ==
    ASSUME SubscribeAssumption, ServiceInv, NEW s \in Subscribers, EndInv(writer[s]),
           WriterStep(s)
    PROVE  /\ server = "serving" \/ writer[s].phase # "none"
           /\ UNCHANGED serviceVars
           /\ \E v : \E joins \in BOOLEAN :
                /\ writer' = [writer EXCEPT ![s] = v]
                /\ Moves(writer[s], v, joins)
                /\ mSubscriberCount' = IF joins THEN mSubscriberCount + 1 ELSE mSubscriberCount
<1>. DEFINE w == writer[s]
            Step == \E v : \E joins \in BOOLEAN :
                      /\ writer' = [writer EXCEPT ![s] = v]
                      /\ Moves(writer[s], v, joins)
                      /\ mSubscriberCount' =
                            IF joins THEN mSubscriberCount + 1 ELSE mSubscriberCount
<1>a. /\ writer \in [Subscribers -> Writer] /\ w \in Writer /\ w.finishes \in Nat
      /\ w.mWriteInProgress => w.phase = "idle"
  BY DEF ServiceInv, WriterInv, Placed, Writer
<1>. USE DEF Connected
\* A constructor that has yet to count the writer.
<1>1. ASSUME CheckLimit(s) \/ CheckToken(s) \/ Subscribe(s) \/ SubscribeFails(s) PROVE Step
  <2>1. /\ w.phase \in {"none", "admitted", "checked"} /\ mSubscriberCount' = mSubscriberCount
        /\ writer' = [writer EXCEPT ![s] = writer'[s]]
    BY <1>1, <1>a DEF CheckLimit, CheckToken, Subscribe, SubscribeFails
  <2>2. writer'[s].phase \in {"admitted", "checked", "subscribed"}
    <3>1. CASE CheckLimit(s)
      BY <1>a, <3>1 DEF CheckLimit, Refused, Finished, Writer
    <3>2. CASE CheckToken(s)
      BY <1>a, <3>2 DEF CheckToken, Refused, Finished, Writer
    <3>3. CASE Subscribe(s)
      BY <1>a, <3>3 DEF Subscribe, Writer
    <3>4. CASE SubscribeFails(s)
      BY <1>a, <3>4 DEF SubscribeFails, Refused, Finished, Writer
    <3>. QED BY <1>1, <3>1, <3>2, <3>3, <3>4
  <2>3. Moves(w, writer'[s], FALSE)
    BY <2>1, <2>2 DEF Moves, EndInv
  <2>. QED BY <2>1, <2>3
<1>2. ASSUME Register(s) PROVE Step
  <2>. DEFINE v == [w EXCEPT !.phase = "polling", !.registered = TRUE]
  <2>1. /\ w.phase = "subscribed" /\ mSubscriberCount' = mSubscriberCount + 1
        /\ writer' = [writer EXCEPT ![s] = v]
    BY <1>2, <1>a DEF Register
  <2>2. v.phase = "polling"
    BY <1>a DEF Writer
  <2>. HIDE DEF v
  <2>3. Moves(w, v, TRUE)
    BY <2>1, <2>2 DEF Moves, EndInv
  <2>. QED BY <2>1, <2>3
\* What is done to a writer that is connected leaves it so.
<1>b. ASSUME NEW v, writer' = [writer EXCEPT ![s] = v], mSubscriberCount' = mSubscriberCount,
             EndInv(v), v.phase \in Connected <=> w.phase \in Connected
      PROVE  Step
  <2>1. Moves(w, v, FALSE)
    BY <1>b DEF Moves
  <2>. QED BY <1>b, <2>1
<1>3. ASSUME LeaveLoop(s) PROVE Step
  <2>. DEFINE u == [w EXCEPT !.phase = "idle", !.bound = TRUE]
              v == Finished(u)
  <2>1. /\ w.phase = "polling" /\ mSubscriberCount' = mSubscriberCount
        /\ writer' = [writer EXCEPT ![s] = v]
    BY <1>3, <1>a DEF LeaveLoop
  <2>2. u \in Writer /\ u.finishes = w.finishes /\ u.phase = "idle"
    BY <1>a DEF Writer
  <2>3. v.finishes = w.finishes + 1 /\ v.phase = "idle"
    BY <2>2, FinishedProperties
  <2>. HIDE DEF v
  <2>4. v.finishes > 0
    BY <1>a, <2>3
  <2>. QED BY <1>b, <2>1, <2>3, <2>4 DEF EndInv
<1>4. ASSUME WriteFront(s) PROVE Step
  <2>. DEFINE v == [w EXCEPT !.phase = "idle", !.bound = TRUE, !.mWriteInProgress = TRUE]
  <2>1. /\ w.phase = "polling" /\ mSubscriberCount' = mSubscriberCount
        /\ writer' = [writer EXCEPT ![s] = v]
    BY <1>4, <1>a DEF WriteFront
  <2>2. v.phase = "idle" /\ v.mWriteInProgress
    BY <1>a DEF Writer
  <2>. HIDE DEF v
  <2>. QED BY <1>b, <2>1, <2>2 DEF EndInv
<1>5. ASSUME GetPicks(s) PROVE Step
  <2>. DEFINE v == [w EXCEPT !.mPicksQueue = NewPicks(s)]
  <2>1. /\ w.phase = "polling" /\ mSubscriberCount' = mSubscriberCount
        /\ writer' = [writer EXCEPT ![s] = v]
    BY <1>5, <1>a DEF GetPicks
  <2>2. v.phase = w.phase
    BY <1>a DEF Writer
  <2>. HIDE DEF v
  <2>. QED BY <1>b, <2>1, <2>2 DEF EndInv
<1>6. ASSUME OnWriteDone(s) PROVE Step
  <2>. DEFINE x == Append(w.written, Head(w.mPicksQueue))
              u == [w EXCEPT !.written = x]
              a == [u EXCEPT !.mWriteInProgress = FALSE]
              v == IF mKeepRunning THEN Written(u) ELSE Stopped(u)
  <2>1. /\ w.phase = "idle" /\ mSubscriberCount' = mSubscriberCount
        /\ writer' = [writer EXCEPT ![s] = v]
    BY <1>6, <1>a DEF OnWriteDone
  <2>. HIDE DEF x
  <2>2. Written(u).phase = "polling"
    BY <1>a DEF Written, Writer
  <2>3. /\ Stopped(u).phase = "idle" /\ Stopped(u).finishes = w.finishes + 1
    BY <1>a, <2>1 DEF Stopped, Finished, Writer
  <2>. HIDE DEF v
  <2>4. v = Written(u) \/ v = Stopped(u)
    BY DEF v
  <2>. HIDE DEF u
  <2>5. v.phase = "polling" \/ (v.phase = "idle" /\ v.finishes > 0)
    BY <1>a, <2>2, <2>3, <2>4
  <2>. QED BY <1>b, <2>1, <2>5 DEF EndInv
<1>7. ASSUME OnWriteDoneNotOk(s) PROVE Step
  <2>. DEFINE u == [w EXCEPT !.mWriteInProgress = FALSE]
              v == Finished(u)
  <2>1. /\ w.phase = "idle" /\ mSubscriberCount' = mSubscriberCount
        /\ writer' = [writer EXCEPT ![s] = v]
    BY <1>7, <1>a DEF OnWriteDoneNotOk
  <2>2. u \in Writer /\ u.finishes = w.finishes /\ u.phase = w.phase
    BY <1>a DEF Writer
  <2>3. v.finishes = w.finishes + 1 /\ v.phase = "idle"
    BY <2>1, <2>2, FinishedProperties
  <2>. HIDE DEF v
  <2>4. v.finishes > 0
    BY <1>a, <2>3
  <2>. QED BY <1>b, <2>1, <2>3, <2>4 DEF EndInv
<1>8. ASSUME Cancel(s) \/ OnCancel(s) PROVE Step
  <2>. DEFINE v == writer'[s]
  <2>1. mSubscriberCount' = mSubscriberCount /\ writer' = [writer EXCEPT ![s] = v]
    BY <1>8, <1>a DEF Cancel, OnCancel
  <2>2. /\ v.phase = w.phase /\ v.finishes = w.finishes
        /\ v.mWriteInProgress = w.mWriteInProgress
    BY <1>8, <1>a DEF Cancel, OnCancel, Writer
  <2>. HIDE DEF v
  <2>. QED BY <1>b, <2>1, <2>2 DEF EndInv
<1>9. ASSUME OnDone(s) PROVE Step
  <2>. DEFINE v == [w EXCEPT !.phase = "done", !.registered = FALSE]
  <2>1. /\ w.phase = "idle" /\ w.finishes > 0 /\ ~ w.mWriteInProgress
        /\ mSubscriberCount' = mSubscriberCount
        /\ writer' = [writer EXCEPT ![s] = v]
    BY <1>9, <1>a DEF OnDone
  <2>2. v.phase = "done" /\ v.finishes = w.finishes /\ v.mWriteInProgress = w.mWriteInProgress
    BY <1>a DEF Writer
  <2>. HIDE DEF v
  <2>. QED BY <1>b, <2>1, <2>2 DEF EndInv
<1>10. (server = "serving" \/ w.phase # "none") /\ UNCHANGED serviceVars
  BY <1>a DEF WriterStep, Construct, NextWrite, CheckLimit, CheckToken, Subscribe,
     SubscribeFails, Register, LeaveLoop, WriteFront, GetPicks, OnWriteDone,
     OnWriteDoneNotOk, Cancel, OnCancel, OnDone, ServiceInv, WriterInv, Placed
<1>. HIDE DEF Step
<1>11. Step
  BY <1>1, <1>2, <1>3, <1>4, <1>5, <1>6, <1>7, <1>8, <1>9
     DEF WriterStep, Construct, NextWrite
<1>. QED BY <1>10, <1>11 DEF Step

\* Before the server there are no writers, so that start() resets a count of none;
\* what stop() resets is not counted again.
CountedInv ==
    /\ \A s \in Subscribers : EndInv(writer[s])
    /\ server = "none" <=> starter \in {"called", "building"}
    /\ server = "none" => \A s \in Subscribers : writer[s].phase = "none"
    /\ stopper = "draining" => server = "shutting_down"
    /\ mSubscriberCount \in Nat
    /\ mSubscriberCount <= Cardinality(EverConnected)
    /\ stopper # "stopped" => mSubscriberCount = Cardinality(EverConnected)

LEMMA ConnectedAreFinite ==
    ASSUME SubscribeAssumption
    PROVE  IsFiniteSet(EverConnected) /\ Cardinality(EverConnected) \in Nat
<1>1. EverConnected \subseteq Subscribers
  BY DEF EverConnected, InPhase
<1>. QED BY <1>1, FS_Subset, FS_CardinalityType DEF SubscribeAssumption

LEMMA CountedInvNext ==
    ASSUME SubscribeAssumption, ServiceInv, CountedInv, [Next]_vars PROVE CountedInv'
<1>. DEFINE n == Cardinality(EverConnected)
            c == mSubscriberCount
<1>a. /\ writer \in [Subscribers -> Writer]
      /\ n \in Nat /\ c \in Nat /\ c <= n /\ (stopper # "stopped" => c = n)
  BY ConnectedAreFinite DEF ServiceInv, CountedInv
<1>1. ASSUME NEW s \in Subscribers, WriterStep(s) PROVE CountedInv'
  <2>1. PICK v : \E joins \in BOOLEAN :
          /\ writer' = [writer EXCEPT ![s] = v]
          /\ Moves(writer[s], v, joins)
          /\ c' = IF joins THEN c + 1 ELSE c
    BY <1>1, WriterMoves DEF CountedInv
  <2>2. PICK joins \in BOOLEAN :
          /\ writer' = [writer EXCEPT ![s] = v]
          /\ Moves(writer[s], v, joins)
          /\ c' = IF joins THEN c + 1 ELSE c
    BY <2>1
  <2>3. (server = "serving" \/ writer[s].phase # "none") /\ UNCHANGED serviceVars
    BY <1>1, WriterMoves DEF CountedInv
  <2>4. writer'[s] = v /\ \A t \in Subscribers \ {s} : writer'[t] = writer[t]
    BY <1>a, <2>2
  <2>5. EverConnected' = IF joins THEN EverConnected \cup {s} ELSE EverConnected
    BY <2>2, <2>4 DEF EverConnected, InPhase, Moves
  <2>6. joins => s \notin EverConnected
    BY <2>2 DEF EverConnected, InPhase, Moves
  <2>7. Cardinality(EverConnected') = IF joins THEN n + 1 ELSE n
    <3>1. IsFiniteSet(EverConnected)
      BY ConnectedAreFinite
    <3>2. joins => Cardinality(EverConnected \cup {s}) = n + 1
      BY <2>6, <3>1, FS_AddElement
    <3>. QED BY <2>5, <3>2
  <2>8. /\ c' \in Nat /\ c' <= Cardinality(EverConnected')
        /\ stopper # "stopped" => c' = Cardinality(EverConnected')
    <3>. HIDE DEF c, n
    <3>1. CASE joins
      <4>1. c' = c + 1 /\ Cardinality(EverConnected') = n + 1
        BY <2>2, <2>7, <3>1
      <4>. QED BY <1>a, <4>1
    <3>2. CASE ~ joins
      <4>1. c' = c /\ Cardinality(EverConnected') = n
        BY <2>2, <2>7, <3>2
      <4>. QED BY <1>a, <4>1
    <3>. QED BY <3>1, <3>2
  <2>9. \A t \in Subscribers : EndInv(writer'[t])
    BY <2>2, <2>4 DEF CountedInv, Moves
  <2>10. server # "none"
    BY <2>3 DEF CountedInv
  <2>. QED BY <2>3, <2>8, <2>9, <2>10 DEF CountedInv, serviceVars
<1>2. CASE Start
  <2>1. writer' = writer /\ EverConnected' = EverConnected
    BY <1>2 DEF Start, writerVars, EverConnected, InPhase
  <2>2. CASE Server!BeginStart
    <3>1. \A s \in Subscribers : writer[s].phase = "none"
      BY <2>2 DEF CountedInv, Server!BeginStart
    <3>2. EverConnected = {}
      BY <3>1 DEF EverConnected, InPhase, Connected
    <3>3. n = 0 /\ c' = 0
      BY <2>2, <3>2, FS_EmptySet DEF Server!BeginStart
    <3>. QED BY <2>1, <2>2, <3>3 DEF CountedInv, Server!BeginStart
  <2>3. CASE Server!BuildAndStart
    BY <2>1, <2>3 DEF CountedInv, Server!BuildAndStart
  <2>4. CASE Server!MarkStarted
    BY <2>1, <2>4 DEF CountedInv, Server!MarkStarted
  <2>5. CASE Server!WaitReturns
    BY <2>1, <2>5 DEF CountedInv, Server!WaitReturns
  <2>. QED BY <1>2, <2>2, <2>3, <2>4, <2>5 DEF Start, Server!Start
<1>3. CASE Stop
  <2>1. writer' = writer /\ EverConnected' = EverConnected
    BY <1>3 DEF Stop, writerVars, EverConnected, InPhase
  <2>2. CASE Server!ResetCount
    <3>1. c' = 0 /\ stopper' = "stopped" /\ server' = server /\ starter' = starter
      BY <2>2 DEF Server!ResetCount
    <3>2. c' \in Nat /\ c' <= Cardinality(EverConnected')
      BY <1>a, <2>1, <3>1
    <3>. QED BY <2>1, <3>1, <3>2 DEF CountedInv
  <2>3. CASE Server!BeginStop
    BY <2>1, <2>3 DEF CountedInv, Server!BeginStop
  <2>4. CASE Server!Shutdown
    BY <2>1, <2>4 DEF CountedInv, Server!Shutdown
  <2>5. CASE Server!NothingToShutDown
    BY <2>1, <2>5 DEF CountedInv, Server!NothingToShutDown
  <2>6. CASE Server!ShutdownReturns(Outstanding)
    BY <2>1, <2>6 DEF CountedInv, Server!ShutdownReturns
  <2>. QED BY <1>3, <2>2, <2>3, <2>4, <2>5, <2>6 DEF Stop, Server!Stop
<1>4. CASE Enqueue \/ UNCHANGED vars
  <2>1. writer' = writer /\ EverConnected' = EverConnected
    BY <1>4 DEF Enqueue, vars, writerVars, EverConnected, InPhase
  <2>. QED BY <1>4, <2>1 DEF Enqueue, vars, serviceVars, CountedInv
<1>. QED BY <1>1, <1>2, <1>3, <1>4 DEF Next, WriterStep

LEMMA CountedInvInit == ASSUME SubscribeAssumption, Init PROVE CountedInv
<1>1. \A s \in Subscribers : writer[s].phase = "none"
  BY DEF Init, NoWriter
<1>2. EverConnected = {}
  BY <1>1 DEF EverConnected, InPhase, Connected
<1>3. Cardinality(EverConnected) = 0
  BY <1>2, FS_EmptySet
<1>. QED BY <1>1, <1>3 DEF Init, Server!ServerInit, CountedInv, EndInv

LEMMA CountedInvHolds == ASSUME SubscribeAssumption PROVE Spec => []CountedInv
<1>1. Init => CountedInv
  BY CountedInvInit
<1>2. ServiceInv /\ CountedInv /\ [Next]_vars => CountedInv'
  BY CountedInvNext
<1>. QED BY <1>1, <1>2, ServiceInvHolds, PTL DEF Spec

\* A writer that is neither polling nor in a write that gRPC will end has called
\* Finish, also when it was refused and is served nonetheless.
NoneIsStranded ==
    \A s \in Subscribers :
        /\ writer[s].phase = "idle" => writer[s].mWriteInProgress \/ writer[s].finishes > 0
        /\ writer[s].phase = "done" => ~ writer[s].mWriteInProgress /\ writer[s].finishes > 0

\* nextWrite, OnWriteDone, OnCancel of subscribeService.cpp: stop() meets no RPC that
\* nothing will end, whichever of its many ends each has come to.
THEOREM NoWriterIsStranded == ASSUME SubscribeAssumption PROVE Spec => []NoneIsStranded
<1>1. CountedInv => NoneIsStranded
  BY DEF CountedInv, EndInv, NoneIsStranded
<1>. QED BY <1>1, CountedInvHolds, PTL

\* What mSubscriberCount, which nothing lowers, is instead of the number of subscribers.
CountsAllSinceStart ==
    stopper # "stopped" =>
        mSubscriberCount = Cardinality(InPhase({"polling", "idle", "done"}))

\* A subscriber is turned away by the limit when as many have ever been connected.
RefusedAfterAsMany ==
    \A s \in Subscribers :
        writer[s].refusal # "limit" /\ writer'[s].refusal = "limit" =>
            Cardinality(InPhase({"polling", "idle", "done"})) >= MaximumNumberOfSubscribers

\* The writer's constructor: where RefusedOnlyWhenFull fails this is what holds, for
\* any interleaving of constructors, departures, start() and stop().
THEOREM LimitIsOfAllSinceStart ==
    ASSUME SubscribeAssumption
    PROVE  Spec => []CountsAllSinceStart /\ [][RefusedAfterAsMany]_vars
<1>1. CountedInv => CountsAllSinceStart
  BY DEF CountedInv, CountsAllSinceStart, EverConnected, Connected
<1>2. ASSUME ServiceInv, CountedInv, [Next]_vars PROVE [RefusedAfterAsMany]_vars
  <2>. SUFFICES ASSUME NEW s \in Subscribers, writer[s].refusal # "limit",
                       writer'[s].refusal = "limit"
                PROVE  Cardinality(EverConnected) >= MaximumNumberOfSubscribers
    BY DEF RefusedAfterAsMany, EverConnected, Connected
  <2>a. writer \in [Subscribers -> Writer]
    BY <1>2 DEF ServiceInv
  <2>1. LimitReached
    <3>1. ASSUME NEW t \in Subscribers, WriterStep(t), ~ CheckLimit(t)
          PROVE  writer'[t].refusal # "limit" \/ writer'[t].refusal = writer[t].refusal
      <4>1. CASE CheckToken(t)
        BY <2>a, <4>1 DEF CheckToken, Refused, Finished, Writer
      <4>2. CASE SubscribeFails(t)
        BY <2>a, <4>2 DEF SubscribeFails, Refused, Finished, Writer
      <4>3. CASE Subscribe(t) \/ Register(t)
        BY <2>a, <4>3 DEF Subscribe, Register, Writer
      <4>6. CASE LeaveLoop(t)
        BY <2>a, <4>6 DEF LeaveLoop, Finished, Writer
      <4>7. CASE WriteFront(t) \/ GetPicks(t)
        BY <2>a, <4>7 DEF WriteFront, GetPicks, Writer
      <4>4. CASE OnWriteDone(t)
        BY <2>a, <4>4 DEF OnWriteDone, Written, Stopped, Finished, Writer
      <4>5. CASE OnWriteDoneNotOk(t)
        BY <2>a, <4>5 DEF OnWriteDoneNotOk, Finished, Writer
      <4>8. CASE Cancel(t) \/ OnCancel(t) \/ OnDone(t)
        BY <2>a, <4>8 DEF Cancel, OnCancel, OnDone, Writer
      <4>. QED BY <3>1, <4>1, <4>2, <4>3, <4>4, <4>5, <4>6, <4>7, <4>8
               DEF WriterStep, Construct, NextWrite
    <3>2. ASSUME NEW t \in Subscribers, WriterStep(t), t # s
          PROVE  writer'[s] = writer[s]
      <4>1. PICK v : writer' = [writer EXCEPT ![t] = v]
        BY <1>2, <3>2, WriterMoves DEF CountedInv
      <4>. QED BY <2>a, <3>2, <4>1
    <3>3. ASSUME NEW t \in Subscribers, CheckLimit(t), ~ LimitReached
          PROVE  writer'[t].refusal = writer[t].refusal
      BY <2>a, <3>3 DEF CheckLimit, Writer
    <3>4. ASSUME Start \/ Stop \/ Enqueue \/ UNCHANGED vars PROVE writer' = writer
      BY <3>4 DEF Start, Stop, Enqueue, vars, writerVars
    <3>5. \E t \in Subscribers : WriterStep(t)
      BY <1>2, <3>4 DEF Next, WriterStep
    <3>6. WriterStep(s)
      BY <3>2, <3>5
    <3>7. CheckLimit(s)
      BY <3>1, <3>6
    <3>. QED BY <3>3, <3>7
  <2>. DEFINE n == Cardinality(EverConnected)
              c == mSubscriberCount
              m == MaximumNumberOfSubscribers
  <2>2. n \in Nat /\ c \in Nat /\ m \in Nat /\ c <= n /\ c >= m
    BY <1>2, <2>1, ConnectedAreFinite DEF CountedInv, LimitReached, SubscribeAssumption
  <2>. HIDE DEF n, c, m
  <2>3. n >= m
    BY <2>2
  <2>. QED BY <2>3 DEF n, m
<1>. QED BY <1>1, <1>2, ServiceInvHolds, CountedInvHolds, PTL DEF Spec

-----------------------------------------------------------------------------
(* The broker's view of the service: its server without its RPCs.          *)

LifecycleServer == INSTANCE GrpcServer WITH StopBeforeStart <- TRUE, count <- 0

\* start, stop and the writers of subscribeService.cpp: a step of the service is one
\* of the server that BrokerLifecycle has in its place, whose Shutdown finds nothing
\* outstanding, or none of the broker's concern.
THEOREM ServiceIsServer ==
    Spec => /\ LifecycleServer!ServerInit
            /\ [][LifecycleServer!Start \/ LifecycleServer!Stop({})]_serviceVars
<1>1. Init => LifecycleServer!ServerInit
  BY DEF Init, Server!ServerInit, LifecycleServer!ServerInit
<1>2. ASSUME [Next]_vars
      PROVE  [LifecycleServer!Start \/ LifecycleServer!Stop({})]_serviceVars
  <2>1. CASE Start
    BY <2>1 DEF Start, Server!Start, Server!BeginStart, Server!BuildAndStart,
       Server!MarkStarted, Server!WaitReturns, LifecycleServer!Start,
       LifecycleServer!BeginStart, LifecycleServer!BuildAndStart,
       LifecycleServer!MarkStarted, LifecycleServer!WaitReturns, serviceVars
  <2>2. CASE Stop
    BY <2>2 DEF Stop, Server!Stop, Server!BeginStop, Server!Shutdown,
       Server!NothingToShutDown, Server!ShutdownReturns, Server!ResetCount,
       LifecycleServer!Stop, LifecycleServer!BeginStop, LifecycleServer!Shutdown,
       LifecycleServer!NothingToShutDown, LifecycleServer!ShutdownReturns,
       LifecycleServer!ResetCount, serviceVars
  <2>3. ~ Start /\ ~ Stop => UNCHANGED serviceVars
    BY <1>2 DEF Next, vars, Enqueue, Construct, CheckLimit, CheckToken, Subscribe,
       SubscribeFails, Register, NextWrite, LeaveLoop, WriteFront, GetPicks,
       OnWriteDone, OnWriteDoneNotOk, Cancel, OnCancel, OnDone
  <2>. QED BY <2>1, <2>2, <2>3
<1>. QED BY <1>1, <1>2, PTL DEF Spec
=============================================================================
