------------------------ MODULE PublishServiceProofs ------------------------
(***************************************************************************)
(* Theorems about PublishService, for every finite set of publishers, both *)
(* limits and any number of messages.                                      *)
(***************************************************************************)
EXTENDS PublishService, FiniteSetTheorems, SequenceTheorems, TLAPS

-----------------------------------------------------------------------------
(* Streaks of invalid messages.                                            *)

InvalidOnes(q, i, j) == { k \in i..j : q[k] = "invalid" }

\* The session q ends in a streak with n invalid messages and none accepted.
Streak(n, q) ==
    \E i \in 1..(Len(q) + 1) :
        /\ \A k \in i..Len(q) : q[k] # "accepted"
        /\ Cardinality(InvalidOnes(q, i, Len(q))) = n

\* The session q deserves a purge.
Deserved(q) ==
    \E i, j \in 1..Len(q) :
        /\ \A k \in i..j : q[k] # "accepted"
        /\ Cardinality(InvalidOnes(q, i, j)) > MaximumConsecutiveInvalidMessages

LEMMA InvalidOnesFinite ==
    ASSUME NEW q, NEW i \in Int, NEW j \in Int
    PROVE  IsFiniteSet(InvalidOnes(q, i, j)) /\ Cardinality(InvalidOnes(q, i, j)) \in Nat
<1>1. IsFiniteSet(i..j)
  BY FS_Interval
<1>2. InvalidOnes(q, i, j) \subseteq i..j
  BY DEF InvalidOnes
<1>. QED BY <1>1, <1>2, FS_Subset, FS_CardinalityType

LEMMA LongStreakIsDeserved ==
    ASSUME PublishAssumption, NEW q \in Seq(Outcomes), NEW n \in Nat, Streak(n, q),
           n > MaximumConsecutiveInvalidMessages
    PROVE  Deserved(q)
<1>1. PICK i \in 1..(Len(q) + 1) :
        /\ \A k \in i..Len(q) : q[k] # "accepted"
        /\ Cardinality(InvalidOnes(q, i, Len(q))) = n
  BY DEF Streak
<1>2. Len(q) \in Nat /\ MaximumConsecutiveInvalidMessages \in Nat
  BY LenProperties DEF PublishAssumption
<1>3. i # Len(q) + 1
  <2>. SUFFICES ASSUME i = Len(q) + 1 PROVE FALSE
    OBVIOUS
  <2>1. i..Len(q) = {}
    BY <1>2
  <2>2. InvalidOnes(q, i, Len(q)) = {}
    BY <2>1 DEF InvalidOnes
  <2>3. n = 0
    BY <1>1, <2>2, FS_EmptySet
  <2>. QED BY <1>2, <2>3
<1>4. i \in 1..Len(q) /\ Len(q) \in 1..Len(q)
  BY <1>2, <1>3
<1>. QED BY <1>1, <1>4 DEF Deserved

LEMMA SessionGoesOn ==
    ASSUME PublishAssumption, NEW q \in Seq(Outcomes), NEW o \in Outcomes, NEW n \in Nat,
           Streak(n, q)
    PROVE  /\ Deserved(q) => Deserved(Append(q, o))
           /\ o = "accepted" => Streak(0, Append(q, o))
           /\ o = "invalid" => Streak(n + 1, Append(q, o))
           /\ o \in {"duplicate", "failed"} => Streak(n, Append(q, o))
<1>. DEFINE l == Len(q)
            x == Append(q, o)
<1>1. /\ l \in Nat /\ x \in Seq(Outcomes) /\ Len(x) = l + 1
      /\ \A k \in 1..l : x[k] = q[k]
      /\ x[l + 1] = o
  BY AppendProperties, LenProperties
<1>. HIDE DEF x
<1>2. ASSUME Deserved(q) PROVE Deserved(x)
  <2>1. PICK i \in 1..l, j \in 1..l :
          /\ \A k \in i..j : q[k] # "accepted"
          /\ Cardinality(InvalidOnes(q, i, j)) > MaximumConsecutiveInvalidMessages
    BY <1>2 DEF Deserved
  <2>2. \A k \in i..j : x[k] = q[k]
    BY <1>1
  <2>3. InvalidOnes(x, i, j) = InvalidOnes(q, i, j)
    BY <2>2 DEF InvalidOnes
  <2>4. i \in 1..Len(x) /\ j \in 1..Len(x)
    BY <1>1
  <2>. QED BY <2>1, <2>2, <2>3, <2>4 DEF Deserved
<1>3. ASSUME o = "accepted" PROVE Streak(0, x)
  <2>1. l + 2 \in 1..(Len(x) + 1) /\ (l + 2)..Len(x) = {}
    BY <1>1
  <2>2. InvalidOnes(x, l + 2, Len(x)) = {}
    BY <2>1 DEF InvalidOnes
  <2>3. Cardinality(InvalidOnes(x, l + 2, Len(x))) = 0
    BY <2>2, FS_EmptySet
  <2>. QED BY <2>1, <2>3 DEF Streak
<1>4. ASSUME o # "accepted"
      PROVE  Streak(IF o = "invalid" THEN n + 1 ELSE n, x)
  <2>1. PICK i \in 1..(l + 1) :
          /\ \A k \in i..l : q[k] # "accepted"
          /\ Cardinality(InvalidOnes(q, i, l)) = n
    BY DEF Streak
  <2>2. \A k \in i..Len(x) : (k \in i..l /\ x[k] = q[k]) \/ (k = l + 1 /\ x[k] = o)
    BY <1>1
  <2>3. \A k \in i..l : k \in i..Len(x) /\ x[k] = q[k]
    BY <1>1
  <2>4. l + 1 \in i..Len(x) /\ l + 1 \notin i..l
    BY <1>1
  <2>5. InvalidOnes(x, i, Len(x)) =
          IF o = "invalid" THEN InvalidOnes(q, i, l) \cup {l + 1} ELSE InvalidOnes(q, i, l)
    BY <1>1, <2>2, <2>3, <2>4 DEF InvalidOnes
  <2>6. l + 1 \notin InvalidOnes(q, i, l) /\ IsFiniteSet(InvalidOnes(q, i, l))
    BY <1>1, <2>4, InvalidOnesFinite DEF InvalidOnes
  <2>7. Cardinality(InvalidOnes(x, i, Len(x))) = IF o = "invalid" THEN n + 1 ELSE n
    BY <2>1, <2>5, <2>6, FS_AddElement
  <2>8. i \in 1..(Len(x) + 1) /\ \A k \in i..Len(x) : x[k] # "accepted"
    BY <1>1, <1>4, <2>1, <2>2
  <2>. QED BY <2>7, <2>8 DEF Streak
<1>. QED BY <1>2, <1>3, <1>4 DEF x

-----------------------------------------------------------------------------
(* One reader and its session.                                             *)

TurnedAway == {"RESOURCE_EXHAUSTED", "UNAUTHENTICATED"}

ReaderInv(r, q) ==
    /\ r \in Reader /\ q \in Seq(Outcomes)
    /\ r.registered => r.phase = "open"
    /\ r.phase \in {"none", "admitted"} =>
          ~ r.reading /\ r.status = "none" /\ q = <<>>
    /\ r.status \in TurnedAway => ~ r.registered /\ ~ r.reading /\ q = <<>>
    /\ r.status = "INVALID_ARGUMENT" => Deserved(q)
    /\ Streak(r.invalidInARow, q)

\* grpc::ServerReadReactor::Finish.
LEMMA FinishedProperties ==
    ASSUME NEW r \in Reader, NEW status \in Statuses
    PROVE  /\ Finished(r, status) \in Reader
           /\ Finished(r, status).status = IF r.status = "none" THEN status ELSE r.status
           /\ Finished(r, status).phase = r.phase
           /\ Finished(r, status).registered = r.registered
           /\ Finished(r, status).reading = r.reading
           /\ Finished(r, status).invalidInARow = r.invalidInARow
<1>. DEFINE k == r.finishes + 1
            t == IF r.status = "none" THEN status ELSE r.status
            v == [r EXCEPT !.finishes = k, !.status = t]
<1>1. k \in Nat /\ t \in Statuses
  BY DEF Reader
<1>2. Finished(r, status) = v
  BY DEF Finished, Reader
<1>. HIDE DEF k, t
<1>3. /\ v \in Reader /\ v.status = t /\ v.phase = r.phase /\ v.registered = r.registered
      /\ v.reading = r.reading /\ v.invalidInARow = r.invalidInARow
  BY <1>1 DEF Reader
<1>. QED BY <1>2, <1>3 DEF t

\* The constructor turns a publisher away.
LEMMA TurnedAwayKeeps ==
    ASSUME NEW r, NEW q, ReaderInv(r, q), r.phase \in {"none", "admitted"},
           NEW status \in TurnedAway
    PROVE  /\ ReaderInv(Finished([r EXCEPT !.phase = "open"], status), q)
           /\ Finished([r EXCEPT !.phase = "open"], status).phase = "open"
           /\ ~ Finished([r EXCEPT !.phase = "open"], status).registered
<1>. DEFINE u == [r EXCEPT !.phase = "open"]
            v == Finished(u, status)
<1>1. /\ r \in Reader /\ ~ r.registered /\ ~ r.reading /\ r.status = "none" /\ q = <<>>
      /\ q \in Seq(Outcomes) /\ Streak(r.invalidInARow, q)
  BY DEF ReaderInv
<1>2. /\ u \in Reader /\ u.phase = "open" /\ ~ u.registered /\ ~ u.reading
      /\ u.status = "none" /\ u.invalidInARow = r.invalidInARow
  BY <1>1 DEF Reader
<1>3. status \in Statuses
  BY DEF Statuses, TurnedAway
<1>. HIDE DEF u
<1>4. /\ v \in Reader /\ v.status = status /\ v.phase = "open" /\ ~ v.registered
      /\ ~ v.reading /\ v.invalidInARow = r.invalidInARow
  BY <1>2, <1>3, FinishedProperties
<1>. HIDE DEF v
<1>5. ReaderInv(v, q)
  BY <1>1, <1>4 DEF ReaderInv, TurnedAway
<1>. QED BY <1>4, <1>5 DEF v, u

LEMMA AdmittedKeeps ==
    ASSUME NEW r, NEW q, ReaderInv(r, q), r.phase = "none"
    PROVE  /\ ReaderInv([r EXCEPT !.phase = "admitted"], q)
           /\ [r EXCEPT !.phase = "admitted"].phase = "admitted"
           /\ [r EXCEPT !.phase = "admitted"].registered = r.registered
<1>. DEFINE v == [r EXCEPT !.phase = "admitted"]
<1>1. r \in Reader
  BY DEF ReaderInv
<1>2. /\ v \in Reader /\ v.phase = "admitted" /\ v.registered = r.registered
      /\ v.reading = r.reading /\ v.status = r.status /\ v.invalidInARow = r.invalidInARow
  BY <1>1 DEF Reader
<1>. HIDE DEF v
<1>3. ReaderInv(v, q)
  BY <1>2 DEF ReaderInv
<1>. QED BY <1>2, <1>3 DEF v

\* ReadOrFinish of a reader that is open, not turned away, and not reading.
LEMMA GoesOnKeeps ==
    ASSUME NEW u \in Reader, NEW q \in Seq(Outcomes), u.phase = "open" \/ ~ u.registered,
           u.phase \notin {"none", "admitted"}, ~ u.reading,
           u.status \notin TurnedAway, u.status = "INVALID_ARGUMENT" => Deserved(q),
           Streak(u.invalidInARow, q), NEW status \in {"OK", "UNAVAILABLE"}
    PROVE  /\ ReaderInv(ReadOrFinish(u, status), q)
           /\ ReaderInv(Finished(u, status), q)
           /\ ReadOrFinish(u, status).phase = u.phase
           /\ ReadOrFinish(u, status).registered = u.registered
           /\ Finished(u, status).phase = u.phase
           /\ Finished(u, status).registered = u.registered
<1>. DEFINE v == Finished(u, status)
            w == [u EXCEPT !.reading = TRUE]
<1>1. status \in Statuses
  BY DEF Statuses
<1>2. /\ v \in Reader /\ v.phase = u.phase /\ v.registered = u.registered
      /\ v.reading = u.reading /\ v.invalidInARow = u.invalidInARow
      /\ v.status = IF u.status = "none" THEN status ELSE u.status
  BY <1>1, FinishedProperties
<1>3. /\ w \in Reader /\ w.phase = u.phase /\ w.registered = u.registered
      /\ w.invalidInARow = u.invalidInARow /\ w.status = u.status
  BY DEF Reader
<1>. HIDE DEF v, w
<1>4. ReaderInv(v, q)
  BY <1>2 DEF ReaderInv, TurnedAway
<1>5. ReaderInv(w, q)
  BY <1>3 DEF ReaderInv, TurnedAway
<1>6. ReadOrFinish(u, status) = v \/ ReadOrFinish(u, status) = w
  BY DEF ReadOrFinish, v, w
<1>. QED BY <1>2, <1>3, <1>4, <1>5, <1>6 DEF v

\* A reader that has turned to reading was not turned away.
LEMMA ReadingProperties ==
    ASSUME NEW r, NEW q, ReaderInv(r, q), r.reading
    PROVE  /\ r \in Reader /\ r.phase \notin {"none", "admitted"} /\ r.status \notin TurnedAway
           /\ r.phase = "open" \/ ~ r.registered
           /\ r.status = "INVALID_ARGUMENT" => Deserved(q)
           /\ Streak(r.invalidInARow, q) /\ q \in Seq(Outcomes)
  BY DEF ReaderInv

\* What a message does to the counters and to the status of its RPC.
LEMMA JudgedProperties ==
    ASSUME PublishAssumption, NEW u \in Reader, NEW q \in Seq(Outcomes), NEW o \in Outcomes,
           NEW x, x = Append(q, o),
           u.status = "INVALID_ARGUMENT" => Deserved(q), Streak(u.invalidInARow, q),
           u.status \notin TurnedAway
    PROVE  LET j == Judged(u, o)
           IN  /\ j \in Reader /\ j.phase = u.phase /\ j.registered = u.registered
               /\ j.reading = u.reading /\ j.status \notin TurnedAway
               /\ j.status = "INVALID_ARGUMENT" => Deserved(x)
               /\ Streak(j.invalidInARow, x)
<1>. DEFINE n == u.invalidInARow
<1>1. n \in Nat
  BY DEF Reader
<1>2. /\ Deserved(q) => Deserved(x)
      /\ o = "accepted" => Streak(0, x)
      /\ o = "invalid" => Streak(n + 1, x)
      /\ o \in {"duplicate", "failed"} => Streak(n, x)
  BY <1>1, SessionGoesOn
<1>3. x \in Seq(Outcomes)
  BY AppendProperties
<1>4. CASE o = "accepted"
  <2>. DEFINE j == [u EXCEPT !.invalidInARow = 0]
  <2>1. /\ j \in Reader /\ j.phase = u.phase /\ j.registered = u.registered
        /\ j.reading = u.reading /\ j.status = u.status /\ j.invalidInARow = 0
    BY DEF Reader
  <2>2. Judged(u, o) = j
    BY <1>4 DEF Judged, Accepted
  <2>. HIDE DEF j
  <2>. QED BY <1>2, <1>4, <2>1, <2>2
<1>5. CASE o = "duplicate"
  <2>. DEFINE a == u.rejected + 1
              b == u.duplicate + 1
              j == [u EXCEPT !.rejected = a, !.duplicate = b]
  <2>1. a \in Nat /\ b \in Nat
    BY DEF Reader
  <2>2. Judged(u, o) = j
    BY <1>5 DEF Judged, Duplicate
  <2>. HIDE DEF a, b
  <2>3. /\ j \in Reader /\ j.phase = u.phase /\ j.registered = u.registered
        /\ j.reading = u.reading /\ j.status = u.status /\ j.invalidInARow = n
    BY <2>1 DEF Reader
  <2>. HIDE DEF j
  <2>. QED BY <1>2, <1>5, <2>2, <2>3
<1>6. CASE o = "failed"
  <2>. DEFINE a == u.rejected + 1
              j == [u EXCEPT !.rejected = a]
  <2>1. a \in Nat
    BY DEF Reader
  <2>2. Judged(u, o) = j
    BY <1>6 DEF Judged, Failed
  <2>. HIDE DEF a
  <2>3. /\ j \in Reader /\ j.phase = u.phase /\ j.registered = u.registered
        /\ j.reading = u.reading /\ j.status = u.status /\ j.invalidInARow = n
    BY <2>1 DEF Reader
  <2>. HIDE DEF j
  <2>. QED BY <1>2, <1>6, <2>2, <2>3
<1>7. CASE o = "invalid"
  <2>. DEFINE a == n + 1
              b == u.invalid + 1
              c == [u EXCEPT !.invalidInARow = a, !.invalid = b]
              j == IF a > MaximumConsecutiveInvalidMessages
                   THEN Finished(c, "INVALID_ARGUMENT") ELSE c
  <2>1. a \in Nat /\ b \in Nat
    BY <1>1 DEF Reader
  <2>2. Judged(u, o) = j
    <3>1. c.invalidInARow = a
      BY DEF Reader
    <3>. QED BY <1>7, <3>1 DEF Judged, Invalid
  <2>3. Streak(a, x)
    BY <1>2, <1>7
  <2>. HIDE DEF a, b
  <2>4. /\ c \in Reader /\ c.phase = u.phase /\ c.registered = u.registered
        /\ c.reading = u.reading /\ c.status = u.status /\ c.invalidInARow = a
    BY <2>1 DEF Reader
  <2>. HIDE DEF c
  <2>5. CASE a > MaximumConsecutiveInvalidMessages
    <3>1. Deserved(x)
      BY <1>3, <2>1, <2>3, <2>5, LongStreakIsDeserved
    <3>2. "INVALID_ARGUMENT" \in Statuses
      BY DEF Statuses
    <3>3. /\ j \in Reader /\ j.phase = u.phase /\ j.registered = u.registered
          /\ j.reading = u.reading /\ j.invalidInARow = a
          /\ j.status \in {"INVALID_ARGUMENT", u.status}
      BY <2>4, <2>5, <3>2, FinishedProperties
    <3>. HIDE DEF j
    <3>. QED BY <2>2, <2>3, <3>1, <3>3 DEF TurnedAway
  <2>6. CASE ~ (a > MaximumConsecutiveInvalidMessages)
    <3>1. j = c
      BY <2>6
    <3>. HIDE DEF j
    <3>. QED BY <1>2, <2>2, <2>3, <2>4, <3>1
  <2>. QED BY <2>5, <2>6
<1>. QED BY <1>4, <1>5, <1>6, <1>7 DEF Outcomes

\* What OnReadDone and the end of the stream make of a reader.
Reacted(r, o) ==
    ReadOrFinish(Judged(Counted(r), o), "UNAVAILABLE")
Ended(r) ==
    Finished([r EXCEPT !.reading = FALSE,
                       !.response = <<r.total, r.rejected, r.duplicate>>],
             IF mKeepRunning THEN "OK" ELSE "UNAVAILABLE")

LEMMA ReadKeeps ==
    ASSUME PublishAssumption, NEW r, NEW q, ReaderInv(r, q), r.reading, NEW o \in Outcomes
    PROVE  /\ ReaderInv(Reacted(r, o), Append(q, o))
           /\ Reacted(r, o).phase = r.phase /\ Reacted(r, o).registered = r.registered
<1>. DEFINE v == Reacted(r, o)
            t == r.total + 1
            u == [r EXCEPT !.reading = FALSE, !.total = t]
            j == Judged(u, o)
            x == Append(q, o)
<1>1. /\ r \in Reader /\ r.phase \notin {"none", "admitted"} /\ r.status \notin TurnedAway
      /\ r.phase = "open" \/ ~ r.registered
      /\ r.status = "INVALID_ARGUMENT" => Deserved(q)
      /\ Streak(r.invalidInARow, q) /\ q \in Seq(Outcomes)
  BY ReadingProperties
<1>2. t \in Nat
  BY <1>1 DEF Reader
<1>3. v = ReadOrFinish(j, "UNAVAILABLE")
  BY DEF Reacted, Counted
<1>. HIDE DEF t
<1>4. /\ u \in Reader /\ ~ u.reading /\ u.phase = r.phase /\ u.registered = r.registered
      /\ u.status = r.status /\ u.invalidInARow = r.invalidInARow
  BY <1>1, <1>2 DEF Reader
<1>. HIDE DEF u
<1>5. /\ j \in Reader /\ j.phase = u.phase /\ j.registered = u.registered
      /\ j.reading = u.reading /\ j.status \notin TurnedAway
      /\ j.status = "INVALID_ARGUMENT" => Deserved(x)
      /\ Streak(j.invalidInARow, x)
  BY <1>1, <1>4, JudgedProperties
<1>6. x \in Seq(Outcomes)
  BY <1>1, AppendProperties
<1>. HIDE DEF j, x
<1>7. /\ ReaderInv(ReadOrFinish(j, "UNAVAILABLE"), x)
      /\ ReadOrFinish(j, "UNAVAILABLE").phase = j.phase
      /\ ReadOrFinish(j, "UNAVAILABLE").registered = j.registered
  BY <1>1, <1>4, <1>5, <1>6, GoesOnKeeps
<1>. QED BY <1>3, <1>4, <1>5, <1>7 DEF x

\* The stream has ended, and the response is on its way.
LEMMA EndKeeps ==
    ASSUME NEW r, NEW q, ReaderInv(r, q), r.reading
    PROVE  /\ ReaderInv(Ended(r), q)
           /\ Ended(r).phase = r.phase /\ Ended(r).registered = r.registered
<1>. DEFINE status == IF mKeepRunning THEN "OK" ELSE "UNAVAILABLE"
            v == Ended(r)
            s == <<r.total, r.rejected, r.duplicate>>
            u == [r EXCEPT !.reading = FALSE, !.response = s]
<1>1. /\ r \in Reader /\ r.phase \notin {"none", "admitted"} /\ r.status \notin TurnedAway
      /\ r.phase = "open" \/ ~ r.registered
      /\ r.status = "INVALID_ARGUMENT" => Deserved(q)
      /\ Streak(r.invalidInARow, q) /\ q \in Seq(Outcomes)
  BY ReadingProperties
<1>2. r.total \in Nat /\ r.rejected \in Nat /\ r.duplicate \in Nat
  BY <1>1 DEF Reader
<1>3. s \in Seq(Nat)
  BY <1>2
<1>. HIDE DEF s
<1>4. /\ u \in Reader /\ ~ u.reading /\ u.phase = r.phase /\ u.registered = r.registered
      /\ u.status = r.status /\ u.invalidInARow = r.invalidInARow
  BY <1>1, <1>3 DEF Reader
<1>5. v = Finished(u, status) /\ status \in {"OK", "UNAVAILABLE"}
  BY DEF s, Ended
<1>. HIDE DEF u
<1>6. /\ ReaderInv(Finished(u, status), q)
      /\ Finished(u, status).phase = u.phase
      /\ Finished(u, status).registered = u.registered
  BY <1>1, <1>4, <1>5, GoesOnKeeps
<1>. QED BY <1>4, <1>5, <1>6

\* The publisher is counted, and its first read started unless the service is to stop.
LEMMA RegisterKeeps ==
    ASSUME NEW r, NEW q, ReaderInv(r, q), r.phase = "admitted",
           NEW v, v = ReadOrFinish([r EXCEPT !.phase = "open", !.registered = TRUE], "OK")
    PROVE  ReaderInv(v, q) /\ v.phase = "open" /\ v.registered
<1>. DEFINE u == [r EXCEPT !.phase = "open", !.registered = TRUE]
<1>1. /\ r \in Reader /\ ~ r.reading /\ r.status = "none"
      /\ q \in Seq(Outcomes) /\ Streak(r.invalidInARow, q)
  BY DEF ReaderInv
<1>2. /\ u \in Reader /\ u.phase = "open" /\ u.registered /\ ~ u.reading
      /\ u.status = "none" /\ u.invalidInARow = r.invalidInARow
  BY <1>1 DEF Reader
<1>. HIDE DEF u
<1>3. /\ ReaderInv(ReadOrFinish(u, "OK"), q)
      /\ ReadOrFinish(u, "OK").phase = u.phase
      /\ ReadOrFinish(u, "OK").registered = u.registered
  BY <1>1, <1>2, GoesOnKeeps DEF TurnedAway
<1>. QED BY <1>2, <1>3 DEF u

LEMMA DoneKeeps ==
    ASSUME NEW r, NEW q, ReaderInv(r, q), r.phase = "open",
           NEW v, v = [r EXCEPT !.phase = "done", !.registered = FALSE]
    PROVE  ReaderInv(v, q) /\ v.phase = "done" /\ ~ v.registered
<1>1. r \in Reader
  BY DEF ReaderInv
<1>2. /\ v \in Reader /\ v.phase = "done" /\ ~ v.registered
      /\ v.reading = r.reading /\ v.status = r.status /\ v.invalidInARow = r.invalidInARow
  BY <1>1 DEF Reader
<1>. QED BY <1>2 DEF ReaderInv

-----------------------------------------------------------------------------
(* All readers.                                                            *)

ReaderStep(p) ==
    \/ RefusePublisher(p) \/ AdmitPublisher(p) \/ RejectToken(p) \/ Register(p)
    \/ \E outcome \in Outcomes : OnReadDone(p, outcome)
    \/ OnReadDoneNotOk(p)
    \/ OnDone(p)

ReadersInv ==
    /\ reader \in [Publishers -> Reader] /\ sent \in [Publishers -> Seq(Outcomes)]
    /\ Server!ServerTypeOK
    /\ \A p \in Publishers : ReaderInv(reader[p], sent[p])

Admitted == InPhase("admitted")

\* What becomes of the publisher p, the reader v, and the count of publishers.
Admits(p, v) ==
    /\ server = "serving" /\ reader[p].phase = "none"
    /\ v.phase = "admitted" /\ (v.registered <=> reader[p].registered)
    /\ mPublisherCount < MaximumNumberOfPublishers
    /\ Cardinality(Admitted) < HandlerThreads
    /\ mPublisherCount' = mPublisherCount

Registers(p, v) ==
    /\ reader[p].phase = "admitted" /\ ~ reader[p].registered
    /\ v.phase = "open" /\ v.registered
    /\ mPublisherCount' = mPublisherCount + 1

StaysAsItIs(p, v) ==
    /\ server = "serving" \/ reader[p].phase # "none"
    /\ v.phase # "admitted" /\ (v.registered <=> reader[p].registered)
    /\ \/ v.phase = reader[p].phase
       \/ v.phase = "open" /\ (server = "serving" \/ reader[p].phase = "admitted")
    /\ mPublisherCount' = mPublisherCount

Leaves(p, v) ==
    /\ reader[p].phase = "open"
    /\ v.phase = "done" /\ ~ v.registered
    /\ mPublisherCount' =
          IF reader[p].registered THEN mPublisherCount - 1 ELSE mPublisherCount

Moves(p, v) == Admits(p, v) \/ Registers(p, v) \/ StaysAsItIs(p, v) \/ Leaves(p, v)

LEMMA ReaderMoves ==
    ASSUME PublishAssumption, ReadersInv, NEW p \in Publishers, ReaderStep(p)
    PROVE  \E v, q :
              /\ ReaderInv(v, q) /\ Moves(p, v)
              /\ reader' = [reader EXCEPT ![p] = v]
              /\ sent' = [sent EXCEPT ![p] = q]
              /\ mPublisherCount' \in Int
              /\ UNCHANGED serviceVars
<1>. DEFINE r == reader[p]
            q == sent[p]
<1>a. /\ reader \in [Publishers -> Reader] /\ sent \in [Publishers -> Seq(Outcomes)]
      /\ ReaderInv(r, q) /\ r \in Reader
      /\ mPublisherCount \in Int /\ MaximumNumberOfPublishers \in Nat
  BY DEF ReadersInv, Server!ServerTypeOK, PublishAssumption
<1>b. r.registered => r.phase = "open"
  BY <1>a DEF ReaderInv
<1>c. [sent EXCEPT ![p] = q] = sent
  BY <1>a
<1>1. CASE RefusePublisher(p)
  <2>. DEFINE v == Finished([r EXCEPT !.phase = "open"], "RESOURCE_EXHAUSTED")
  <2>1. r.phase = "none" /\ "RESOURCE_EXHAUSTED" \in TurnedAway
    BY <1>1 DEF RefusePublisher, TurnedAway
  <2>2. ReaderInv(v, q) /\ v.phase = "open" /\ ~ v.registered
    BY <1>a, <2>1, TurnedAwayKeeps
  <2>3. reader' = [reader EXCEPT ![p] = v]
    BY <1>1, <1>a DEF RefusePublisher
  <2>. HIDE DEF v
  <2>4. Moves(p, v)
    BY <1>1, <1>b, <2>1, <2>2 DEF RefusePublisher, Moves, StaysAsItIs
  <2>. QED BY <1>1, <1>a, <1>c, <2>2, <2>3, <2>4 DEF RefusePublisher
<1>2. CASE AdmitPublisher(p)
  <2>. DEFINE v == [r EXCEPT !.phase = "admitted"]
  <2>1. /\ r.phase = "none" /\ server = "serving"
        /\ mPublisherCount < MaximumNumberOfPublishers
        /\ Cardinality(Admitted) < HandlerThreads
        /\ mPublisherCount' = mPublisherCount
    BY <1>2, <1>a DEF AdmitPublisher, LimitReached, Admitted
  <2>2. ReaderInv(v, q) /\ v.phase = "admitted" /\ v.registered = r.registered
    BY <1>a, <2>1, AdmittedKeeps
  <2>3. reader' = [reader EXCEPT ![p] = v]
    BY <1>2, <1>a DEF AdmitPublisher
  <2>. HIDE DEF v
  <2>4. Moves(p, v)
    BY <2>1, <2>2 DEF Moves, Admits
  <2>. QED BY <1>2, <1>a, <1>c, <2>2, <2>3, <2>4 DEF AdmitPublisher
<1>3. CASE RejectToken(p)
  <2>. DEFINE v == Finished([r EXCEPT !.phase = "open"], "UNAUTHENTICATED")
  <2>1. r.phase = "admitted" /\ "UNAUTHENTICATED" \in TurnedAway
    BY <1>3 DEF RejectToken, TurnedAway
  <2>2. ReaderInv(v, q) /\ v.phase = "open" /\ ~ v.registered
    BY <1>a, <2>1, TurnedAwayKeeps
  <2>3. reader' = [reader EXCEPT ![p] = v]
    BY <1>3, <1>a DEF RejectToken
  <2>. HIDE DEF v
  <2>4. Moves(p, v)
    BY <1>3, <1>b, <2>1, <2>2 DEF RejectToken, Moves, StaysAsItIs
  <2>. QED BY <1>3, <1>a, <1>c, <2>2, <2>3, <2>4 DEF RejectToken
<1>4. CASE Register(p)
  <2>. DEFINE v == ReadOrFinish([r EXCEPT !.phase = "open", !.registered = TRUE], "OK")
  <2>1. r.phase = "admitted" /\ mPublisherCount' = mPublisherCount + 1
    BY <1>4 DEF Register
  <2>2. ReaderInv(v, q) /\ v.phase = "open" /\ v.registered
    BY <1>a, <2>1, RegisterKeeps
  <2>3. reader' = [reader EXCEPT ![p] = v]
    BY <1>4, <1>a DEF Register
  <2>. HIDE DEF v
  <2>4. Moves(p, v)
    BY <1>b, <2>1, <2>2 DEF Moves, Registers
  <2>5. mPublisherCount' \in Int
    BY <1>a, <2>1
  <2>. QED BY <1>4, <1>a, <1>c, <2>2, <2>3, <2>4, <2>5 DEF Register
<1>5. ASSUME NEW o \in Outcomes, OnReadDone(p, o)
      PROVE  \E v, s :
                /\ ReaderInv(v, s) /\ Moves(p, v)
                /\ reader' = [reader EXCEPT ![p] = v]
                /\ sent' = [sent EXCEPT ![p] = s]
                /\ mPublisherCount' \in Int
                /\ UNCHANGED serviceVars
  <2>. DEFINE v == Reacted(r, o)
              s == Append(q, o)
  <2>1. r.reading
    BY <1>5 DEF OnReadDone
  <2>2. ReaderInv(v, s) /\ v.phase = r.phase /\ v.registered = r.registered
    BY <1>a, <2>1, ReadKeeps
  <2>3. sent' = [sent EXCEPT ![p] = s]
    BY <1>5, <1>a DEF OnReadDone
  <2>6. reader' = [reader EXCEPT ![p] = v]
    BY <1>5 DEF OnReadDone, Reacted
  <2>4. r.phase \notin {"none", "admitted"}
    BY <1>a, <2>1, ReadingProperties
  <2>. HIDE DEF v, s
  <2>5. Moves(p, v)
    BY <1>5, <2>2, <2>4 DEF OnReadDone, Moves, StaysAsItIs
  <2>. QED BY <1>5, <1>a, <2>2, <2>3, <2>5, <2>6 DEF OnReadDone
<1>6. CASE OnReadDoneNotOk(p)
  <2>. DEFINE v == Ended(r)
  <2>1. r.reading
    BY <1>6 DEF OnReadDoneNotOk
  <2>2. ReaderInv(v, q) /\ v.phase = r.phase /\ v.registered = r.registered
    BY <1>a, <2>1, EndKeeps
  <2>3. reader' = [reader EXCEPT ![p] = v]
    BY <1>6, <1>a DEF OnReadDoneNotOk, Ended
  <2>4. r.phase \notin {"none", "admitted"}
    BY <1>a, <2>1, ReadingProperties
  <2>. HIDE DEF v
  <2>5. Moves(p, v)
    BY <1>6, <2>2, <2>4 DEF OnReadDoneNotOk, Moves, StaysAsItIs
  <2>. QED BY <1>6, <1>a, <1>c, <2>2, <2>3, <2>5 DEF OnReadDoneNotOk
<1>7. CASE OnDone(p)
  <2>. DEFINE v == [r EXCEPT !.phase = "done", !.registered = FALSE]
  <2>1. /\ r.phase = "open"
        /\ mPublisherCount' = mPublisherCount - (IF r.registered THEN 1 ELSE 0)
    BY <1>7 DEF OnDone, Departures
  <2>2. ReaderInv(v, q) /\ v.phase = "done" /\ ~ v.registered
    BY <1>a, <2>1, DoneKeeps
  <2>3. reader' = [reader EXCEPT ![p] = v]
    BY <1>7, <1>a DEF OnDone
  <2>. HIDE DEF v
  <2>4. /\ mPublisherCount' =
              IF reader[p].registered THEN mPublisherCount - 1 ELSE mPublisherCount
        /\ mPublisherCount' \in Int
    BY <1>a, <2>1
  <2>5. Moves(p, v)
    BY <2>1, <2>2, <2>4 DEF Moves, Leaves
  <2>. QED BY <1>7, <1>a, <1>c, <2>2, <2>3, <2>4, <2>5 DEF OnDone
<1>. QED BY <1>1, <1>2, <1>3, <1>4, <1>5, <1>6, <1>7 DEF ReaderStep

\* The sets of readers that the counts are about, after such a step.
LEMMA SetsMove ==
    ASSUME ReadersInv, NEW p \in Publishers, NEW v, reader' = [reader EXCEPT ![p] = v]
    PROVE  /\ Admitted' = IF v.phase = "admitted" THEN Admitted \cup {p} ELSE Admitted \ {p}
           /\ Registered' = IF v.registered THEN Registered \cup {p} ELSE Registered \ {p}
           /\ \A t \in Publishers \ {p} : reader'[t] = reader[t]
           /\ reader'[p] = v
  BY DEF ReadersInv, Admitted, InPhase, Registered

LEMMA ReadersKeep ==
    ASSUME ReadersInv, NEW p \in Publishers, NEW v, NEW q, ReaderInv(v, q),
           reader' = [reader EXCEPT ![p] = v], sent' = [sent EXCEPT ![p] = q],
           mPublisherCount' \in Int, UNCHANGED serviceVars
    PROVE  ReadersInv'
<1>1. v \in Reader /\ q \in Seq(Outcomes)
  BY DEF ReaderInv
<1>2. /\ reader' \in [Publishers -> Reader] /\ sent' \in [Publishers -> Seq(Outcomes)]
  BY <1>1 DEF ReadersInv
<1>3. \A t \in Publishers : ReaderInv(reader'[t], sent'[t])
  <2>. TAKE t \in Publishers
  <2>1. CASE t = p
    <3>1. reader'[t] = v /\ sent'[t] = q
      BY <2>1 DEF ReadersInv
    <3>. QED BY <3>1
  <2>2. CASE t # p
    <3>1. reader'[t] = reader[t] /\ sent'[t] = sent[t]
      BY <2>2 DEF ReadersInv
    <3>2. ReaderInv(reader[t], sent[t])
      BY DEF ReadersInv
    <3>. QED BY <3>1, <3>2
  <2>. QED BY <2>1, <2>2
<1>4. Server!ServerTypeOK'
  BY DEF ReadersInv, serviceVars, Server!ServerTypeOK
<1>. QED BY <1>2, <1>3, <1>4 DEF ReadersInv

-----------------------------------------------------------------------------
(* The service.                                                            *)

LEMMA ServerTypes ==
    ASSUME Server!ServerTypeOK, Server!Start \/ (\E o : Server!Stop(o))
    PROVE  Server!ServerTypeOK'
<1>1. CASE Server!BeginStart
  <2>1. mPublisherCount' \in Int
    BY <1>1 DEF Server!BeginStart
  <2>2. mKeepRunning' \in BOOLEAN /\ mServerStarted' \in BOOLEAN
    BY <1>1 DEF Server!BeginStart, Server!ServerTypeOK
  <2>. QED BY <1>1, <2>1, <2>2 DEF Server!BeginStart, Server!ServerTypeOK
<1>2. CASE Server!BuildAndStart
  BY <1>2 DEF Server!BuildAndStart, Server!ServerTypeOK
<1>3. CASE Server!MarkStarted
  BY <1>3 DEF Server!MarkStarted, Server!ServerTypeOK
<1>4. CASE Server!WaitReturns
  BY <1>4 DEF Server!WaitReturns, Server!ServerTypeOK
<1>5. CASE Server!BeginStop
  BY <1>5 DEF Server!BeginStop, Server!ServerTypeOK
<1>6. CASE Server!Shutdown
  BY <1>6 DEF Server!Shutdown, Server!ServerTypeOK
<1>7. CASE Server!NothingToShutDown
  BY <1>7 DEF Server!NothingToShutDown, Server!ServerTypeOK
<1>8. CASE Server!ResetCount
  <2>1. mPublisherCount' \in Int
    BY <1>8 DEF Server!ResetCount
  <2>2. mKeepRunning' \in BOOLEAN /\ mServerStarted' \in BOOLEAN
    BY <1>8 DEF Server!ResetCount, Server!ServerTypeOK
  <2>. QED BY <1>8, <2>1, <2>2 DEF Server!ResetCount, Server!ServerTypeOK
<1>9. ASSUME NEW o, Server!ShutdownReturns(o) PROVE Server!ServerTypeOK'
  BY <1>9 DEF Server!ShutdownReturns, Server!ServerTypeOK
<1>. QED BY <1>1, <1>2, <1>3, <1>4, <1>5, <1>6, <1>7, <1>8, <1>9 DEF Server!Start, Server!Stop

\* Where the server is when start() and stop() are where they are.
StartInv ==
    /\ server = "none" <=> starter \in {"called", "building"}
    /\ server = "none" => \A p \in Publishers : reader[p].phase = "none"
    /\ stopper = "draining" => server = "shutting_down"

\* And that stop() has not overtaken start().
InTurn ==
    /\ starter \in {"called", "building", "built"} => ~ mServerStarted /\ stopper = "none"
    /\ mServerStarted => server \in {"serving", "shutting_down"}
    /\ stopper = "none" => server \in {"none", "serving"}
    /\ stopper = "pausing" => server = "serving" /\ mServerStarted
    /\ stopper \in {"resetting", "stopped"} => server = "shut_down"
    /\ server = "shut_down" =>
          \A p \in Publishers : reader[p].phase \in {"none", "done"}

ServiceInv == ReadersInv /\ StartInv

AdmissionInv ==
    /\ Cardinality(Admitted) <= HandlerThreads
    /\ mPublisherCount + Cardinality(Admitted)
          <= MaximumNumberOfPublishers + HandlerThreads - 1

LEMMA ServiceInvInit == ASSUME PublishAssumption, Init PROVE ServiceInv
<1>1. ReaderInv(NoReader, <<>>)
  <2>1. NoReader \in Reader /\ NoReader.invalidInARow = 0
    BY DEF NoReader, Reader, Statuses
  <2>2. Len(<<>>) = 0 /\ 1 \in 1..(Len(<<>>) + 1) /\ 1..Len(<<>>) = {}
    OBVIOUS
  <2>3. InvalidOnes(<<>>, 1, Len(<<>>)) = {}
    BY <2>2 DEF InvalidOnes
  <2>4. Cardinality(InvalidOnes(<<>>, 1, Len(<<>>))) = 0
    BY <2>3, FS_EmptySet
  <2>5. Streak(0, <<>>)
    BY <2>2, <2>4 DEF Streak
  <2>. QED BY <2>1, <2>5 DEF ReaderInv, NoReader, TurnedAway
<1>2. mPublisherCount \in Int
  BY DEF Init, Server!ServerInit
<1>3. Server!ServerTypeOK
  <2>1. mKeepRunning \in BOOLEAN /\ mServerStarted \in BOOLEAN
    BY DEF Init, Server!ServerInit
  <2>. QED BY <1>2, <2>1 DEF Init, Server!ServerInit, Server!ServerTypeOK
<1>4. ReadersInv
  <2>1. NoReader \in Reader /\ <<>> \in Seq(Outcomes)
    BY <1>1 DEF ReaderInv
  <2>2. \A p \in Publishers : reader[p] = NoReader /\ sent[p] = <<>>
    BY DEF Init
  <2>3. reader \in [Publishers -> Reader] /\ sent \in [Publishers -> Seq(Outcomes)]
    BY <2>1 DEF Init
  <2>. QED BY <1>1, <1>3, <2>2, <2>3 DEF ReadersInv
<1>5. StartInv
  BY DEF Init, Server!ServerInit, StartInv, NoReader
<1>. QED BY <1>4, <1>5 DEF ServiceInv

LEMMA ServiceInvNext ==
    ASSUME PublishAssumption, ServiceInv, [Next]_vars PROVE ServiceInv'
<1>a. ReadersInv /\ StartInv
  BY DEF ServiceInv
<1>1. ASSUME NEW p \in Publishers, ReaderStep(p) PROVE ServiceInv'
  <2>1. PICK v, q :
          /\ ReaderInv(v, q) /\ Moves(p, v)
          /\ reader' = [reader EXCEPT ![p] = v] /\ sent' = [sent EXCEPT ![p] = q]
          /\ mPublisherCount' \in Int
          /\ UNCHANGED serviceVars
    BY <1>a, <1>1, ReaderMoves
  <2>2. ReadersInv'
    BY <1>a, <2>1, ReadersKeep
  <2>3. server # "none"
    BY <1>a, <2>1 DEF StartInv, Moves, Admits, Registers, StaysAsItIs, Leaves
  <2>4. StartInv'
    BY <1>a, <2>1, <2>3 DEF StartInv, serviceVars
  <2>. QED BY <2>2, <2>4 DEF ServiceInv
<1>2. CASE Start
  <2>1. Server!ServerTypeOK' /\ reader' = reader /\ sent' = sent
    BY <1>2, <1>a, ServerTypes DEF Start, ReadersInv
  <2>2. ReadersInv'
    BY <1>a, <2>1 DEF ReadersInv
  <2>3. StartInv'
    BY <1>2, <1>a, <2>1 DEF StartInv, Start, Server!Start, Server!BeginStart,
       Server!BuildAndStart, Server!MarkStarted, Server!WaitReturns
  <2>. QED BY <2>2, <2>3 DEF ServiceInv
<1>3. CASE Stop
  <2>1. Server!ServerTypeOK' /\ reader' = reader /\ sent' = sent
    BY <1>3, <1>a, ServerTypes DEF Stop, ReadersInv
  <2>2. ReadersInv'
    BY <1>a, <2>1 DEF ReadersInv
  <2>3. StartInv'
    BY <1>3, <1>a, <2>1 DEF StartInv, Stop, Server!Stop, Server!BeginStop, Server!Shutdown,
       Server!NothingToShutDown, Server!ShutdownReturns, Server!ResetCount
  <2>. QED BY <2>2, <2>3 DEF ServiceInv
<1>4. CASE UNCHANGED vars
  <2>1. ReadersInv'
    BY <1>4, <1>a DEF vars, readerVars, serviceVars, ReadersInv, Server!ServerTypeOK
  <2>2. StartInv'
    BY <1>4, <1>a DEF vars, readerVars, serviceVars, StartInv
  <2>. QED BY <2>1, <2>2 DEF ServiceInv
<1>5. Next => (\E p \in Publishers : ReaderStep(p)) \/ Start \/ Stop
  BY DEF Next, ReaderStep
<1>. QED BY <1>1, <1>2, <1>3, <1>4, <1>5

LEMMA SetsAreFinite ==
    ASSUME PublishAssumption
    PROVE  /\ IsFiniteSet(Admitted) /\ IsFiniteSet(Registered)
           /\ Cardinality(Admitted) \in Nat /\ Cardinality(Registered) \in Nat
<1>1. Admitted \subseteq Publishers /\ Registered \subseteq Publishers
  BY DEF Admitted, InPhase, Registered
<1>. QED BY <1>1, FS_Subset, FS_CardinalityType DEF PublishAssumption

LEMMA AdmissionInvNext ==
    ASSUME PublishAssumption, ServiceInv, AdmissionInv, [Next]_vars PROVE AdmissionInv'
<1>. DEFINE A == Cardinality(Admitted)
            c == mPublisherCount
            d == mPublisherCount'
            M == MaximumNumberOfPublishers
            H == HandlerThreads
<1>a. ReadersInv /\ StartInv
  BY DEF ServiceInv
<1>b. /\ A \in Nat /\ c \in Int /\ M \in Nat \ {0} /\ H \in Nat \ {0}
      /\ A <= H /\ c + A <= M + H - 1
  BY <1>a, SetsAreFinite DEF ReadersInv, Server!ServerTypeOK, PublishAssumption, AdmissionInv
<1>c. SUFFICES /\ Cardinality(Admitted') <= H
               /\ d + Cardinality(Admitted') <= M + H - 1
  BY DEF AdmissionInv
<1>1. ASSUME NEW p \in Publishers, ReaderStep(p)
      PROVE  Cardinality(Admitted') <= H /\ d + Cardinality(Admitted') <= M + H - 1
  <2>1. PICK v, q :
          /\ ReaderInv(v, q) /\ Moves(p, v)
          /\ reader' = [reader EXCEPT ![p] = v]
          /\ mPublisherCount' \in Int
    BY <1>a, <1>1, ReaderMoves
  <2>2. Admitted' = IF v.phase = "admitted" THEN Admitted \cup {p} ELSE Admitted \ {p}
    BY <1>a, <2>1, SetsMove
  <2>3. p \in Admitted <=> reader[p].phase = "admitted"
    BY DEF Admitted, InPhase
  <2>4. /\ p \notin Admitted => Cardinality(Admitted \cup {p}) = A + 1
        /\ p \in Admitted => Cardinality(Admitted \ {p}) = A - 1
        /\ p \notin Admitted => Admitted \ {p} = Admitted
    <3>1. IsFiniteSet(Admitted)
      BY SetsAreFinite
    <3>2. p \notin Admitted => Cardinality(Admitted \cup {p}) = A + 1
      BY <3>1, FS_AddElement
    <3>3. p \in Admitted => Cardinality(Admitted \ {p}) = A - 1
      BY <3>1, FS_RemoveElement
    <3>. QED BY <3>2, <3>3
  <2>. HIDE DEF A, c, d, M, H
  <2>5. CASE Admits(p, v)
    <3>1. Cardinality(Admitted') = A + 1 /\ d = c /\ c < M /\ A < H
      BY <2>2, <2>3, <2>4, <2>5 DEF Admits, A, c, d, M, H
    <3>. QED BY <1>b, <3>1
  <2>6. CASE Registers(p, v)
    <3>1. Cardinality(Admitted') = A - 1 /\ d = c + 1
      BY <2>2, <2>3, <2>4, <2>6 DEF Registers, A, c, d
    <3>. QED BY <1>b, <3>1
  <2>7. CASE StaysAsItIs(p, v)
    <3>1. Cardinality(Admitted') \in {A, A - 1} /\ d = c
      BY <2>2, <2>3, <2>4, <2>7 DEF StaysAsItIs, A, c, d
    <3>. QED BY <1>b, <3>1
  <2>8. CASE Leaves(p, v)
    <3>1. Cardinality(Admitted') \in {A, A - 1} /\ (d = c \/ d = c - 1)
      BY <2>2, <2>3, <2>4, <2>8 DEF Leaves, A, c, d
    <3>. QED BY <1>b, <3>1
  <2>. QED BY <2>1, <2>5, <2>6, <2>7, <2>8 DEF Moves
<1>2. ASSUME Start \/ Stop
      PROVE  Cardinality(Admitted') <= H /\ d + Cardinality(Admitted') <= M + H - 1
  <2>1. Admitted' = Admitted
    BY <1>2 DEF Start, Stop, Admitted, InPhase
  <2>2. d = c \/ d = 0
    BY <1>2 DEF Start, Stop, Server!Start, Server!BeginStart, Server!BuildAndStart,
       Server!MarkStarted, Server!WaitReturns, Server!Stop, Server!BeginStop, Server!Shutdown,
       Server!NothingToShutDown, Server!ShutdownReturns, Server!ResetCount
  <2>. HIDE DEF A, c, d, M, H
  <2>3. Cardinality(Admitted') = A
    BY <2>1 DEF A
  <2>. QED BY <1>b, <2>2, <2>3
<1>3. CASE UNCHANGED vars
  <2>1. Admitted' = Admitted /\ d = c
    BY <1>3 DEF vars, readerVars, Admitted, InPhase
  <2>. HIDE DEF A, c, d, M, H
  <2>2. Cardinality(Admitted') = A
    BY <2>1 DEF A
  <2>. QED BY <1>b, <2>1, <2>2
<1>4. Next => (\E p \in Publishers : ReaderStep(p)) \/ Start \/ Stop
  BY DEF Next, ReaderStep
<1>. QED BY <1>1, <1>2, <1>3, <1>4

\* The count and the life of the server, when stop() does not overtake start().
CountInv == InTurn /\ CountIsRegistered

LEMMA CountInvNext ==
    ASSUME PublishAssumption, StopBeforeStart = FALSE, ServiceInv, CountInv, [Next]_vars
    PROVE  CountInv'
<1>a. ReadersInv /\ StartInv /\ InTurn /\ CountIsRegistered /\ mPublisherCount \in Int
  BY DEF ServiceInv, CountInv, ReadersInv, Server!ServerTypeOK
<1>1. ASSUME NEW p \in Publishers, ReaderStep(p) PROVE CountInv'
  <2>1. PICK v, q :
          /\ ReaderInv(v, q) /\ Moves(p, v)
          /\ reader' = [reader EXCEPT ![p] = v]
          /\ UNCHANGED serviceVars
    BY <1>a, <1>1, ReaderMoves
  <2>2. /\ Registered' = IF v.registered THEN Registered \cup {p} ELSE Registered \ {p}
        /\ \A t \in Publishers \ {p} : reader'[t] = reader[t]
        /\ reader'[p] = v
    BY <1>a, <2>1, SetsMove
  <2>3. InTurn'
    <3>1. server = "shut_down" => v.phase \in {"none", "done"}
      BY <1>a, <2>1 DEF InTurn, Moves, Admits, Registers, StaysAsItIs, Leaves
    <3>. QED BY <1>a, <2>1, <2>2, <3>1 DEF InTurn, serviceVars
  <2>4. p \in Registered <=> reader[p].registered
    BY DEF Registered
  <2>. DEFINE R == Cardinality(Registered)
  <2>5. /\ p \notin Registered => Cardinality(Registered \cup {p}) = R + 1
        /\ p \in Registered => Cardinality(Registered \ {p}) = R - 1
        /\ p \notin Registered => Registered \ {p} = Registered
        /\ p \in Registered => Registered \cup {p} = Registered
        /\ R \in Nat /\ mPublisherCount = R
    <3>1. IsFiniteSet(Registered) /\ R \in Nat
      BY SetsAreFinite
    <3>2. p \notin Registered => Cardinality(Registered \cup {p}) = R + 1
      BY <3>1, FS_AddElement
    <3>3. p \in Registered => Cardinality(Registered \ {p}) = R - 1
      BY <3>1, FS_RemoveElement
    <3>. QED BY <1>a, <3>1, <3>2, <3>3 DEF CountIsRegistered
  <2>. HIDE DEF R
  <2>6. mPublisherCount' = Cardinality(Registered')
    <3>1. CASE Admits(p, v)
      BY <2>2, <2>4, <2>5, <3>1 DEF Admits, R
    <3>2. CASE Registers(p, v)
      BY <2>2, <2>4, <2>5, <3>2 DEF Registers, R
    <3>3. CASE StaysAsItIs(p, v)
      BY <2>2, <2>4, <2>5, <3>3 DEF StaysAsItIs, R
    <3>4. CASE Leaves(p, v)
      BY <2>2, <2>4, <2>5, <3>4 DEF Leaves, R
    <3>. QED BY <2>1, <3>1, <3>2, <3>3, <3>4 DEF Moves
  <2>. QED BY <2>3, <2>6 DEF CountInv, CountIsRegistered
<1>b. ASSUME \A p \in Publishers : reader[p].phase # "open" PROVE Cardinality(Registered) = 0
  <2>1. Registered = {}
    BY <1>a, <1>b DEF ReadersInv, ReaderInv, Registered
  <2>. QED BY <2>1, FS_EmptySet
<1>2. CASE Start
  <2>1. reader' = reader /\ Registered' = Registered
    BY <1>2 DEF Start, Registered
  <2>2. InTurn'
    <3>1. CASE Server!BeginStart
      BY <1>a, <2>1, <3>1 DEF InTurn, StartInv, Server!BeginStart
    <3>2. CASE Server!BuildAndStart
      BY <1>a, <2>1, <3>2 DEF InTurn, StartInv, Server!BuildAndStart
    <3>3. CASE Server!MarkStarted
      BY <1>a, <2>1, <3>3 DEF InTurn, StartInv, Server!MarkStarted
    <3>4. CASE Server!WaitReturns
      BY <1>a, <2>1, <3>4 DEF InTurn, StartInv, Server!WaitReturns
    <3>. QED BY <1>2, <3>1, <3>2, <3>3, <3>4 DEF Start, Server!Start
  <2>3. mPublisherCount' = mPublisherCount \/ mPublisherCount' = Cardinality(Registered)
    <3>1. CASE Server!BeginStart
      BY <1>a, <1>b, <3>1 DEF StartInv, Server!BeginStart
    <3>2. CASE ~ Server!BeginStart
      BY <1>2, <3>2 DEF Start, Server!Start, Server!BuildAndStart, Server!MarkStarted,
         Server!WaitReturns
    <3>. QED BY <3>1, <3>2
  <2>. QED BY <1>a, <2>1, <2>2, <2>3 DEF CountInv, CountIsRegistered
<1>3. CASE Stop
  <2>1. reader' = reader /\ Registered' = Registered
    BY <1>3 DEF Stop, Registered
  <2>2. Outstanding = {} => \A p \in Publishers : reader[p].phase \in {"none", "done"}
    BY <1>a DEF Outstanding, InPhase, ReadersInv, Reader
  <2>3. InTurn'
    <3>1. CASE Server!ShutdownReturns(Outstanding)
      BY <1>a, <2>1, <2>2, <3>1 DEF InTurn, StartInv, Server!ShutdownReturns
    <3>2. CASE Server!BeginStop
      BY <1>a, <2>1, <3>2 DEF InTurn, StartInv, Server!BeginStop
    <3>3. CASE Server!Shutdown
      BY <1>a, <2>1, <3>3 DEF InTurn, StartInv, Server!Shutdown
    <3>4. CASE Server!NothingToShutDown
      BY <1>a, <2>1, <3>4 DEF InTurn, StartInv, Server!NothingToShutDown
    <3>5. CASE Server!ResetCount
      BY <1>a, <2>1, <3>5 DEF InTurn, StartInv, Server!ResetCount
    <3>. QED BY <1>3, <3>1, <3>2, <3>3, <3>4, <3>5 DEF Stop, Server!Stop
  <2>4. mPublisherCount' = mPublisherCount \/ mPublisherCount' = Cardinality(Registered)
    <3>1. CASE Server!ResetCount
      BY <1>a, <1>b, <3>1 DEF InTurn, Server!ResetCount
    <3>2. CASE ~ Server!ResetCount
      BY <1>3, <3>2 DEF Stop, Server!Stop, Server!BeginStop, Server!Shutdown,
         Server!NothingToShutDown, Server!ShutdownReturns
    <3>. QED BY <3>1, <3>2
  <2>. QED BY <1>a, <2>1, <2>3, <2>4 DEF CountInv, CountIsRegistered
<1>4. CASE UNCHANGED vars
  BY <1>4, <1>a DEF vars, readerVars, serviceVars, CountInv, InTurn, CountIsRegistered,
     Registered
<1>5. Next => (\E p \in Publishers : ReaderStep(p)) \/ Start \/ Stop
  BY DEF Next, ReaderStep
<1>. QED BY <1>1, <1>2, <1>3, <1>4, <1>5

LEMMA CountInvInit == ASSUME PublishAssumption, Init PROVE AdmissionInv /\ CountInv
<1>1. Admitted = {} /\ Registered = {}
  BY DEF Init, NoReader, Admitted, InPhase, Registered
<1>2. Cardinality(Admitted) = 0 /\ Cardinality(Registered) = 0
  BY <1>1, FS_EmptySet
<1>3. mPublisherCount = 0
  BY DEF Init, Server!ServerInit
<1>4. InTurn
  BY DEF Init, Server!ServerInit, InTurn
<1>. QED BY <1>2, <1>3, <1>4
         DEF AdmissionInv, CountInv, CountIsRegistered, PublishAssumption

LEMMA ServiceInvHolds == ASSUME PublishAssumption PROVE Spec => []ServiceInv
<1>1. Init => ServiceInv
  BY ServiceInvInit
<1>2. ServiceInv /\ [Next]_vars => ServiceInv'
  BY ServiceInvNext
<1>. QED BY <1>1, <1>2, PTL DEF Spec

\* Type correctness; a publisher that was turned away is not counted and has sent
\* nothing, though nothing returns after its Finish.
THEOREM TypeCorrect == ASSUME PublishAssumption PROVE Spec => []TypeOK
<1>1. ServiceInv => TypeOK
  BY DEF ServiceInv, ReadersInv, ReaderInv, TypeOK, TurnedAway
<1>. QED BY <1>1, ServiceInvHolds, PTL

LEMMA DeservedIsMore ==
    ASSUME PublishAssumption, NEW q \in Seq(Outcomes), Deserved(q)
    PROVE  \E i, j \in 1..Len(q) :
              /\ \A k \in i..j : q[k] # "accepted"
              /\ Cardinality({ k \in i..j : q[k] = "invalid" })
                      >= MaximumConsecutiveInvalidMessages
<1>1. PICK i \in 1..Len(q), j \in 1..Len(q) :
         /\ \A k \in i..j : q[k] # "accepted"
         /\ Cardinality(InvalidOnes(q, i, j)) > MaximumConsecutiveInvalidMessages
  BY DEF Deserved
<1>2. Cardinality(InvalidOnes(q, i, j)) \in Nat /\ MaximumConsecutiveInvalidMessages \in Nat
  BY InvalidOnesFinite DEF PublishAssumption
<1>3. Cardinality(InvalidOnes(q, i, j)) >= MaximumConsecutiveInvalidMessages
  BY <1>1, <1>2
<1>. QED BY <1>1, <1>3 DEF InvalidOnes

\* OnReadDone: nobody is purged who has not sent at least that many invalid messages
\* with no accepted pick among them, however long the session and its other messages.
THEOREM PurgesAreDeserved == ASSUME PublishAssumption PROVE Spec => []PurgeIsDeserved
<1>1. ASSUME ServiceInv PROVE PurgeIsDeserved
  <2>. SUFFICES ASSUME NEW p \in Publishers, reader[p].status = "INVALID_ARGUMENT"
                PROVE  \E i, j \in 1..Len(sent[p]) :
                          /\ \A k \in i..j : sent[p][k] # "accepted"
                          /\ Cardinality({ k \in i..j : sent[p][k] = "invalid" })
                                  >= MaximumConsecutiveInvalidMessages
    BY DEF PurgeIsDeserved
  <2>1. sent[p] \in Seq(Outcomes) /\ Deserved(sent[p])
    BY <1>1 DEF ServiceInv, ReadersInv, ReaderInv
  <2>. QED BY <2>1, DeservedIsMore
<1>. QED BY <1>1, ServiceInvHolds, PTL

\* The limit of publishers, read before the count is raised, is overshot by fewer than
\* gRPC has threads, also when stop() overtakes start() and resets the count.
THEOREM OvershootIsBounded == ASSUME PublishAssumption PROVE Spec => []OvershootBounded
<1>1. Init => AdmissionInv
  BY CountInvInit
<1>2. ServiceInv /\ AdmissionInv /\ [Next]_vars => AdmissionInv'
  BY AdmissionInvNext
<1>3. AdmissionInv => OvershootBounded
  BY DEF AdmissionInv, OvershootBounded, Admitted
<1>. QED BY <1>1, <1>2, <1>3, ServiceInvHolds, PTL DEF Spec

\* mPublisherCount is the number of registered readers, across every way an RPC ends and
\* the resets of start() and stop(), for a server that has started before it is stopped.
THEOREM CountIsExact ==
    ASSUME PublishAssumption, StopBeforeStart = FALSE
    PROVE  Spec => []CountIsRegistered
<1>1. Init => CountInv
  BY CountInvInit
<1>2. ServiceInv /\ CountInv /\ [Next]_vars => CountInv'
  BY CountInvNext
<1>3. CountInv => CountIsRegistered
  BY DEF CountInv
<1>. QED BY <1>1, <1>2, <1>3, ServiceInvHolds, PTL DEF Spec

-----------------------------------------------------------------------------
(* The response: each counter tells of the whole session.                  *)

SentAmong(q, outcomes) == { k \in DOMAIN q : q[k] \in outcomes }

Tallied(r, q) ==
    /\ r.total = Len(q)
    /\ r.rejected = Cardinality(SentAmong(q, {"duplicate", "failed"}))
    /\ r.duplicate = Cardinality(SentAmong(q, {"duplicate"}))
    /\ r.phase \in {"none", "admitted"} => r.response = <<>>
    /\ r.response # <<>> =>
          ~ r.reading /\ r.response = <<r.total, r.rejected, r.duplicate>>

TallyInv == \A p \in Publishers : Tallied(reader[p], sent[p])

LEMMA OneMoreSent ==
    ASSUME NEW q \in Seq(Outcomes), NEW o \in Outcomes, NEW outcomes
    PROVE  /\ Cardinality(SentAmong(q, outcomes)) \in Nat
           /\ Cardinality(SentAmong(Append(q, o), outcomes)) =
                IF o \in outcomes THEN Cardinality(SentAmong(q, outcomes)) + 1
                ELSE Cardinality(SentAmong(q, outcomes))
<1>. DEFINE l == Len(q)
            x == Append(q, o)
            A == SentAmong(q, outcomes)
            B == SentAmong(x, outcomes)
<1>1. /\ l \in Nat /\ x \in Seq(Outcomes) /\ Len(x) = l + 1
      /\ \A k \in 1..l : x[k] = q[k]
      /\ x[l + 1] = o
  BY AppendProperties, LenProperties
<1>2. DOMAIN q = 1..l /\ DOMAIN x = 1..(l + 1)
  BY <1>1
<1>3. \A k \in 1..(l + 1) : k = l + 1 \/ k \in 1..l
  BY <1>1
<1>4. (l + 1) \in 1..(l + 1) /\ (l + 1) \notin 1..l /\ 1..l \subseteq 1..(l + 1)
  BY <1>1
<1>. HIDE DEF x
<1>5. B = IF o \in outcomes THEN A \cup {l + 1} ELSE A
  BY <1>1, <1>2, <1>3, <1>4 DEF SentAmong
<1>6. A \subseteq 1..l /\ l + 1 \notin A
  BY <1>2, <1>4 DEF SentAmong
<1>7. IsFiniteSet(1..l)
  BY <1>1, FS_Interval
<1>. HIDE DEF A, B
<1>8. IsFiniteSet(A) /\ Cardinality(A) \in Nat
  BY <1>6, <1>7, FS_Subset, FS_CardinalityType
<1>9. Cardinality(B) = IF o \in outcomes THEN Cardinality(A) + 1 ELSE Cardinality(A)
  BY <1>5, <1>6, <1>8, FS_AddElement
<1>. QED BY <1>8, <1>9 DEF A, B, x

\* A step that counts no message and sends no response.
LEMMA TallyKept ==
    ASSUME NEW r, NEW v, NEW q, Tallied(r, q),
           v.total = r.total, v.rejected = r.rejected, v.duplicate = r.duplicate,
           v.response = r.response,
           v.reading => r.reading \/ r.response = <<>>,
           v.phase \in {"none", "admitted"} => r.phase \in {"none", "admitted"}
    PROVE  Tallied(v, q)
BY DEF Tallied

LEMMA FinishedTallies ==
    ASSUME NEW u \in Reader, NEW status
    PROVE  LET v == Finished(u, status)
           IN  /\ v.total = u.total /\ v.rejected = u.rejected
               /\ v.duplicate = u.duplicate /\ v.response = u.response
               /\ v.reading = u.reading /\ v.phase = u.phase
BY DEF Finished, Reader

LEMMA ReadOrFinishTallies ==
    ASSUME NEW u \in Reader, NEW status
    PROVE  LET v == ReadOrFinish(u, status)
           IN  /\ v.total = u.total /\ v.rejected = u.rejected
               /\ v.duplicate = u.duplicate /\ v.response = u.response
               /\ v.phase = u.phase
<1>1. CASE mKeepRunning
  <2>. DEFINE w == [u EXCEPT !.reading = TRUE]
  <2>1. /\ w.total = u.total /\ w.rejected = u.rejected /\ w.duplicate = u.duplicate
        /\ w.response = u.response /\ w.phase = u.phase
    BY DEF Reader
  <2>. HIDE DEF w
  <2>2. ReadOrFinish(u, status) = w
    BY <1>1 DEF ReadOrFinish, w
  <2>. QED BY <2>1, <2>2
<1>2. CASE ~ mKeepRunning
  <2>1. ReadOrFinish(u, status) = Finished(u, status)
    BY <1>2 DEF ReadOrFinish
  <2>. QED BY <2>1, FinishedTallies
<1>. QED BY <1>1, <1>2

\* OnReadDone counts a message by what became of it.
LEMMA JudgedTallies ==
    ASSUME NEW u \in Reader, NEW o \in Outcomes
    PROVE  LET j == Judged(u, o)
           IN  /\ j \in Reader /\ j.total = u.total /\ j.response = u.response
               /\ j.phase = u.phase
               /\ j.rejected = IF o \in {"duplicate", "failed"} THEN u.rejected + 1
                               ELSE u.rejected
               /\ j.duplicate = IF o \in {"duplicate"} THEN u.duplicate + 1
                                ELSE u.duplicate
<1>. DEFINE a == u.rejected + 1
            b == u.duplicate + 1
            c == u.invalidInARow + 1
            d == u.invalid + 1
<1>1. a \in Nat /\ b \in Nat /\ c \in Nat /\ d \in Nat
  BY DEF Reader
<1>2. CASE o = "accepted"
  <2>. DEFINE j == [u EXCEPT !.invalidInARow = 0]
  <2>1. /\ j \in Reader /\ j.total = u.total /\ j.response = u.response
        /\ j.phase = u.phase /\ j.rejected = u.rejected /\ j.duplicate = u.duplicate
    BY DEF Reader
  <2>2. Judged(u, o) = j
    BY <1>2 DEF Judged, Accepted
  <2>. HIDE DEF j
  <2>. QED BY <1>2, <2>1, <2>2
<1>3. CASE o = "duplicate"
  <2>. DEFINE j == [u EXCEPT !.rejected = a, !.duplicate = b]
  <2>2. Judged(u, o) = j
    BY <1>3 DEF Judged, Duplicate
  <2>. HIDE DEF a, b
  <2>1. /\ j \in Reader /\ j.total = u.total /\ j.response = u.response
        /\ j.phase = u.phase /\ j.rejected = a /\ j.duplicate = b
    BY <1>1 DEF Reader
  <2>. HIDE DEF j
  <2>. QED BY <1>3, <2>1, <2>2 DEF a, b
<1>4. CASE o = "failed"
  <2>. DEFINE j == [u EXCEPT !.rejected = a]
  <2>2. Judged(u, o) = j
    BY <1>4 DEF Judged, Failed
  <2>. HIDE DEF a
  <2>1. /\ j \in Reader /\ j.total = u.total /\ j.response = u.response
        /\ j.phase = u.phase /\ j.rejected = a /\ j.duplicate = u.duplicate
    BY <1>1 DEF Reader
  <2>. HIDE DEF j
  <2>. QED BY <1>4, <2>1, <2>2 DEF a
<1>5. CASE o = "invalid"
  <2>. DEFINE w == [u EXCEPT !.invalidInARow = c, !.invalid = d]
              j == IF c > MaximumConsecutiveInvalidMessages
                   THEN Finished(w, "INVALID_ARGUMENT") ELSE w
  <2>1. Judged(u, o) = j
    <3>1. w.invalidInARow = c
      BY DEF Reader
    <3>. QED BY <1>5, <3>1 DEF Judged, Invalid
  <2>. HIDE DEF c, d
  <2>2. /\ w \in Reader /\ w.total = u.total /\ w.response = u.response
        /\ w.phase = u.phase /\ w.rejected = u.rejected /\ w.duplicate = u.duplicate
    BY <1>1 DEF Reader
  <2>. HIDE DEF w
  <2>3. "INVALID_ARGUMENT" \in Statuses
    BY DEF Statuses
  <2>4. /\ j \in Reader /\ j.total = w.total /\ j.response = w.response
        /\ j.phase = w.phase /\ j.rejected = w.rejected /\ j.duplicate = w.duplicate
    BY <2>2, <2>3, FinishedProperties, FinishedTallies
  <2>. HIDE DEF j
  <2>. QED BY <1>5, <2>1, <2>2, <2>4
<1>. QED BY <1>2, <1>3, <1>4, <1>5 DEF Outcomes

LEMMA ReadTallies ==
    ASSUME NEW r \in Reader, NEW q \in Seq(Outcomes), Tallied(r, q), r.reading,
           r.phase \notin {"none", "admitted"}, NEW o \in Outcomes
    PROVE  Tallied(Reacted(r, o), Append(q, o))
<1>. DEFINE t == r.total + 1
            u == [r EXCEPT !.reading = FALSE, !.total = t]
            j == Judged(u, o)
            v == ReadOrFinish(j, "UNAVAILABLE")
            x == Append(q, o)
<1>1. t \in Nat /\ t = Len(x)
  BY AppendProperties DEF Reader, Tallied
<1>2. Reacted(r, o) = v
  BY DEF Reacted, Counted
<1>. HIDE DEF t
<1>3. /\ u \in Reader /\ u.total = t /\ u.rejected = r.rejected
      /\ u.duplicate = r.duplicate /\ u.response = r.response /\ u.phase = r.phase
  BY <1>1 DEF Reader
<1>. HIDE DEF u
<1>4. /\ j \in Reader /\ j.total = t /\ j.response = r.response /\ j.phase = r.phase
      /\ j.rejected = IF o \in {"duplicate", "failed"} THEN r.rejected + 1
                      ELSE r.rejected
      /\ j.duplicate = IF o \in {"duplicate"} THEN r.duplicate + 1 ELSE r.duplicate
  BY <1>3, JudgedTallies
<1>. HIDE DEF j
<1>5. /\ v.total = j.total /\ v.rejected = j.rejected /\ v.duplicate = j.duplicate
      /\ v.response = j.response /\ v.phase = j.phase
  BY <1>4, ReadOrFinishTallies
<1>. HIDE DEF v
<1>6. r.response = <<>>
  BY DEF Tallied
<1>7. /\ r.rejected = Cardinality(SentAmong(q, {"duplicate", "failed"}))
      /\ r.duplicate = Cardinality(SentAmong(q, {"duplicate"}))
  BY DEF Tallied
<1>8. v.rejected = Cardinality(SentAmong(x, {"duplicate", "failed"}))
  BY <1>4, <1>5, <1>7, OneMoreSent
<1>9. v.duplicate = Cardinality(SentAmong(x, {"duplicate"}))
  BY <1>4, <1>5, <1>7, OneMoreSent
<1>. HIDE DEF x
<1>10. Tallied(v, x)
  BY <1>1, <1>4, <1>5, <1>6, <1>8, <1>9 DEF Tallied
<1>. QED BY <1>2, <1>10 DEF x

LEMMA EndTallies ==
    ASSUME NEW r \in Reader, NEW q, Tallied(r, q), r.phase \notin {"none", "admitted"}
    PROVE  Tallied(Ended(r), q)
<1>. DEFINE status == IF mKeepRunning THEN "OK" ELSE "UNAVAILABLE"
            s == <<r.total, r.rejected, r.duplicate>>
            u == [r EXCEPT !.reading = FALSE, !.response = s]
            v == Finished(u, status)
<1>1. Ended(r) = v
  BY DEF Ended
<1>2. s \in Seq(Nat)
  <2>1. r.total \in Nat /\ r.rejected \in Nat /\ r.duplicate \in Nat
    BY DEF Reader
  <2>. QED BY <2>1
<1>. HIDE DEF s, status
<1>3. /\ u \in Reader /\ u.total = r.total /\ u.rejected = r.rejected
      /\ u.duplicate = r.duplicate /\ u.response = s /\ u.phase = r.phase /\ ~ u.reading
  BY <1>2 DEF Reader
<1>. HIDE DEF u
<1>4. /\ v.total = u.total /\ v.rejected = u.rejected /\ v.duplicate = u.duplicate
      /\ v.response = u.response /\ v.reading = u.reading /\ v.phase = u.phase
  BY <1>3, FinishedTallies
<1>. HIDE DEF v
<1>5. v.response = <<v.total, v.rejected, v.duplicate>> /\ ~ v.reading
      /\ v.phase \notin {"none", "admitted"}
  BY <1>3, <1>4 DEF s
<1>6. Tallied(v, q)
  BY <1>3, <1>4, <1>5 DEF Tallied
<1>. QED BY <1>1, <1>6

LEMMA TallyStep ==
    ASSUME ReadersInv, TallyInv, NEW p \in Publishers, ReaderStep(p)
    PROVE  \E v, q :
              /\ Tallied(v, q)
              /\ reader' = [reader EXCEPT ![p] = v]
              /\ sent' = [sent EXCEPT ![p] = q]
<1>. DEFINE r == reader[p]
            q == sent[p]
<1>a. /\ reader \in [Publishers -> Reader] /\ sent \in [Publishers -> Seq(Outcomes)]
      /\ ReaderInv(r, q) /\ r \in Reader /\ q \in Seq(Outcomes) /\ Tallied(r, q)
  BY DEF ReadersInv, TallyInv
<1>b. [sent EXCEPT ![p] = q] = sent
  BY <1>a
<1>c. r.reading => r.phase \notin {"none", "admitted"}
  BY <1>a DEF ReaderInv
<1>1. ASSUME NEW status, r.phase \in {"none", "admitted"}
      PROVE  Tallied(Finished([r EXCEPT !.phase = "open"], status), q)
  <2>. DEFINE u == [r EXCEPT !.phase = "open"]
              v == Finished(u, status)
  <2>1. /\ u \in Reader /\ u.total = r.total /\ u.rejected = r.rejected
        /\ u.duplicate = r.duplicate /\ u.response = r.response
        /\ u.reading = r.reading /\ u.phase = "open"
    BY <1>a DEF Reader
  <2>. HIDE DEF u
  <2>2. /\ v.total = u.total /\ v.rejected = u.rejected /\ v.duplicate = u.duplicate
        /\ v.response = u.response /\ v.reading = u.reading /\ v.phase = u.phase
    BY <2>1, FinishedTallies
  <2>. HIDE DEF v, r, q
  <2>3. Tallied(v, q)
    BY <1>a, <2>1, <2>2, TallyKept
  <2>. QED BY <2>3 DEF v, u, r, q
<1>2. CASE RefusePublisher(p)
  <2>1. r.phase = "none"
    BY <1>2 DEF RefusePublisher
  <2>. DEFINE v == Finished([r EXCEPT !.phase = "open"], "RESOURCE_EXHAUSTED")
  <2>2. reader' = [reader EXCEPT ![p] = v] /\ sent' = sent
    BY <1>2, <1>a DEF RefusePublisher
  <2>3. Tallied(v, q)
    BY <1>1, <2>1
  <2>. HIDE DEF v
  <2>. QED BY <1>b, <2>2, <2>3
<1>3. CASE RejectToken(p)
  <2>1. r.phase = "admitted"
    BY <1>3 DEF RejectToken
  <2>. DEFINE v == Finished([r EXCEPT !.phase = "open"], "UNAUTHENTICATED")
  <2>2. reader' = [reader EXCEPT ![p] = v] /\ sent' = sent
    BY <1>3, <1>a DEF RejectToken
  <2>3. Tallied(v, q)
    BY <1>1, <2>1
  <2>. HIDE DEF v
  <2>. QED BY <1>b, <2>2, <2>3
<1>4. CASE AdmitPublisher(p)
  <2>. DEFINE v == [r EXCEPT !.phase = "admitted"]
  <2>1. reader' = [reader EXCEPT ![p] = v] /\ sent' = sent /\ r.phase = "none"
    BY <1>4, <1>a DEF AdmitPublisher
  <2>2. /\ v.total = r.total /\ v.rejected = r.rejected /\ v.duplicate = r.duplicate
        /\ v.response = r.response /\ v.reading = r.reading
    BY <1>a DEF Reader
  <2>. HIDE DEF v
  <2>3. Tallied(v, q)
    BY <1>a, <2>1, <2>2, TallyKept
  <2>. QED BY <1>b, <2>1, <2>3
<1>5. CASE Register(p)
  <2>. DEFINE u == [r EXCEPT !.phase = "open", !.registered = TRUE]
              v == ReadOrFinish(u, "OK")
  <2>1. reader' = [reader EXCEPT ![p] = v] /\ sent' = sent /\ r.phase = "admitted"
    BY <1>5, <1>a DEF Register
  <2>2. /\ u \in Reader /\ u.total = r.total /\ u.rejected = r.rejected
        /\ u.duplicate = r.duplicate /\ u.response = r.response /\ u.phase = "open"
    BY <1>a DEF Reader
  <2>. HIDE DEF u
  <2>3. /\ v.total = u.total /\ v.rejected = u.rejected /\ v.duplicate = u.duplicate
        /\ v.response = u.response /\ v.phase = u.phase
    BY <2>2, ReadOrFinishTallies
  <2>. HIDE DEF v
  <2>4. r.response = <<>>
    BY <1>a, <2>1 DEF Tallied
  <2>5. Tallied(v, q)
    BY <1>a, <2>2, <2>3, <2>4, TallyKept
  <2>. QED BY <1>b, <2>1, <2>5
<1>6. ASSUME NEW o \in Outcomes, OnReadDone(p, o)
      PROVE  \E v, x : /\ Tallied(v, x)
                       /\ reader' = [reader EXCEPT ![p] = v]
                       /\ sent' = [sent EXCEPT ![p] = x]
  <2>1. /\ reader' = [reader EXCEPT ![p] = Reacted(r, o)]
        /\ sent' = [sent EXCEPT ![p] = Append(q, o)] /\ r.reading
    BY <1>6, <1>a DEF OnReadDone, Reacted
  <2>2. Tallied(Reacted(r, o), Append(q, o))
    BY <1>a, <1>c, <2>1, ReadTallies
  <2>. QED BY <2>1, <2>2
<1>7. CASE OnReadDoneNotOk(p)
  <2>1. reader' = [reader EXCEPT ![p] = Ended(r)] /\ sent' = sent /\ r.reading
    BY <1>7, <1>a DEF OnReadDoneNotOk, Ended
  <2>2. Tallied(Ended(r), q)
    BY <1>a, <1>c, <2>1, EndTallies
  <2>. QED BY <1>b, <2>1, <2>2
<1>8. CASE OnDone(p)
  <2>. DEFINE v == [r EXCEPT !.phase = "done", !.registered = FALSE]
  <2>1. reader' = [reader EXCEPT ![p] = v] /\ sent' = sent
    BY <1>8, <1>a DEF OnDone
  <2>2. /\ v.total = r.total /\ v.rejected = r.rejected /\ v.duplicate = r.duplicate
        /\ v.response = r.response /\ v.reading = r.reading /\ v.phase = "done"
    BY <1>a DEF Reader
  <2>. HIDE DEF v
  <2>3. Tallied(v, q)
    BY <1>a, <2>2, TallyKept
  <2>. QED BY <1>b, <2>1, <2>3
<1>. QED BY <1>2, <1>3, <1>4, <1>5, <1>6, <1>7, <1>8 DEF ReaderStep

LEMMA TallyInvNext == ASSUME ServiceInv, TallyInv, [Next]_vars PROVE TallyInv'
<1>1. ASSUME NEW p \in Publishers, ReaderStep(p) PROVE TallyInv'
  <2>1. PICK v, q :
          /\ Tallied(v, q)
          /\ reader' = [reader EXCEPT ![p] = v]
          /\ sent' = [sent EXCEPT ![p] = q]
    BY <1>1, TallyStep DEF ServiceInv
  <2>2. ASSUME NEW t \in Publishers PROVE Tallied(reader'[t], sent'[t])
    <3>1. CASE t = p
      <4>1. reader'[t] = v /\ sent'[t] = q
        BY <2>1, <3>1 DEF ServiceInv, ReadersInv
      <4>. QED BY <2>1, <4>1
    <3>2. CASE t # p
      <4>1. reader'[t] = reader[t] /\ sent'[t] = sent[t]
        BY <2>1, <3>2 DEF ServiceInv, ReadersInv
      <4>2. Tallied(reader[t], sent[t])
        BY DEF TallyInv
      <4>. QED BY <4>1, <4>2
    <3>. QED BY <3>1, <3>2
  <2>. QED BY <2>2 DEF TallyInv
<1>2. CASE Start \/ Stop \/ UNCHANGED vars
  <2>1. reader' = reader /\ sent' = sent
    BY <1>2 DEF Start, Stop, vars, readerVars
  <2>. QED BY <2>1 DEF TallyInv
<1>. QED BY <1>1, <1>2 DEF Next, ReaderStep

LEMMA TallyInvInit == ASSUME Init PROVE TallyInv
<1>1. SentAmong(<<>>, {"duplicate", "failed"}) = {} /\ SentAmong(<<>>, {"duplicate"}) = {}
  BY DEF SentAmong
<1>2. Cardinality({}) = 0 /\ Len(<<>>) = 0
  BY FS_EmptySet
<1>3. Tallied(NoReader, <<>>)
  BY <1>1, <1>2 DEF Tallied, NoReader
<1>4. ASSUME NEW p \in Publishers PROVE Tallied(reader[p], sent[p])
  <2>1. reader[p] = NoReader /\ sent[p] = <<>>
    BY DEF Init
  <2>. QED BY <1>3, <2>1
<1>. QED BY <1>4 DEF TallyInv

LEMMA TalliesAddUp ==
    ASSUME NEW q \in Seq(Outcomes)
    PROVE  LET dropped == Cardinality(SentAmong(q, {"duplicate", "failed"})) IN
           /\ Cardinality(SentAmong(q, {"duplicate"})) <= dropped
           /\ Cardinality(SentAmong(q, {"accepted"})) <= Len(q) - dropped
<1>. DEFINE l == Len(q)
            A == SentAmong(q, {"accepted"})
            B == SentAmong(q, {"duplicate", "failed"})
            D == SentAmong(q, {"duplicate"})
<1>1. l \in Nat /\ DOMAIN q = 1..l
  BY LenProperties
<1>2. A \subseteq 1..l /\ B \subseteq 1..l /\ D \subseteq B /\ A \cap B = {}
  BY <1>1 DEF SentAmong
<1>. HIDE DEF A, B, D
<1>3. IsFiniteSet(1..l) /\ Cardinality(1..l) = l
  <2>1. 1 \in Int /\ l \in Int
    BY <1>1
  <2>2. IsFiniteSet(1..l) /\ Cardinality(1..l) = IF 1 > l THEN 0 ELSE l - 1 + 1
    BY <2>1, FS_Interval
  <2>3. (IF 1 > l THEN 0 ELSE l - 1 + 1) = l
    BY <1>1
  <2>. QED BY <2>2, <2>3
<1>4. IsFiniteSet(A) /\ IsFiniteSet(B) /\ IsFiniteSet(D) /\ IsFiniteSet(A \cup B)
  BY <1>2, <1>3, FS_Subset, FS_Union
<1>5. /\ Cardinality(A) \in Nat /\ Cardinality(B) \in Nat /\ Cardinality(D) \in Nat
      /\ Cardinality(A \cup B) \in Nat
  BY <1>4, FS_CardinalityType
<1>6. Cardinality(D) <= Cardinality(B)
  BY <1>2, <1>4, FS_Subset
<1>7. Cardinality(A \cup B) = Cardinality(A) + Cardinality(B)
  <2>1. Cardinality(A \cup B) = Cardinality(A) + Cardinality(B) - Cardinality(A \cap B)
    BY <1>4, FS_Union
  <2>2. Cardinality(A \cap B) = 0
    BY <1>2, FS_EmptySet
  <2>. QED BY <1>5, <2>1, <2>2
<1>8. Cardinality(A \cup B) <= l
  <2>1. A \cup B \in SUBSET (1..l)
    BY <1>2
  <2>2. Cardinality(A \cup B) <= Cardinality(1..l)
    BY <1>3, <2>1, FS_Subset
  <2>. QED BY <1>3, <2>2
<1>9. Cardinality(A) <= l - Cardinality(B)
  BY <1>1, <1>5, <1>7, <1>8
<1>. QED BY <1>6, <1>9 DEF A, B, D

\* The response that a publisher gets tells of every message of its session and of the
\* duplicates; these are among the rejected, and the accepted among the rest, however
\* long the session and whatever ends it.
THEOREM ResponsesAddUp == ASSUME PublishAssumption PROVE Spec => []ResponseAddsUp
<1>1. Init => TallyInv
  BY TallyInvInit
<1>2. ServiceInv /\ TallyInv /\ [Next]_vars => TallyInv'
  BY TallyInvNext
<1>3. ServiceInv /\ TallyInv => ResponseAddsUp
  <2>. SUFFICES ASSUME ServiceInv, TallyInv, NEW p \in Publishers, reader[p].response # <<>>
                PROVE  /\ reader[p].response[1] = Len(sent[p])
                       /\ reader[p].response[3] = SentAs(p, {"duplicate"})
                       /\ reader[p].response[3] <= reader[p].response[2]
                       /\ SentAs(p, {"accepted"})
                              <= reader[p].response[1] - reader[p].response[2]
    BY DEF ResponseAddsUp
  <2>. DEFINE q == sent[p]
              r == reader[p]
  <2>1. q \in Seq(Outcomes)
    BY DEF ServiceInv, ReadersInv, ReaderInv
  <2>2. /\ r.response = <<r.total, r.rejected, r.duplicate>>
        /\ r.total = Len(q)
        /\ r.rejected = Cardinality(SentAmong(q, {"duplicate", "failed"}))
        /\ r.duplicate = Cardinality(SentAmong(q, {"duplicate"}))
    BY DEF TallyInv, Tallied
  <2>3. /\ r.response[1] = r.total /\ r.response[2] = r.rejected
        /\ r.response[3] = r.duplicate
    BY <2>2
  <2>4. \A outcomes : SentAs(p, outcomes) = Cardinality(SentAmong(q, outcomes))
    BY DEF SentAs, SentAmong
  <2>. HIDE DEF q, r
  <2>5. /\ r.duplicate <= r.rejected
        /\ Cardinality(SentAmong(q, {"accepted"})) <= r.total - r.rejected
    BY <2>1, <2>2, TalliesAddUp
  <2>. QED BY <2>2, <2>3, <2>4, <2>5 DEF q, r
<1>. QED BY <1>1, <1>2, <1>3, ServiceInvHolds, PTL DEF Spec
-----------------------------------------------------------------------------
(* How an RPC ends: the safety part of ShutdownDrains.                     *)

\* A purge aside, nothing has ended the RPC yet.
NotEnded(r) ==
    /\ r.status # "INVALID_ARGUMENT" => r.finishes = 0
    /\ r.status = "none" <=> r.finishes = 0

EndInv(r) ==
    /\ r.phase \in {"none", "admitted"} => r.finishes = 0
    /\ r.phase = "open" => r.reading \/ r.finishes > 0
    /\ r.phase = "done" => ~ r.reading /\ r.finishes > 0
    /\ r.status # "INVALID_ARGUMENT" => r.finishes <= 1 /\ (r.reading => r.finishes = 0)
    /\ r.status = "none" <=> r.finishes = 0

LEMMA FinishedEnds ==
    ASSUME NEW r \in Reader, NotEnded(r), ~ r.reading, r.phase = "open",
           NEW status \in Statuses \ {"none"}
    PROVE  EndInv(Finished(r, status))
<1>1. /\ Finished(r, status) \in Reader
      /\ Finished(r, status).status = IF r.status = "none" THEN status ELSE r.status
      /\ Finished(r, status).phase = r.phase /\ Finished(r, status).reading = r.reading
  BY FinishedProperties
<1>2. Finished(r, status).finishes = r.finishes + 1 /\ r.finishes \in Nat
  BY DEF Finished, Reader
<1>. DEFINE v == Finished(r, status)
            n == r.finishes
<1>3. /\ v.phase = "open" /\ ~ v.reading /\ v.status # "none"
      /\ v.status # "INVALID_ARGUMENT" => n = 0
      /\ v.finishes = n + 1 /\ n \in Nat
  BY <1>1, <1>2 DEF NotEnded
<1>. HIDE DEF v, n
<1>4. v.finishes > 0 /\ v.finishes # 0 /\ (v.status # "INVALID_ARGUMENT" => v.finishes <= 1)
  BY <1>3
<1>5. EndInv(v)
  BY <1>3, <1>4 DEF EndInv
<1>. QED BY <1>5 DEF v

LEMMA ReadOrFinishEnds ==
    ASSUME NEW u \in Reader, NotEnded(u), ~ u.reading, u.phase = "open",
           NEW status \in {"OK", "UNAVAILABLE"}
    PROVE  EndInv(ReadOrFinish(u, status))
<1>. DEFINE w == [u EXCEPT !.reading = TRUE]
<1>1. /\ w.phase = "open" /\ w.reading /\ w.finishes = u.finishes /\ w.status = u.status
      /\ u.finishes \in Nat
  BY DEF Reader
<1>. HIDE DEF w
<1>2. EndInv(w)
  BY <1>1 DEF EndInv, NotEnded
<1>3. EndInv(Finished(u, status))
  BY FinishedEnds DEF Statuses
<1>. QED BY <1>2, <1>3 DEF ReadOrFinish, w

LEMMA JudgedNotEnded ==
    ASSUME NEW u \in Reader, NotEnded(u), NEW o \in Outcomes
    PROVE  NotEnded(Judged(u, o))
<1>1. CASE o = "accepted"
  <2>1. Judged(u, o).status = u.status /\ Judged(u, o).finishes = u.finishes
    BY <1>1 DEF Judged, Accepted, Reader
  <2>. QED BY <2>1 DEF NotEnded
<1>2. CASE o = "duplicate"
  <2>1. Judged(u, o).status = u.status /\ Judged(u, o).finishes = u.finishes
    BY <1>2 DEF Judged, Duplicate, Reader
  <2>. QED BY <2>1 DEF NotEnded
<1>3. CASE o = "failed"
  <2>1. Judged(u, o).status = u.status /\ Judged(u, o).finishes = u.finishes
    BY <1>3 DEF Judged, Failed, Reader
  <2>. QED BY <2>1 DEF NotEnded
<1>4. CASE o = "invalid"
  <2>. DEFINE a == u.invalidInARow + 1
              b == u.invalid + 1
              c == [u EXCEPT !.invalidInARow = a, !.invalid = b]
  <2>1. a \in Nat /\ b \in Nat
    BY DEF Reader
  <2>2. Judged(u, o) = IF a > MaximumConsecutiveInvalidMessages
                       THEN Finished(c, "INVALID_ARGUMENT") ELSE c
    <3>1. c.invalidInARow = a
      BY DEF Reader
    <3>. QED BY <1>4, <3>1 DEF Judged, Invalid
  <2>. HIDE DEF a, b
  <2>3. c \in Reader /\ c.status = u.status /\ c.finishes = u.finishes
    BY <2>1 DEF Reader
  <2>. HIDE DEF c
  <2>4. NotEnded(c)
    BY <2>3 DEF NotEnded
  <2>5. NotEnded(Finished(c, "INVALID_ARGUMENT"))
    <3>. DEFINE v == Finished(c, "INVALID_ARGUMENT")
    <3>1. v.finishes = c.finishes + 1 /\ c.finishes \in Nat
      BY <2>3 DEF Finished, Reader
    <3>2. v.status = IF c.status = "none" THEN "INVALID_ARGUMENT" ELSE c.status
      BY <2>3, FinishedProperties DEF Statuses
    <3>. HIDE DEF v
    <3>3. v.finishes # 0
      BY <3>1
    <3>4. v.status = "INVALID_ARGUMENT"
      BY <2>3, <2>4, <3>2 DEF NotEnded
    <3>5. NotEnded(v)
      BY <3>3, <3>4 DEF NotEnded
    <3>. QED BY <3>5 DEF v
  <2>. QED BY <2>2, <2>4, <2>5
<1>. QED BY <1>1, <1>2, <1>3, <1>4 DEF Outcomes

LEMMA EndStep ==
    ASSUME PublishAssumption, ReadersInv, NEW p \in Publishers, EndInv(reader[p]), ReaderStep(p)
    PROVE  \E v : reader' = [reader EXCEPT ![p] = v] /\ EndInv(v)
<1>. DEFINE r == reader[p]
            q == sent[p]
<1>a. /\ reader \in [Publishers -> Reader] /\ ReaderInv(r, q) /\ r \in Reader
      /\ r.finishes \in Nat
  BY DEF ReadersInv, Reader
<1>b. r.phase \in {"none", "admitted"} => NotEnded(r) /\ ~ r.reading
  BY <1>a DEF EndInv, NotEnded, ReaderInv
<1>c. r.reading => NotEnded(r) /\ r.phase = "open"
  <2>1. ASSUME r.reading PROVE r.phase \notin {"none", "admitted"}
    BY <1>a, <2>1, ReadingProperties
  <2>. QED BY <1>a, <2>1 DEF EndInv, NotEnded, Reader
<1>1. ASSUME RefusePublisher(p) \/ RejectToken(p)
      PROVE  \E v : reader' = [reader EXCEPT ![p] = v] /\ EndInv(v)
  <2>. DEFINE u == [r EXCEPT !.phase = "open"]
  <2>1. r.phase \in {"none", "admitted"}
    BY <1>1 DEF RefusePublisher, RejectToken
  <2>2. /\ u \in Reader /\ u.phase = "open" /\ ~ u.reading
        /\ u.status = r.status /\ u.finishes = r.finishes
    BY <1>a, <1>b, <2>1 DEF Reader
  <2>3. \E status \in Statuses \ {"none"} : reader' = [reader EXCEPT ![p] = Finished(u, status)]
    BY <1>1, <1>a DEF RefusePublisher, RejectToken, Statuses
  <2>. HIDE DEF u
  <2>4. NotEnded(u)
    BY <1>b, <2>1, <2>2 DEF NotEnded
  <2>. QED BY <2>2, <2>3, <2>4, FinishedEnds
<1>2. ASSUME AdmitPublisher(p) PROVE \E v : reader' = [reader EXCEPT ![p] = v] /\ EndInv(v)
  <2>. DEFINE v == [r EXCEPT !.phase = "admitted"]
  <2>1. reader' = [reader EXCEPT ![p] = v] /\ r.phase = "none"
    BY <1>2, <1>a DEF AdmitPublisher
  <2>2. /\ v.phase = "admitted" /\ v.reading = r.reading
        /\ v.status = r.status /\ v.finishes = r.finishes
    BY <1>a DEF Reader
  <2>. HIDE DEF v
  <2>3. EndInv(v)
    BY <2>1, <2>2 DEF EndInv
  <2>. QED BY <2>1, <2>3
<1>3. ASSUME Register(p) PROVE \E v : reader' = [reader EXCEPT ![p] = v] /\ EndInv(v)
  <2>. DEFINE u == [r EXCEPT !.phase = "open", !.registered = TRUE]
  <2>1. reader' = [reader EXCEPT ![p] = ReadOrFinish(u, "OK")] /\ r.phase = "admitted"
    BY <1>3, <1>a DEF Register
  <2>2. /\ u \in Reader /\ u.phase = "open" /\ ~ u.reading
        /\ u.status = r.status /\ u.finishes = r.finishes
    BY <1>a, <1>b, <2>1 DEF Reader
  <2>. HIDE DEF u
  <2>3. NotEnded(u)
    BY <1>b, <2>1, <2>2 DEF NotEnded
  <2>4. EndInv(ReadOrFinish(u, "OK"))
    BY <2>2, <2>3, ReadOrFinishEnds
  <2>. QED BY <2>1, <2>4
<1>4. ASSUME NEW o \in Outcomes, OnReadDone(p, o)
      PROVE  \E v : reader' = [reader EXCEPT ![p] = v] /\ EndInv(v)
  <2>. DEFINE u == Counted(r)
              j == Judged(u, o)
  <2>1. r.reading /\ reader' = [reader EXCEPT ![p] = ReadOrFinish(j, "UNAVAILABLE")]
    BY <1>4 DEF OnReadDone
  <2>2. /\ u \in Reader /\ u.phase = "open" /\ ~ u.reading
        /\ u.status = r.status /\ u.finishes = r.finishes
        /\ u.registered = r.registered /\ u.invalidInARow = r.invalidInARow
    <3>. DEFINE t == r.total + 1
    <3>1. t \in Nat
      BY <1>a DEF Reader
    <3>2. u = [r EXCEPT !.reading = FALSE, !.total = t]
      BY DEF Counted
    <3>. HIDE DEF t, u
    <3>. QED BY <1>a, <1>c, <2>1, <3>1, <3>2 DEF Reader
  <2>3. /\ r.status \notin TurnedAway /\ (r.status = "INVALID_ARGUMENT" => Deserved(q))
        /\ Streak(r.invalidInARow, q) /\ q \in Seq(Outcomes)
    BY <1>a, <2>1, ReadingProperties
  <2>. HIDE DEF u
  <2>4. NotEnded(u)
    BY <1>c, <2>1, <2>2 DEF NotEnded
  <2>. DEFINE x == Append(q, o)
  <2>a. /\ u \in Reader /\ u.phase = "open" /\ ~ u.reading /\ u.status \notin TurnedAway
        /\ u.status = "INVALID_ARGUMENT" => Deserved(q)
        /\ Streak(u.invalidInARow, q) /\ q \in Seq(Outcomes) /\ x = Append(q, o)
    BY <2>2, <2>3
  <2>. HIDE DEF x, q
  <2>5. /\ j \in Reader /\ j.phase = u.phase /\ j.registered = u.registered
        /\ j.reading = u.reading /\ j.status \notin TurnedAway
        /\ j.status = "INVALID_ARGUMENT" => Deserved(x)
        /\ Streak(j.invalidInARow, x)
    BY <2>a, JudgedProperties
  <2>6. NotEnded(j)
    BY <2>2, <2>4, JudgedNotEnded
  <2>. HIDE DEF j
  <2>7. EndInv(ReadOrFinish(j, "UNAVAILABLE"))
    BY <2>a, <2>5, <2>6, ReadOrFinishEnds
  <2>. QED BY <2>1, <2>7
<1>5. ASSUME OnReadDoneNotOk(p) PROVE \E v : reader' = [reader EXCEPT ![p] = v] /\ EndInv(v)
  <2>. DEFINE status == IF mKeepRunning THEN "OK" ELSE "UNAVAILABLE"
              s == <<r.total, r.rejected, r.duplicate>>
              u == [r EXCEPT !.reading = FALSE, !.response = s]
  <2>1. r.reading /\ reader' = [reader EXCEPT ![p] = Finished(u, status)]
    BY <1>5, <1>a DEF OnReadDoneNotOk
  <2>2. s \in Seq(Nat)
    <3>1. r.total \in Nat /\ r.rejected \in Nat /\ r.duplicate \in Nat
      BY <1>a DEF Reader
    <3>. QED BY <3>1
  <2>. HIDE DEF s
  <2>3. /\ u \in Reader /\ u.phase = "open" /\ ~ u.reading
        /\ u.status = r.status /\ u.finishes = r.finishes
    BY <1>a, <1>c, <2>1, <2>2 DEF Reader
  <2>. HIDE DEF u
  <2>4. NotEnded(u)
    BY <1>c, <2>1, <2>3 DEF NotEnded
  <2>5. status \in Statuses \ {"none"}
    BY DEF Statuses
  <2>. HIDE DEF status
  <2>6. EndInv(Finished(u, status))
    BY <2>3, <2>4, <2>5, FinishedEnds
  <2>. QED BY <2>1, <2>6
<1>6. ASSUME OnDone(p) PROVE \E v : reader' = [reader EXCEPT ![p] = v] /\ EndInv(v)
  <2>. DEFINE v == [r EXCEPT !.phase = "done", !.registered = FALSE]
  <2>1. reader' = [reader EXCEPT ![p] = v] /\ r.finishes > 0 /\ ~ r.reading
    BY <1>6, <1>a DEF OnDone
  <2>2. /\ v.phase = "done" /\ v.reading = r.reading
        /\ v.status = r.status /\ v.finishes = r.finishes
    BY <1>a DEF Reader
  <2>. HIDE DEF v
  <2>3. EndInv(v)
    BY <2>1, <2>2 DEF EndInv
  <2>. QED BY <2>1, <2>3
<1>. QED BY <1>1, <1>2, <1>3, <1>4, <1>5, <1>6 DEF ReaderStep

AllEndInv == \A p \in Publishers : EndInv(reader[p])

LEMMA EndInvNext ==
    ASSUME PublishAssumption, ServiceInv, AllEndInv, [Next]_vars PROVE AllEndInv'
<1>a. ReadersInv
  BY DEF ServiceInv
<1>1. ASSUME NEW p \in Publishers, ReaderStep(p) PROVE AllEndInv'
  <2>1. PICK v : reader' = [reader EXCEPT ![p] = v] /\ EndInv(v)
    BY <1>a, <1>1, EndStep DEF AllEndInv
  <2>2. reader'[p] = v /\ \A t \in Publishers \ {p} : reader'[t] = reader[t]
    BY <1>a, <2>1, SetsMove
  <2>3. ASSUME NEW t \in Publishers PROVE EndInv(reader'[t])
    BY <2>1, <2>2 DEF AllEndInv
  <2>. QED BY <2>3 DEF AllEndInv
<1>2. CASE Start \/ Stop \/ UNCHANGED vars
  <2>1. reader' = reader
    BY <1>2 DEF Start, Stop, vars, readerVars
  <2>. QED BY <2>1 DEF AllEndInv
<1>. QED BY <1>1, <1>2 DEF Next, ReaderStep

\* A reader is on its way to its end, by a read that gRPC will end or by a Finish, and
\* finished once unless it was purged.
EndsOnce ==
    \A p \in Publishers : LET r == reader[p] IN
        /\ r.phase = "open" => r.reading \/ r.finishes > 0
        /\ r.phase = "done" => ~ r.reading /\ r.finishes > 0
        /\ r.status # "INVALID_ARGUMENT" =>
              r.finishes <= 1 /\ (r.reading => r.finishes = 0)

\* The reader of publishService.cpp: whatever order messages, cancellation and the two
\* servers' ends come in, stop() meets no RPC that nothing will end, and the purge
\* is the only path on which an RPC is finished twice or read after its Finish.
THEOREM ReadersEndOnce == ASSUME PublishAssumption PROVE Spec => []EndsOnce
<1>1. Init => AllEndInv
  BY DEF Init, AllEndInv, EndInv, NoReader
<1>2. ServiceInv /\ AllEndInv /\ [Next]_vars => AllEndInv'
  BY EndInvNext
<1>3. AllEndInv => EndsOnce
  BY DEF AllEndInv, EndInv, EndsOnce
<1>. QED BY <1>1, <1>2, <1>3, ServiceInvHolds, PTL DEF Spec

-----------------------------------------------------------------------------
(* The broker's view of the service: its server without its RPCs.          *)

LifecycleServer == INSTANCE GrpcServer WITH StopBeforeStart <- TRUE, count <- 0

\* start, stop and the readers of publishService.cpp: a step of the service is one of
\* the server that BrokerLifecycle has in its place, whose Shutdown finds nothing
\* outstanding, or none of the broker's concern.
THEOREM ServiceIsServer ==
    Spec => /\ LifecycleServer!ServerInit
            /\ [][LifecycleServer!Start \/ LifecycleServer!Stop({})]_serviceVars
<1>1. Init => LifecycleServer!ServerInit
  BY DEF Init, Server!ServerInit, LifecycleServer!ServerInit
<1>2. ASSUME [Next]_vars
      PROVE  [LifecycleServer!Start \/ LifecycleServer!Stop({})]_serviceVars
  <2>1. CASE Start
    BY <2>1 DEF Start, Server!Start, Server!BeginStart, Server!BuildAndStart,
       Server!MarkStarted, Server!WaitReturns, LifecycleServer!Start,
       LifecycleServer!BeginStart, LifecycleServer!BuildAndStart,
       LifecycleServer!MarkStarted, LifecycleServer!WaitReturns, serviceVars
  <2>2. CASE Stop
    BY <2>2 DEF Stop, Server!Stop, Server!BeginStop, Server!Shutdown,
       Server!NothingToShutDown, Server!ShutdownReturns, Server!ResetCount,
       LifecycleServer!Stop, LifecycleServer!BeginStop, LifecycleServer!Shutdown,
       LifecycleServer!NothingToShutDown, LifecycleServer!ShutdownReturns,
       LifecycleServer!ResetCount, serviceVars
  <2>3. ~ Start /\ ~ Stop => UNCHANGED serviceVars
    BY <1>2 DEF Next, vars, RefusePublisher, AdmitPublisher, RejectToken, Register,
       OnReadDone, OnReadDoneNotOk, OnDone
  <2>. QED BY <2>1, <2>2, <2>3
<1>. QED BY <1>1, <1>2, PTL DEF Spec
=============================================================================
