------------------------------ MODULE PickFeed ------------------------------
(***************************************************************************)
(* What the pick store promises its subscribers, without cursors, without  *)
(* a shared deque and without the two critical sections of enqueue: every  *)
(* subscription owns a FIFO backlog; a published pick joins the backlog of *)
(* every subscription that asked for it; a read takes a batch from the     *)
(* head; only picks older than MaxHistory may be dropped unread.           *)
(* PickStore implements this specification (module PickStoreFeed).         *)
(***************************************************************************)
EXTENDS Integers, Sequences, FiniteSets

CONSTANTS Subscribers,           \* contexts a subscriber can be identified by
          Picks,                 \* the payloads
          MaxHistory,            \* minimum retention time
          MaximumNumberOfPicks,  \* most picks a read returns
          ClockBound,            \* bound of the model on the clock
          StartTime              \* the clock when the feed starts

VARIABLES clock,      \* the wall clock
          retained,   \* the picks a new subscription can be backfilled from
          since,      \* [Subscribers -> start time asked for, or Off]
          backlog,    \* [Subscribers -> picks owed and not yet read]
          received    \* [Subscribers -> picks read, in order]

vars == <<clock, retained, since, backlog, received>>

Off == -1
Time == 0..ClockBound
Item == [time : Time, pick : Picks]

Following(s) == since[s] # Off

\* The part of q, which is ordered by time, from t on.
From(q, t) == SubSeq(q, Cardinality({ k \in DOMAIN q : q[k].time < t }) + 1, Len(q))

Init ==
    /\ clock = StartTime
    /\ retained \in Seq(Item)
    /\ since = [s \in Subscribers |-> Off]
    /\ backlog = [s \in Subscribers |-> <<>>]
    /\ received = [s \in Subscribers |-> <<>>]

\* A new subscription that wants the picks from t on; live subscriptions want
\* none of the retained ones and all the later ones.
Follow(s, t) ==
    /\ since' = [since EXCEPT ![s] = t]
    /\ backlog' = [backlog EXCEPT ![s] = From(retained, t)]
    /\ received' = [received EXCEPT ![s] = <<>>]
    /\ UNCHANGED <<clock, retained>>

FollowLive(s) ==
    /\ since' = [since EXCEPT ![s] = 0]
    /\ backlog' = [backlog EXCEPT ![s] = <<>>]
    /\ received' = [received EXCEPT ![s] = <<>>]
    /\ UNCHANGED <<clock, retained>>

Leave(s) ==
    /\ since' = [since EXCEPT ![s] = Off]
    /\ backlog' = [backlog EXCEPT ![s] = <<>>]
    /\ received' = [received EXCEPT ![s] = <<>>]
    /\ UNCHANGED <<clock, retained>>

Publish(i) ==
    /\ retained' = Append(retained, i)
    /\ backlog' = [s \in Subscribers |->
                     IF Following(s) /\ i.time >= since[s]
                     THEN Append(backlog[s], i) ELSE backlog[s]]
    /\ UNCHANGED <<clock, since, received>>

Deliver(s, n) ==
    /\ n \in 1..Len(backlog[s])
    /\ received' = [received EXCEPT ![s] = @ \o SubSeq(backlog[s], 1, n)]
    /\ backlog' = [backlog EXCEPT ![s] = SubSeq(@, n + 1, Len(@))]
    /\ UNCHANGED <<clock, retained, since>>

\* Retention is a minimum: what has expired may be dropped, oldest first, and with
\* it the head of a backlog that is longer than what is left.
Expire(n) ==
    /\ n \in 1..Len(retained)
    /\ \A k \in 1..n : retained[k].time < clock - MaxHistory
    /\ retained' = SubSeq(retained, n + 1, Len(retained))
    /\ backlog' = [s \in Subscribers |->
                     IF Len(backlog[s]) > Len(retained') THEN retained' ELSE backlog[s]]
    /\ UNCHANGED <<clock, since, received>>

\* Time passes, by any amount.
Advance ==
    /\ clock' \in clock..ClockBound
    /\ UNCHANGED <<retained, since, backlog, received>>

Next ==
    \/ Advance
    \/ \E i \in Item : Publish(i)
    \/ \E n \in DOMAIN retained : Expire(n)
    \/ \E s \in Subscribers :
          \/ FollowLive(s)
          \/ \E t \in Time : Follow(s, t)
          \/ Leave(s)
          \/ \E n \in 1..MaximumNumberOfPicks : Deliver(s, n)

Spec ==
    /\ Init /\ [][Next]_vars
    /\ \A s \in Subscribers :
          WF_vars(\E n \in 1..MaximumNumberOfPicks : Deliver(s, n))
=============================================================================
