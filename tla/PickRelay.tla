------------------------------ MODULE PickRelay -----------------------------
(***************************************************************************)
(* What the broker promises the publishers of picks, without threads, a    *)
(* queue beside a pick in hand, a table, or a store: accepted picks wait   *)
(* in one line; the first of it is remembered, and with that on its way to *)
(* the subscribers, unless it is remembered already; a pick that is        *)
(* accepted and does not come so far is counted; only a failure of the     *)
(* process takes picks away uncounted, and never more than the line holds. *)
(* Broker implements this specification (module BrokerRelay).              *)
(***************************************************************************)
EXTENDS Integers, Sequences

CONSTANTS Picks,
          Capacity   \* of the line, not counting the pick in hand

VARIABLES up,        \* the process runs
          pending,   \* the line: picks accepted, oldest first
          known,     \* the picks that are remembered
          lost,      \* how many made room for others since the process started
          faults     \* how many could not be remembered

vars == <<up, pending, known, lost, faults>>

Init ==
    /\ up = TRUE
    /\ pending = <<>>
    /\ known = {}
    /\ lost = 0
    /\ faults = 0

Accept(p) ==
    /\ up
    /\ Len(pending) <= Capacity
    /\ pending' = Append(pending, p)
    /\ UNCHANGED <<up, known, lost, faults>>

\* The oldest pick that is not in hand.
WithoutOldest(line) == {Tail(line), <<Head(line)>> \o Tail(Tail(line))}

AcceptFull(p) ==
    /\ up
    /\ Len(pending) >= Capacity
    /\ \E line \in WithoutOldest(pending) : pending' = Append(line, p)
    /\ lost' = lost + 1
    /\ UNCHANGED <<up, known, faults>>

Remember ==
    /\ up
    /\ pending # <<>>
    /\ Head(pending) \notin known
    /\ known' = known \cup {Head(pending)}
    /\ pending' = Tail(pending)
    /\ UNCHANGED <<up, lost, faults>>

Recognize ==
    /\ up
    /\ pending # <<>>
    /\ Head(pending) \in known
    /\ pending' = Tail(pending)
    /\ UNCHANGED <<up, known, lost, faults>>

Fault ==
    /\ up
    /\ pending # <<>>
    /\ pending' = Tail(pending)
    /\ faults' = faults + 1
    /\ UNCHANGED <<up, known, lost>>

\* What is remembered may be forgotten: Broker says when.
Forget ==
    /\ up
    /\ known' \in SUBSET known
    /\ UNCHANGED <<up, pending, lost, faults>>

Fail ==
    /\ up
    /\ up' = FALSE
    /\ pending' = <<>>
    /\ lost' = 0
    /\ faults' = 0
    /\ UNCHANGED known

Recover ==
    /\ ~ up
    /\ up' = TRUE
    /\ known' \in SUBSET known
    /\ UNCHANGED <<pending, lost, faults>>

Next ==
    \/ \E p \in Picks : Accept(p) \/ AcceptFull(p)
    \/ Remember \/ Recognize \/ Fault \/ Forget
    \/ Fail \/ Recover

\* The line moves.
Spec == Init /\ [][Next]_vars /\ WF_vars(Remember \/ Recognize \/ Fault)
=============================================================================
