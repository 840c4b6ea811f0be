----------------------------- MODULE MCPickStore ----------------------------
(***************************************************************************)
(* Constants of the TLC runs on PickStore and its refinement of PickFeed.  *)
(***************************************************************************)
EXTENDS PickStoreFeed, TLC

CONSTANTS s1, s2, p1, p2, p3

MCSubscribers == {s1, s2}
OneSubscriber == {s1}
MCPicks == {p1, p2, p3}
TwoPicks == {p1, p2}

\* A fresh database, and one with a pick received just before the restart.
MCBackfills == { <<>>, << [time |-> 0, pick |-> p1] >> }

\* Start ups of every kind: from a fresh database, with a pick that has expired
\* before one that is young, and with nothing that is young.
OldAndYoung ==
    { <<>>,
      << [time |-> 0, pick |-> p1], [time |-> 2, pick |-> p2] >>,
      << [time |-> 0, pick |-> p1], [time |-> 0, pick |-> p2], [time |-> 1, pick |-> p1] >> }
=============================================================================
