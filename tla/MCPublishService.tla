--------------------------- MODULE MCPublishService -------------------------
(***************************************************************************)
(* Constants of the TLC runs on PublishService.                            *)
(***************************************************************************)
EXTENDS PublishService, TLC

CONSTANTS p1, p2, p3

TwoPublishers == {p1, p2}
ThreePublishers == {p1, p2, p3}

\* One publisher with a long session, among others that only come and go.
LongSession == (p1 :> 4) @@ (p2 :> 0) @@ (p3 :> 0)
ThreeEach == [p \in TwoPublishers |-> 3]
=============================================================================
