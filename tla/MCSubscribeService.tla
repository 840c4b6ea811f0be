-------------------------- MODULE MCSubscribeService ------------------------
(***************************************************************************)
(* Constants of the TLC runs on SubscribeService.                          *)
(***************************************************************************)
EXTENDS SubscribeService

CONSTANTS s1, s2

TwoSubscribers == {s1, s2}
=============================================================================
