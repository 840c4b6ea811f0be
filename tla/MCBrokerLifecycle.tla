-------------------------- MODULE MCBrokerLifecycle -------------------------
(***************************************************************************)
(* Constants of the TLC run on BrokerLifecycle.                            *)
(***************************************************************************)
EXTENDS BrokerLifecycle

\* As slow as Quick lets them be.
Slow == [starting |-> 34, returning |-> 24, processing |-> 84, cleaning |-> 119]

\* A millisecond more, for one of them at a time.
MCPaces ==
    {Slow, [Slow EXCEPT !.starting = 35], [Slow EXCEPT !.returning = 25],
     [Slow EXCEPT !.processing = 85], [Slow EXCEPT !.cleaning = 120]}
=============================================================================
