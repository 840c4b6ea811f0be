------------------------------- MODULE MCBroker -----------------------------
(***************************************************************************)
(* Constants of the TLC runs on Broker.                                    *)
(***************************************************************************)
EXTENDS BrokerRelay

\* With LocalCapacity = 1 two letters have room for their capitals when there were
\* three, one of them a blank.  Such a message is this, which leaves its location out.
Plain ==
    [text |-> [f \in Fields |->
                 CASE f = "location_code" -> Unset
                   [] f = "name" -> DefaultAlgorithm
                   [] f = "station" -> <<"U", "U", " ">>
                   [] OTHER -> <<"U">>],
     time |-> 0]

\* The same pick with other blanks, with its location and without the algorithm.
Blanks ==
    [Plain EXCEPT !.text["network"] = <<" ", "U">>,
                  !.text["station"] = <<"U", " ", "U">>,
                  !.text["location_code"] = <<"-", " ", "-">>,
                  !.text["name"] = Unset]

\* The same pick without the blanks, so that the name is too long to be capitalized.
NoBlanks == [Plain EXCEPT !.text["station"] = <<"U", "U">>]

\* The same arrival, written small and with a blank location.
Small ==
    [Plain EXCEPT !.text["station"] = <<"u", "u", " ">>,
                  !.text["location_code"] = <<" ">>]

\* Another arrival, in the future of the first instant, and messages that are refused.
Later == [Plain EXCEPT !.time = 1]
NoStation == [Plain EXCEPT !.text["station"] = <<" ">>]
NoVersion == [Plain EXCEPT !.text["version"] = Unset]

MCMessages == {Plain, Blanks, NoBlanks, Small, NoStation, NoVersion}
MCShortMessages == {Plain, Small, Later}
=============================================================================
