------------------------- MODULE PickNormalization --------------------------
(***************************************************************************)
(* What addPickCallback requires of a message and how it brings it to the  *)
(* form in which it is stored and compared (broker.cpp): the names of the  *)
(* stream lose their blanks, what may be left out is filled in.            *)
(*                                                                         *)
(* A text is a sequence of characters, or Unset.  A message has a text for *)
(* each of its Fields and the arrival time it reports.                     *)
(***************************************************************************)
EXTENDS Integers, Sequences

CONSTANT LocalCapacity  \* the letters a std::string has room for in itself: 15

ASSUME NormalizationAssumption == LocalCapacity \in Nat

Unset == <<"unset">>
IsSet(text) == text # Unset
Texts == Seq(STRING \ {"unset"}) \cup {Unset}

StreamNames == {"network", "station", "channel"}
Fields == StreamNames \cup {"location_code", "name", "version"}

DefaultLocation == <<"-", "-">>
DefaultAlgorithm == <<"uFilterPicker">>

\* Mutant of CapitalizeAndRemoveBlanks: the text is only looked at.
KeepBlanks(text) == text

\* remove_if and erase.  The upper-case copy is written from the end of the result
\* on, which its size leaves out: where it has room, the text keeps its case.
CapitalizeAndRemoveBlanks(text) ==
    LET kept[k \in 0..Len(text)] ==
            IF k = 0 THEN <<>>
            ELSE IF text[k] = " " THEN kept[k - 1] ELSE Append(kept[k - 1], text[k])
    IN  kept[Len(text)]

\* The copy has room: in the string itself, or in what it has allocated, which is as
\* long as the text was before its blanks went.  One more is for the final zero.
HasRoom(text) ==
    LET n == Len(CapitalizeAndRemoveBlanks(text)) IN
    2 * n <= LocalCapacity + 1 \/ 2 * n <= Len(text) + 1

\* Else it writes past the end of the string, and anything may happen.
InBounds(message) ==
    \A f \in StreamNames \cup {"location_code"} :
        IsSet(message.text[f]) => HasRoom(message.text[f])

\* Any of these throws: the message is invalid.  A message without an identifier is
\* one without its names; one without an algorithm has no version; and one without
\* a time is refused as one from the future is.
IsValid(message, now) ==
    /\ \A f \in StreamNames :
          IsSet(message.text[f]) /\ CapitalizeAndRemoveBlanks(message.text[f]) # <<>>
    /\ IsSet(message.text["version"])
    /\ message.time <= now

FixedLocation(text) ==
    IF ~ IsSet(text) \/ CapitalizeAndRemoveBlanks(text) = <<>>
    THEN DefaultLocation ELSE CapitalizeAndRemoveBlanks(text)

\* checkAndFixStreamIdentifier and checkAndFixAlgorithm.
Fixed(message) ==
    [message EXCEPT !.text = [f \in Fields |->
        CASE f \in StreamNames -> CapitalizeAndRemoveBlanks(message.text[f])
          [] f = "location_code" -> FixedLocation(message.text[f])
          [] f = "name" /\ ~ IsSet(message.text[f]) -> DefaultAlgorithm
          [] OTHER -> message.text[f]]]

-----------------------------------------------------------------------------
(* The reference.  Two messages have the same spelling when only blanks in  *)
(* the names of the stream, and what may be left out, tell them apart; and  *)
(* they tell of the same arrival when, besides, only the case of the names  *)
(* does, which capitalizeAndRemoveBlanks sets out to remove as well.        *)

CapitalOf ==
    [a |-> "A", b |-> "B", c |-> "C", d |-> "D", e |-> "E", f |-> "F", g |-> "G",
     h |-> "H", i |-> "I", j |-> "J", k |-> "K", l |-> "L", m |-> "M", n |-> "N",
     o |-> "O", p |-> "P", q |-> "Q", r |-> "R", s |-> "S", t |-> "T", u |-> "U",
     v |-> "V", w |-> "W", x |-> "X", y |-> "Y", z |-> "Z"]

Upper(c) == IF c \in DOMAIN CapitalOf THEN CapitalOf[c] ELSE c
Capitals(text) == [k \in 1..Len(text) |-> Upper(text[k])]

SameText(s, t) ==
    LET letters(u) == { k \in 1..Len(u) : u[k] # " " } IN
    \E f \in [letters(s) -> letters(t)] :
        /\ \A j \in letters(t) : \E k \in letters(s) : f[k] = j
        /\ \A k, l \in letters(s) : k < l => f[k] < f[l]
        /\ \A k \in letters(s) : s[k] = t[f[k]]

OrElse(text, default) ==
    IF ~ IsSet(text) \/ \A k \in 1..Len(text) : text[k] = " " THEN default ELSE text

Location(message) == OrElse(message.text["location_code"], DefaultLocation)

SameButForStream(m, n) ==
    /\ m.time = n.time
    /\ m.text["name"] = n.text["name"]
          \/ {m.text["name"], n.text["name"]} = {Unset, DefaultAlgorithm}
    /\ m.text["version"] = n.text["version"]

SameSpelling(m, n) ==
    /\ SameButForStream(m, n)
    /\ \A f \in StreamNames : SameText(m.text[f], n.text[f])
    /\ SameText(Location(m), Location(n))

SameArrival(m, n) ==
    /\ SameButForStream(m, n)
    /\ \A f \in StreamNames : SameText(Capitals(m.text[f]), Capitals(n.text[f]))
    /\ SameText(Capitals(Location(m)), Capitals(Location(n)))
=============================================================================
