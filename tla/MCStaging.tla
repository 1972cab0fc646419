----------------------------- MODULE MCStaging -----------------------------
(* Instances of Staging for TLC. *)
EXTENDS Staging, TLC

\* What a WebEOC complaint may hold, one payload per case of the code.  Cougar
\* and Den differ from Bear in one field each.
Bear      == [text |-> "a", place |-> "x", type |-> "HWCR", attracts |-> TRUE,  inserts |-> TRUE,  edits |-> TRUE]
Cougar    == [text |-> "b", place |-> "x", type |-> "HWCR", attracts |-> FALSE, inserts |-> TRUE,  edits |-> TRUE]
Den       == [text |-> "a", place |-> "y", type |-> "HWCR", attracts |-> FALSE, inserts |-> TRUE,  edits |-> TRUE]
Waste     == [text |-> "b", place |-> "y", type |-> "ERS",  attracts |-> FALSE, inserts |-> TRUE,  edits |-> TRUE]
LongName  == [text |-> "c", place |-> "x", type |-> "HWCR", attracts |-> FALSE, inserts |-> TRUE,  edits |-> FALSE]
BadDate   == [text |-> "c", place |-> "x", type |-> "ERS",  attracts |-> FALSE, inserts |-> FALSE, edits |-> FALSE]
Fire      == [text |-> "d", place |-> "x", type |-> "OTHER", attracts |-> FALSE, inserts |-> TRUE, edits |-> TRUE]

AllContents == {Bear, Waste, LongName, BadDate, Fire}
FewContents == {Bear, Cougar, Den}

News      == [text |-> "n", accepted |-> TRUE]
OtherNews == [text |-> "a", accepted |-> TRUE]
NoNews    == [text |-> "",  accepted |-> TRUE]
BadPoint  == [text |-> "n", accepted |-> FALSE]

AllUpdates == {News, OtherNews, NoNews, BadPoint}
FewUpdates == {News, OtherNews}
NoUpdates  == {}

\* The slots are interchangeable.
Slots == Permutations(Requests)

AllTexts == {"", "a", "b", "c", "d", "n", "x", "y"}
=============================================================================
