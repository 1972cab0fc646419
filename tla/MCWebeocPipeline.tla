-------------------------- MODULE MCWebeocPipeline --------------------------
(* Instances of WebeocPipeline for TLC. *)
EXTENDS WebeocPipeline, TLC

CONSTANT Words   \* texts of the versions

Version(text, place) == [text |-> text, place |-> place, type |-> "HWCR", attracts |-> FALSE, inserts |-> TRUE, edits |-> TRUE]

\* Versions that differ in both fields.
TwoVersions == {Version(w, w) : w \in Words}
OneUpdate   == {[text |-> "n", accepted |-> TRUE]}
NoUpdates   == {}

\* Pods, slots and versions are interchangeable.
Interchangeable == Permutations(Requests) \cup Permutations(Pods) \cup Permutations(Words)

AllTexts == {Blank, "n"} \cup Words
=============================================================================
