---------------------------- MODULE MCCodeTables ----------------------------
(* Two species names that are alike in their first ten characters, and a   *)
(* species that has their code already.                                    *)
EXTENDS CodeTables

CONSTANTS v1, v2

MCValues == {v1, v2}
MCBase == [v \in MCValues |-> "GROUNDHOGS"]
MCShort == [v \in MCValues |-> "GROUNDHOG"]
MCSeeded == {[base |-> "GROUNDHOGS", suffix |-> 0]}
=============================================================================
