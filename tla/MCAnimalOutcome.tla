---------------------------- MODULE MCAnimalOutcome ----------------------------
(* An instance of AnimalOutcome for TLC: one animal of the case, a complaint   *)
(* with an assigned officer.                                                    *)
EXTENDS AnimalOutcome
=============================================================================
