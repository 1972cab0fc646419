------------------------ MODULE MCComplaintService ------------------------
(* Instances of ComplaintService for TLC. *)
EXTENDS ComplaintService, TLC

WebeocIds == {<<23, 76>>}

\* The slots are interchangeable, and so are the officers.
SlotsAndOfficers == Permutations(Requests) \cup Permutations(Officers)
=============================================================================
