---------------------------- MODULE MCComplaintSearch ----------------------------
(* An instance of ComplaintSearch for TLC: four complaints, three communities in  *)
(* two zones of two regions, two of them offices of the user's zone.              *)
EXTENDS ComplaintSearch

CONSTANTS c1, c2, c3, z1, z2, r1, r2

MCTypeOf == <<"HWCR", "HWCR", "ERS", "HWCR">>
MCCommunityOf == <<c1, c2, c1, c3>>
MCZoneOf == [c \in Communities |-> IF c = c3 THEN z2 ELSE z1]
MCRegionOf == [z \in Zones |-> IF z = z1 THEN r1 ELSE r2]
MCOffices == {{c1}, {c2}}
\* One that is closed and assigned, one without a point, one with half of one.
MCFirst == [c \in Complaints |-> [open |-> c # 3, assigned |-> c = 3,
                                  point |-> CASE c = 2 -> "none" [] c = 4 -> "one" [] OTHER -> "both"]]
================================================================================
