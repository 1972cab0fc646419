--------------------------- MODULE ComplaintFeed ---------------------------
(***************************************************************************)
(* What NatComplaints promises about the complaints it takes from WebEOC,   *)
(* without any staging: per incident there is what WebEOC has submitted so  *)
(* far and at most one complaint.  The complaint appears once, as the whole *)
(* of something submitted for that very incident, and never disappears.     *)
(* Each later step takes some of its fields from one thing submitted.       *)
(***************************************************************************)
CONSTANTS Incidents, Fields, Contents, None

VARIABLES
    submitted,  \* per incident, the contents submitted
    shown       \* per incident, the content of its complaint, or None

vars == <<submitted, shown>>

Init ==
    /\ submitted = [i \in Incidents |-> {}]
    /\ shown = [i \in Incidents |-> None]

Submit(i, c) ==
    /\ submitted' = [submitted EXCEPT ![i] = @ \cup {c}]
    /\ UNCHANGED shown

Create(i, c) ==
    /\ shown[i] = None
    /\ c \in submitted[i]
    /\ shown' = [shown EXCEPT ![i] = c]
    /\ UNCHANGED submitted

Revise(i, c, F) ==
    /\ shown[i] # None
    /\ c \in submitted[i]
    /\ shown' = [shown EXCEPT ![i] = [f \in Fields |-> IF f \in F THEN c[f] ELSE @[f]]]
    /\ UNCHANGED submitted

Next == \E i \in Incidents, c \in Contents :
            Submit(i, c) \/ Create(i, c) \/ \E F \in SUBSET Fields : Revise(i, c, F)

Spec == Init /\ [][Next]_vars
=============================================================================
