-------------------------- MODULE MCComplaintRecord --------------------------
EXTENDS ComplaintRecord, TLC

\* No caller, but a date and an organization that reported it.
MCFirsts ==
    {[f \in Fields |-> IF f = "caller_name" THEN Null ELSE "v1"]}

Symmetry == Permutations(Users)

=============================================================================
