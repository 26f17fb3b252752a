--------------------------- MODULE CaseAllocation ---------------------------
(***************************************************************************)
(* What automatic case distribution promises: a distribution hands its     *)
(* judge all its appeals in one step or none, an appeal has one judge at a *)
(* time and never returns to the pool by a distribution, and the record of *)
(* the distribution (DistributedCase) names the judge who has the appeal.  *)
(***************************************************************************)
CONSTANTS Appeals, Judges, NoJudge

VARIABLES
    holder,    \* the judge each appeal is assigned to
    recorded   \* the judge its current DistributedCase was created for

Init ==
    /\ holder = [a \in Appeals |-> NoJudge]
    /\ recorded = [a \in Appeals |-> NoJudge]

Give(j, S) ==
    /\ holder' = [a \in Appeals |-> IF a \in S THEN j ELSE holder[a]]
    /\ recorded' = [a \in Appeals |-> IF a \in S THEN j ELSE recorded[a]]

Next == \E j \in Judges, S \in SUBSET Appeals : Give(j, S)

Spec == Init /\ [][Next]_<<holder, recorded>>
=============================================================================
