-------------------------- MODULE MCIssueMutation ---------------------------
EXTENDS IssueMutation, TLC

CONSTANTS i1, i2, i3, r1, r2, todo, doing, done, c1

\* A one-way board: an issue passes through "doing" and does not go back.
OneWay == {<<todo, doing>>, <<doing, done>>}
Forward == {<<todo, doing>>}

\* Only "doing" has a work-in-progress limit.
LimitOnDoing == [s \in Statuses |-> IF s = doing THEN 1 ELSE 0]

\* Slots are interchangeable, and so are issues.
Slots == Permutations({r1, r2})
SlotsAndIssues == Permutations({r1, r2}) \cup Permutations({i1, i2, i3})
=============================================================================
