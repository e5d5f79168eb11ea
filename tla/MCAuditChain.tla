---------------------------- MODULE MCAuditChain ----------------------------
EXTENDS AuditChain, TLC

CONSTANTS e1, e2, e3, e4, e5, w1, w2, w3, p1, p2, v1

\* Events, writers of one isolation level and purgers are interchangeable.
Alike == Permutations({e1, e2, e3, e4, e5}) \cup Permutations({w1, w2})
         \cup Permutations({p1, p2})
=============================================================================
