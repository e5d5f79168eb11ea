--------------------------- MODULE MCDeliveryQueue --------------------------
EXTENDS DeliveryQueue, TLC

CONSTANTS d1, d2, d3, c1, w1, w2

\* Everything goes to one channel, in the order of the names.
SameChannel == [d \in Deliveries |-> c1]
ByName == [d \in Deliveries |-> IF d = d1 THEN 1 ELSE IF d = d2 THEN 2 ELSE 3]

WorkersAlike == Permutations({w1, w2})
=============================================================================
