-------------------------- MODULE MCLinkGeneration --------------------------
EXTENDS LinkGeneration

Equal22 == [left |-> 2, right |-> 2]
Unequal13 == [left |-> 1, right |-> 3]
Unequal23 == [left |-> 2, right |-> 3]
Far == [left |-> 2, right |-> 2]
Internal == [left |-> 0, right |-> 2]
Uneven == [left |-> 1, right |-> 2]
Skewed == [left |-> 1, right |-> 3]
=============================================================================
