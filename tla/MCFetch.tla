------------------------------ MODULE MCFetch ------------------------------
EXTENDS Fetch

CONSTANTS p1, p2, m1, m2, m3

TwoStrategies == <<"B1-exact", "B4-fuzzy-last">>
=============================================================================
