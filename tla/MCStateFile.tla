---------------------------- MODULE MCStateFile ----------------------------
EXTENDS StateFile

CONSTANTS p1, p2, p3

TwoPensioners == <<p1, p2>>
ThreePensioners == <<p1, p2, p3>>
FirstPaged == {p1}
=============================================================================
