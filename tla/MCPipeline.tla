----------------------------- MODULE MCPipeline -----------------------------
(* "dan", who is married, served in an Arkansas regiment; "cal", a widow,  *)
(* has no last name on file.                                               *)
EXTENDS Pipeline

MCDanCal == <<"dan", "cal">>
MCDan == {"dan"}
MCCal == {"cal"}
MCOrigin == [p \in Pensioners |-> IF p = "dan" THEN "AR" ELSE NoState]
MCSurrounding == <<"AR", "TX">>
Hit(m, l, s) == [memorial |-> m, level |-> l, signal |-> s]
MCHitsOfOne == {Hit("m1", 1, FALSE), Hit("m1", 3, FALSE)}
=============================================================================
