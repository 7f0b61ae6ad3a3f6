------------------------------- MODULE Records -------------------------------
(***************************************************************************)
(* The programs that look for a death date on a pension card (DeathDate)   *)
(* and those around the graves registry (Registry).  They share no state.  *)
(***************************************************************************)
CONSTANTS
  Sides, Cards, RedInk, Widow,  \* DeathDate
  Ids, Pensioners, Files, Orders, Links, Rows, Dixie, SoundAlike, Limit,
  TopN, Strict  \* Registry

VARIABLES
  card, rec, row, stale,
  records, order, links, pairs, parent, height, joined, persons, personOf,
  whoIs, judged, phase

D == INSTANCE DeathDate

R == INSTANCE Registry WITH rec <- records, row <- judged, todo <- pairs

ASSUME RecordsAssumption == D!DeathDateAssumption /\ R!RegistryAssumption

CardVars == <<card, rec, row, stale>>
RegistryVars ==
  <<records, order, links, pairs, parent, height, joined, persons, personOf,
    whoIs, judged, phase>>
-----------------------------------------------------------------------------
(* DeathDate: what a card tells is found, and then not doubted.            *)
ToldIsTrusted == D!ToldIsTrusted

(* DeathDate: a year right behind "died" is not suspected of a wrong digit.*)
SubstitutionMeansFar == D!SubstitutionMeansFar

(* DeathDate: a date Tesseract gave is left there.                         *)
TesseractStands == D!TesseractStands

(* Registry: the persons written are the components of what was joined.    *)
PersonsAreClasses == R!PersonsAreClasses

(* Registry: what the order and the cut of a lookup change of a verdict.   *)
VerdictsAgree == R!VerdictsAgree

(* Registry: whom the registry has is not lost to the cut of a lookup.     *)
WhoIsThereIsSeen == R!WhoIsThereIsSeen
==============================================================================
