------------------------------ MODULE Scoring ------------------------------
(***************************************************************************)
(* How a memorial found on Find a Grave is scored against a pensioner's    *)
(* record (scripts/fag/scoring.py), which dates are possible for a veteran *)
(* or a widow of the war (scripts/fag/filters.py), and what the scores of  *)
(* all candidates come to (scripts/blackboard/decision_policy.py).         *)
(*                                                                         *)
(* A name is abstracted to how it compares with the recorded one.  Scores  *)
(* are in units of a hundred-thousandth, so that the weights, the levels   *)
(* and the date penalty are exact; the code's binary floating point rounds *)
(* at the boundaries.                                                      *)
(***************************************************************************)
EXTENDS Integers, FiniteSets, FiniteSetsExt

NoYear == -1  \* a year that is not recorded; a recorded "0" is the year 0
NoState == ""
NoMiddle == ""  \* no middle name on record

(* A pensioner's record r has middle, widow, died, born and regiment; its  *)
(* state is that of the search.  A memorial is how it compares with it.    *)
LastLevels == {"equal", "prefix", "sound", "other"}
FirstLevels == {"equal", "initial", "maleInitial", "sound", "other"}
MiddleLevels == {"equal", "initial", "other", "absent"}

Possible(born, died, widow) ==
  LET lastBirth == IF widow THEN 1920 ELSE 1880
      lastDeath == IF widow THEN 1980 ELSE 1955
  IN  /\ born # NoYear => 1810 <= born /\ born <= lastBirth
      /\ died # NoYear => 1861 <= died /\ died <= lastDeath

LastScore(m) ==
  CASE m.last = "equal" -> 100 [] m.last = "prefix" -> 70
    [] m.last = "sound" -> 50 [] OTHER -> 0

(* A widow has no veteran's first name: the initial counts for less.       *)
FirstScore(r, m) ==
  CASE m.first = "equal" -> 100
    [] m.first = "initial" -> 60
    [] m.first = "maleInitial" -> IF r.widow THEN 30 ELSE 60
    [] m.first = "sound" -> 40
    [] OTHER -> 0

MiddleScore(r, m) ==
  CASE r.middle = NoMiddle -> 50
    [] r.middle # NoMiddle /\ m.middle = "equal" -> 100
    [] r.middle # NoMiddle /\ m.middle = "initial" -> 50
    [] OTHER -> 0

BurialScore(m) ==
  IF m.state = "OK" THEN 30 ELSE IF m.soldiersCemetery THEN 20 ELSE 0

StateScore(r, m) ==
  IF r.state # NoState /\ r.state = m.state THEN 10 ELSE 0

(* Both blank: a weak signal, added as it is.                              *)
StateBias(r, m) == IF r.state = NoState /\ m.state = NoState THEN 500 ELSE 0

VeteranScore(r, m) == IF ~r.widow /\ m.veteran THEN 80 ELSE 0

WidowScore(r, m) == IF r.widow THEN FirstScore(r, m) \div 2 ELSE 0

ByDistance(years) ==
  CASE years = 0 -> 50 [] years \in 1 .. 2 -> 40 [] years \in 3 .. 5 -> 20
    [] years \in 6 .. 10 -> 10 [] years \in 11 .. 20 -> 5 [] OTHER -> 0

(* A widow's card has the soldier's death: hers comes after it.            *)
AfterTheSoldier(years) ==
  CASE years \in 0 .. 5 -> 45 [] years \in 6 .. 15 -> 35
    [] years \in 16 .. 40 -> 25 [] years \in 41 .. 60 -> 15 [] OTHER -> 0

Distance(a, b) == IF a > b THEN a - b ELSE b - a
Larger(a, b) == IF a > b THEN a ELSE b

DeathScore(r, m) ==
  CASE m.died = NoYear -> 0
    [] m.died # NoYear /\ r.died # NoYear /\ ~r.widow ->
         ByDistance(Distance(r.died, m.died))
    [] m.died # NoYear /\ r.died # NoYear /\ r.widow ->
         IF m.died < r.died THEN 0
         ELSE Larger(ByDistance(m.died - r.died), AfterTheSoldier(m.died - r.died))
    [] m.died # NoYear /\ r.died = NoYear /\ r.widow ->
         IF Possible(NoYear, m.died, TRUE) THEN 30 ELSE 0
    [] OTHER ->
         IF r.regiment /\ Possible(NoYear, m.died, FALSE) THEN 20 ELSE 0

MaidenScore(r, m) ==
  IF r.widow /\ LastScore(m) > 0 /\ FirstScore(r, m) >= 60 /\ m.threeNames
  THEN 100 ELSE 0

Weighted(r, m) ==
  22 * LastScore(m) + 17 * FirstScore(r, m) + 11 * MiddleScore(r, m)
    + 15 * BurialScore(m) + 5 * StateScore(r, m) + 18 * VeteranScore(r, m)
    + 18 * WidowScore(r, m) + 22 * DeathScore(r, m) + 12 * MaidenScore(r, m)
    + StateBias(r, m)

(* A mutant: the penalty is half of what it is.                            *)
MildPenalty(r, m) == IF Possible(m.born, m.died, r.widow) THEN 10 ELSE 7

(* Impossible dates leave three tenths of the score.                       *)
Penalty(r, m) == IF Possible(m.born, m.died, r.widow) THEN 10 ELSE 3

Score(r, m) == Penalty(r, m) * Weighted(r, m)

One == 100000
Capped(s) == IF s > One THEN One ELSE s

(* _merge_candidates: each strategy after the first that finds the same    *)
(* memorial adds a twentieth.                                              *)
Converged(s, n) == IF n > 1 THEN Capped((s * (20 + n - 1)) \div 20) ELSE s
-----------------------------------------------------------------------------
LowScore == 40000
AutoAccept == 70000
AutoAcceptNoDeath == 60000
Gap == 10000

Threshold(r) == IF r.died \in {NoYear, 0} THEN AutoAcceptNoDeath ELSE AutoAccept

(* The scores of the two best of the candidates.                           *)
Top(score) == IF DOMAIN score = {} THEN 0
              ELSE Max({score[c] : c \in DOMAIN score})
Second(score) ==
  LET best == CHOOSE c \in DOMAIN score : score[c] = Top(score)
      rest == DOMAIN score \ {best}
  IN  IF rest = {} THEN 0 ELSE Max({score[c] : c \in rest})

(* classify, for a record, the scores and whether a result list was cut or *)
(* the parser warned.                                                      *)
Classify(r, score, warned) ==
  CASE DOMAIN score = {} -> "no_candidates"
    [] DOMAIN score # {} /\ Top(score) < LowScore -> "low_score"
    [] DOMAIN score # {} /\ Top(score) >= LowScore /\ ~warned
         /\ Top(score) >= Threshold(r)
         /\ (Cardinality(DOMAIN score) = 1 \/ Top(score) - Second(score) >= Gap)
         -> "auto_accept"
    [] OTHER -> "needs_review"
=============================================================================
