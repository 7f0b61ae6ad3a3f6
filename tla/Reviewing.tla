------------------------------ MODULE Reviewing ------------------------------
(***************************************************************************)
(* The search and review of one record (Review) and what is learnt from    *)
(* the reviewer (Learning).  They share no state.                          *)
(***************************************************************************)
EXTENDS Review

CONSTANTS
  Folk, Own, Highest, Unit, Bins, Halvings, Target, PlanLists, Budgets, PickLists,
  Weight, Broken, MaxSidecars, MaxPasses, MaxKills  \* Learning

VARIABLES
  sidecars, lines, tail, unwritten, pass, own, fit, passes, kills

L == INSTANCE Learning WITH todo <- unwritten

ASSUME ReviewingAssumption == L!LearningAssumption

LearningVars == <<sidecars, lines, tail, unwritten, pass, own, fit, passes, kills>>
-----------------------------------------------------------------------------
(* Learning: the trainer reads the newest decisions.                       *)
LabelsReachTheTrainer == L!LabelsReachTheTrainer

(* Learning: what is learnt goes the way the labels go.                    *)
LearningFollowsTheLabels == L!LearningFollowsTheLabels
==============================================================================
