------------------------------ MODULE Learning ------------------------------
(***************************************************************************)
(* What is learnt from the reviewer (scripts/learning, post_pass/labels.py,*)
(* matching/evaluation.py): the pass of a run that appends the newest      *)
(* decisions to a file of labels, the trainer that reads that file, and    *)
(* what is fitted: calibration points, a slope, thresholds, weights, and   *)
(* the order of query plans.                                               *)
(*                                                                         *)
(* Scores and probabilities are whole multiples of 1 / Highest and         *)
(* 1 / Unit, chosen so that the averages are exact; the code's floats are  *)
(* rounded to three or four digits.  Of the logistic regression over picks *)
(* only the signs of its coefficients are kept.  Labels are told apart by  *)
(* their places in the files, and a sum is the size of a set.              *)
(***************************************************************************)
EXTENDS Integers, Sequences, FiniteSets, SequencesExt, FiniteSetsExt

CONSTANTS
  Folk,      \* the pensioners, in the order a sidecar lists them
  Own,       \* files of labels a person may have put beside the passes' own
  Highest,   \* the score 1
  Unit,      \* the probability 1; the averages of scores are in 1 / (Highest * Unit)
  Bins,      \* parts the labels are averaged in: ten in the code
  Halvings,  \* steps of the search for a threshold: twenty in the code
  Target,    \* precision asked of a threshold, in percent: 95 in the code
  PlanLists, Budgets, \* what the ranker may be asked
  PickLists, Weight,  \* picks below rank one; the scorer's weights, in tenths
  Broken,    \* a sidecar or line that is not JSON
  MaxSidecars, MaxPasses, MaxKills \* bounds

(* from_decisions_file: what a decision of the reviewer's page means.      *)
Decisions == {"undecided", "picked", "research", "nobody", "note"}

Labels == [who : ToSet(Folk), says : {"accepted", "ambiguous", "rejected", "unreviewed"}]

(* What the ranker looks at of a query plan.                               *)
Plans ==
  [shape : STRING, target : STRING, scope : STRING, regiment : BOOLEAN, cost : Nat,
   params : STRING]

(* What the constants must be; assumed where they get their values.        *)
LearningAssumption ==
  /\ {Highest, Unit, Bins, Halvings} \subseteq Nat \ {0} /\ Target \in 1 .. 100
  /\ Folk \in Seq(ToSet(Folk))
  /\ \A i, j \in DOMAIN Folk : Folk[i] = Folk[j] => i = j
  /\ \A b \in Own :
       /\ b \in Seq([accepted : BOOLEAN, score : 0 .. Highest])
       /\ \A k \in 1 .. (Len(b) + MaxPasses * Len(Folk)) \div Bins + 1 : Unit % k = 0
  /\ Broken \notin Labels /\ Broken \notin [ToSet(Folk) -> Decisions]
  /\ PlanLists \subseteq Seq(Plans) /\ Budgets \subseteq Nat
  /\ \A f \in DOMAIN Weight : Weight[f] \in 1 .. 20
  /\ PickLists \subseteq Seq([accepted : BOOLEAN, rank : Nat, delta : [DOMAIN Weight -> Int]])
  /\ {MaxSidecars, MaxPasses, MaxKills} \subseteq Nat

VARIABLES
  sidecars,  \* decisions_*.json by name, the newest last
  lines,     \* labels file: labels, and lines that can not be read
  tail,      \* how it ends: "line", "whole" (but for its newline) or "cut"
  todo,      \* places of the labels the pass that runs has still to write
  pass,      \* "no", "runs" or "through" (with the newest sidecar)
  own,       \* labels beside that file
  fit,       \* what was computed last
  passes, kills

labelVars == <<sidecars, lines, tail, todo, pass, own, fit, passes, kills>>

NoFit == [kind |-> "none"]

Review(d) ==
  CASE d = "picked" -> "accepted" [] d = "research" -> "ambiguous"
    [] d = "nobody" -> "rejected" [] OTHER -> "unreviewed"

(* A mutant: the sidecar that was there first.                             *)
Oldest == Head(sidecars)

Newest == Last(sidecars)

(* The pensioners there is a decision for, by their places, and the label. *)
Decided(side) == {i \in DOMAIN Folk : side[Folk[i]] # "undecided"}
LabelOf(side, i) == [who |-> Folk[i], says |-> Review(side[Folk[i]])]
-----------------------------------------------------------------------------
(* Nothing is there yet but labels of a person's own.  The bound of passes *)
(* may be used up already: then only the trainer follows.                  *)
Init ==
  /\ sidecars = <<>> /\ lines = <<>> /\ tail = "line" /\ todo = {} /\ pass = "no"
  /\ own \in Own /\ fit = NoFit
  /\ passes \in 0 .. MaxPasses /\ kills = 0

(* The reviewer saves the decisions; the download may be cut.              *)
Save(side) ==
  /\ pass # "runs" /\ Len(sidecars) < MaxSidecars /\ passes < MaxPasses
  /\ sidecars' = Append(sidecars, side) /\ pass' = "no"
  /\ UNCHANGED <<lines, tail, todo, own, fit, passes, kills>>

(* run, of a recipe that collects labels: without a sidecar that can be    *)
(* read, or without a decision in it, the pass is skipped.                 *)
BeginPass ==
  /\ pass # "runs" /\ passes < MaxPasses /\ passes' = passes + 1
  /\ sidecars # <<>> /\ Newest # Broken /\ Decided(Newest) # {}
  /\ todo' = Decided(Newest) /\ pass' = "runs"
  /\ UNCHANGED <<sidecars, lines, tail, own, fit, kills>>

(* A line put behind one without newline is of a piece with it.            *)
Put(file, line) ==
  IF tail = "line" THEN Append(file, line) ELSE Append(Front(file), Broken)

NextLabel == LabelOf(Newest, Min(todo))

WriteLabel ==
  /\ pass = "runs" /\ todo # {}
  /\ lines' = Put(lines, NextLabel) /\ tail' = "line" /\ todo' = todo \ {Min(todo)}
  /\ UNCHANGED <<sidecars, pass, own, fit, passes, kills>>

EndPass ==
  /\ pass = "runs" /\ todo = {} /\ pass' = "through"
  /\ UNCHANGED <<sidecars, lines, tail, todo, own, fit, passes, kills>>

(* The lines come to the file in portions: what a kill leaves ends         *)
(* anywhere in the next one.                                               *)
Killed ==
  /\ pass = "runs" /\ kills < MaxKills /\ kills' = kills + 1
  /\ \/ UNCHANGED <<lines, tail>>
     \/ todo # {} /\ tail' = "cut" /\ lines' = Put(lines, Broken)
     \/ todo # {} /\ tail' = "whole" /\ lines' = Put(lines, NextLabel)
  /\ todo' = {} /\ pass' = "no"
  /\ UNCHANGED <<sidecars, own, fit, passes>>
-----------------------------------------------------------------------------
(* load_labels: a line that is not JSON is passed over, a person's labels  *)
(* come behind.  The labels of the pass tell no score, and                 *)
(* compute_label_features takes 0 for it.                                  *)
Readable == {k \in DOMAIN lines : lines[k] # Broken}

LoadLabels ==
  [k \in Readable \cup {Len(lines) + n : n \in DOMAIN own} |->
     IF k > Len(lines) THEN own[k - Len(lines)]
     ELSE [accepted |-> lines[k].says = "accepted", score |-> 0]]

(* The sum of natural numbers f[k].                                        *)
SumOver(S, f) == Cardinality(UNION {{k} \X (1 .. f[k]) : k \in S})
Accepted(labels, S) == Cardinality({k \in S : labels[k].accepted})
Scores(labels, S) == SumOver(S, [k \in S |-> labels[k].score])

(* The members of S in the order of a relation that has no ties.           *)
InOrder(S, R) ==
  [n \in 1 .. Cardinality(S) |->
     CHOOSE k \in S : Cardinality({j \in S : <<j, k>> \in R}) = n - 1]

(* A mutant: as they come.                                                 *)
AsTheyCome(labels) ==
  {p \in (DOMAIN labels) \X (DOMAIN labels) : p[1] < p[2]}

(* The order of the pairs of score and acceptance.                         *)
Less(a, b) ==
  a.score < b.score \/ (a.score = b.score /\ ~a.accepted /\ b.accepted)

Sorted(labels) ==
  {p \in (DOMAIN labels) \X (DOMAIN labels) :
     LET a == labels[p[1]]  b == labels[p[2]]
     IN  Less(a, b) \/ (~Less(b, a) /\ p[1] < p[2])}

(* update_from_labels: the calibration points of the priors, the averages  *)
(* of the sorted labels cut into Bins parts of about the same length.      *)
Points(labels) ==
  LET order == InOrder(DOMAIN labels, Sorted(labels))
      Cut(i) == (i * Cardinality(DOMAIN labels)) \div Bins
      Part(i) == {order[n] : n \in Cut(i - 1) + 1 .. Cut(i)}
  IN  [i \in {b \in 1 .. Bins : Cut(b - 1) < Cut(b)} |->
         LET size == Cut(i) - Cut(i - 1) IN
           [at |-> (Unit * Scores(labels, Part(i))) \div size, size |-> size,
            p |-> (Unit * Accepted(labels, Part(i))) \div size]]

(* match_probability of a score in 1 / (Highest * Unit): between the       *)
(* points on a line, beyond them as at the nearest.                        *)
Between(a, b, s) ==
  IF a.at = b.at THEN a.p ELSE a.p + ((s - a.at) * (b.p - a.p)) \div (b.at - a.at)

MatchProbability(points, s) ==
  LET above == {k \in DOMAIN points : s <= points[k].at}
      below == {k \in DOMAIN points : k < Min(above)}
  IN  CASE above = {} -> points[Max(DOMAIN points)].p
        [] above # {} /\ below = {} -> points[Min(above)].p
        [] OTHER -> Between(points[Max(below)], points[Min(above)], s)

(* CalibratedClassifier.train: the slope of its line, times a positive     *)
(* number; a higher score is more probable where it is positive.           *)
Slope(labels) ==
  LET all == DOMAIN labels
      picked == {k \in all : labels[k].accepted}
  IN  Cardinality(all) * Scores(labels, picked)
        - Scores(labels, all) * Cardinality(picked)
-----------------------------------------------------------------------------
(* The matrix at a threshold in 1 / (Highest * fine).                      *)
Counted(labels, t, fine) ==
  LET said == {k \in DOMAIN labels : labels[k].score * fine >= t}
      right == {k \in DOMAIN labels : labels[k].accepted}
  IN  [tp |-> Cardinality(said \cap right), fp |-> Cardinality(said \ right),
       fn |-> Cardinality(right \ said)]

(* A metric as a fraction; nothing predicted, or nothing to find, is 0.    *)
Metric(name, m) ==
  LET whole == CASE name = "precision" -> m.tp + m.fp
                 [] name = "recall" -> m.tp + m.fn
                 [] OTHER -> 2 * m.tp + m.fp + m.fn
      part == IF name = "f1" THEN 2 * m.tp ELSE m.tp
  IN  IF whole = 0 THEN <<0, 1>> ELSE <<part, whole>>

Better(x, y) == x[1] * y[2] > y[1] * x[2]

(* best_threshold: the first of the candidates none is better than: the    *)
(* scores seen, their midpoints, 0 and 1, in 1 / (2 * Highest).            *)
CandidateThresholds(labels) ==
  LET seen == {labels[k].score : k \in DOMAIN labels}
      Above(s) == Min({r \in seen : r > s})
  IN  {0, 2 * Highest} \cup {2 * s : s \in seen}
        \cup {s + Above(s) : s \in seen \ {Max(seen)}}

BestThreshold(name, labels) ==
  LET At(t) == Metric(name, Counted(labels, t, 2))
      best == {t \in CandidateThresholds(labels) :
                 \A u \in CandidateThresholds(labels) : ~Better(At(u), At(t))}
  IN  Min(best)

(* calibrate_threshold over the probabilities of held-out labels.  A       *)
(* precision that is not met sends the search down.                        *)
Fine == 2 ^ Halvings
Meets(labels, t) ==
  LET p == Metric("precision", Counted(labels, t, Fine))
  IN  100 * p[1] >= Target * p[2]

CalibrateThreshold(labels) ==
  LET search[k \in 0 .. Halvings] ==
        IF k = 0 THEN [lo |-> 0, hi |-> Highest * Fine, best |-> Highest * Fine]
        ELSE LET s == search[k - 1]
                 mid == (s.lo + s.hi) \div 2
             IN  IF Meets(labels, mid) THEN [lo |-> mid, hi |-> s.hi, best |-> mid]
                 ELSE [lo |-> s.lo, hi |-> mid, best |-> s.best]
  IN  search[Halvings].best

(* train.py's main, and the harness over the same labels.  Nothing of it   *)
(* comes to the disk: save raises on the priors, whose utilities are kept  *)
(* under pairs, before the classifier is trained.                          *)
Train ==
  /\ fit = NoFit /\ pass # "runs" /\ DOMAIN LoadLabels # {}
  /\ fit' = [kind |-> "trained", labels |-> LoadLabels, points |-> Points(LoadLabels),
             slope |-> Slope(LoadLabels),
             best |-> [m \in {"f1", "precision", "recall"} |-> BestThreshold(m, LoadLabels)],
             level |-> CalibrateThreshold(LoadLabels)]
  /\ UNCHANGED <<sidecars, lines, tail, todo, pass, own, passes, kills>>
-----------------------------------------------------------------------------
(* What does not read the labels is asked before there are any: a bound.   *)
Untouched == fit = NoFit /\ sidecars = <<>> /\ own = <<>> /\ passes = 0

(* PlanRanker: usefulness of a plan's shape for what it is after, with the *)
(* bonus or penalty of its place, in hundredths.                           *)
StrategyUsefulness(shape, target) ==
  CASE shape = "exact_name" /\ target = "identity" -> 90
    [] shape = "exact_name" /\ target = "veteran" -> 70
    [] shape = "exact_name" /\ target = "death_date" -> 60
    [] shape = "fuzzy_last" /\ target = "identity" -> 60
    [] shape = "cw_context" /\ target = "veteran" -> 80
    [] shape = "year_sniper" /\ target = "death_date" -> 85
    [] shape = "nickname" /\ target = "identity" -> 50
    [] shape = "global_fallback" /\ target = "any" -> 30
    [] OTHER -> 20

ScorePlan(plan) ==
  StrategyUsefulness(plan.shape, plan.target)
    + CASE plan.scope = "OK" -> 10
        [] plan.scope \in {"RegimentOrigin", "Texas"} -> IF plan.regiment THEN 5 ELSE 0
        [] plan.scope \in {"Global", "US"} -> -5
        [] OTHER -> 0

(* Plans that differ neither in strategy nor in place nor in parameters.   *)
Same(a, b) == a.shape = b.shape /\ a.scope = b.scope /\ a.params = b.params

Before(a, b) ==
  ScorePlan(a) > ScorePlan(b) \/ (ScorePlan(a) = ScorePlan(b) /\ a.cost < b.cost)

Sooner(plans) ==
  {p \in (DOMAIN plans) \X (DOMAIN plans) :
     LET a == plans[p[1]]  b == plans[p[2]]
     IN  Before(a, b) \/ (~Before(b, a) /\ p[1] < p[2])}

(* Of plans that are the same the first is kept.                           *)
Ranked(plans, budget) ==
  LET first == {i \in DOMAIN plans : \A j \in DOMAIN plans :
                  Same(plans[j], plans[i]) => <<j, i>> \notin Sooner(plans)}
      order == InOrder(first, Sooner(plans))
  IN  [n \in 1 .. Min({budget, Cardinality(first)}) |-> plans[order[n]]]

Rank(plans, budget) ==
  /\ Untouched
  /\ fit' = [kind |-> "ranked", plans |-> plans, budget |-> budget,
             ranked |-> Ranked(plans, budget)]
  /\ UNCHANGED <<sidecars, lines, tail, todo, pass, own, passes, kills>>
-----------------------------------------------------------------------------
(* extract_pairs_from_labels: accepted picks below the first rank, with    *)
(* the evidence they had more or less of than the first.  Less counts      *)
(* twice: it is taken from the one and added to the other.                 *)
Used(picks) == {k \in DOMAIN picks : picks[k].accepted /\ picks[k].rank > 1}

Pairs(picks) ==
  [k \in Used(picks) |-> [f \in DOMAIN Weight |->
     LET d == picks[k].delta[f] IN IF d < 0 THEN 2 * d ELSE d]]

(* The regression's coefficient of a feature, doubled, in tenths: it has   *)
(* the sign of the differences where they agree.                           *)
Coefficients(pairs) ==
  {c \in [DOMAIN Weight -> {-30, 0, 30}] :
     \A f \in DOMAIN Weight :
       LET diffs == {pairs[k][f] : k \in DOMAIN pairs} IN
         /\ (\A d \in diffs : d >= 0) => c[f] >= 0
         /\ (\A d \in diffs : d <= 0) => c[f] <= 0}

Clamp(w) == Max({1, Min({20, w})})

(* learn: the corrected weights before they are scaled to a maximum of 2;  *)
(* without pairs the scorer's own, which are not scaled.                   *)
Learn(picks) ==
  /\ Untouched
  /\ \E c \in Coefficients(Pairs(picks)) :
       fit' = [kind |-> "weights", picks |-> picks,
               weight |-> IF Used(picks) = {} THEN Weight
                          ELSE [f \in DOMAIN Weight |-> Clamp(Weight[f] + c[f])]]
  /\ UNCHANGED <<sidecars, lines, tail, todo, pass, own, passes, kills>>

Sidecars == [ToSet(Folk) -> Decisions] \cup {Broken}

(* Nothing is followed beyond what was computed: a bound.                  *)
Next ==
  \/ fit = NoFit /\ \E side \in Sidecars : Save(side)
  \/ fit = NoFit /\ (BeginPass \/ WriteLabel \/ EndPass \/ Killed)
  \/ Train
  \/ \E plans \in PlanLists, budget \in Budgets : Rank(plans, budget)
  \/ \E picks \in PickLists : Learn(picks)

Spec == Init /\ [][Next]_labelVars
-----------------------------------------------------------------------------
LastLabelOf(p) ==
  LET his == {k \in Readable : lines[k].who = p}
  IN  IF his = {} THEN "none" ELSE lines[Max(his)].says

(* When a pass came through, the last label the trainer reads of each      *)
(* pensioner is what the newest sidecar has; after a kill it may be        *)
(* missing or older for the first of them, whose line was put behind a     *)
(* torn one (post_pass/labels.py 132, train.py _read_jsonl).               *)
LabelsReachTheTrainer ==
  pass = "through" /\ Last(sidecars) # Broken =>
    LET side == Last(sidecars)
        wrong == {i \in Decided(side) :
                    \/ LastLabelOf(Folk[i]) = "none"
                    \/ (LastLabelOf(Folk[i]) = "accepted") # (side[Folk[i]] = "picked")}
    IN  wrong = {} \/ (kills > 0 /\ wrong = {Min(Decided(side))})

(* The accepted labels are those with the best scores.                     *)
Clear(labels) ==
  \A i, j \in DOMAIN labels :
    labels[i].accepted /\ ~labels[j].accepted => labels[i].score > labels[j].score

(* No label is left out of the calibration or counted twice; and if the    *)
(* reviewer accepted just the best scores, a better score is never taken   *)
(* for less probable, by the points or by the slope.                       *)
FitKeepsTheOrder ==
  fit.kind = "trained" =>
    /\ LET bins == DOMAIN fit.points  all == DOMAIN fit.labels IN
         /\ SumOver(bins, [i \in bins |-> fit.points[i].size]) = Cardinality(all)
         /\ SumOver(bins, [i \in bins |-> fit.points[i].size * fit.points[i].p])
              = Unit * Accepted(fit.labels, all)
    /\ Clear(fit.labels) =>
         /\ \A s \in 1 .. Highest * Unit :
              MatchProbability(fit.points, s - 1) <= MatchProbability(fit.points, s)
         /\ fit.slope >= 0

(* No threshold at all is better than the one best_threshold found among   *)
(* its candidates; and that of calibrate_threshold, unless it is 1, has    *)
(* the precision asked for.                                                *)
ThresholdsHold ==
  fit.kind = "trained" =>
    /\ \A m \in DOMAIN fit.best : \A t \in -1 .. 4 * Highest + 1 :
         ~Better(Metric(m, Counted(fit.labels, t, 4)),
                 Metric(m, Counted(fit.labels, fit.best[m], 2)))
    /\ fit.level = Highest * Fine \/ Meets(fit.labels, fit.level)

(* The ranker keeps the better plans before the others and none twice; one *)
(* it leaves out is the same as one it kept that is as good, or the budget *)
(* is spent on better ones.                                                *)
PlansAreRanked ==
  fit.kind = "ranked" =>
    /\ \A i, j \in DOMAIN fit.ranked :
         i < j => ~Same(fit.ranked[i], fit.ranked[j]) /\ ~Before(fit.ranked[j], fit.ranked[i])
    /\ \A k \in DOMAIN fit.plans : LET plan == fit.plans[k] IN
         \/ \E n \in DOMAIN fit.ranked :
              Same(fit.ranked[n], plan) /\ ScorePlan(fit.ranked[n]) >= ScorePlan(plan)
         \/ /\ Len(fit.ranked) = fit.budget
            /\ \A n \in DOMAIN fit.ranked : ScorePlan(fit.ranked[n]) >= ScorePlan(plan)

(* Evidence every man picked had at least as much of as the first of his   *)
(* list does not lose weight to evidence each had no more of.              *)
WeightsFollowThePicks ==
  fit.kind = "weights" =>
    \A f, g \in DOMAIN Weight :
      (\A k \in Used(fit.picks) : fit.picks[k].delta[f] >= 0 /\ fit.picks[k].delta[g] <= 0)
        => fit.weight[f] * Weight[g] >= fit.weight[g] * Weight[f]

(* What is learnt goes the way the labels go.                              *)
LearningFollowsTheLabels ==
  FitKeepsTheOrder /\ ThresholdsHold /\ PlansAreRanked /\ WeightsFollowThePicks
=============================================================================
