------------------------------ MODULE MCReview ------------------------------
(* One of two programs runs: the search and review of one record (Review), *)
(* or what is learnt from the reviewer (Learning).  Records and memorials  *)
(* each differ from a plain one in what the name says of it.               *)
EXTENDS Reviewing, TLC

VARIABLE program

Plain ==
  [first |-> TRUE, middle |-> NoMiddle, apostrophe |-> FALSE, nickname |-> FALSE,
   spouse |-> FALSE, regiment |-> TRUE, widow |-> FALSE, texas |-> FALSE,
   origin |-> "AL", burial |-> NoState, born |-> NoYear, died |-> NoYear,
   state |-> NoState]

Dated == [Plain EXCEPT !.born = 1840, !.died = 1915, !.middle = "full", !.texas = TRUE]
Married == [Plain EXCEPT !.spouse = TRUE, !.died = 1915]
Widow == [Plain EXCEPT !.spouse = TRUE, !.widow = TRUE, !.died = 1915]

WellKnown == [Dated EXCEPT !.spouse = TRUE, !.texas = FALSE, !.origin = NoState]

MCRecords == {Plain, Dated, Married, WellKnown, Widow}

Man ==
  [name |-> "man", first |-> "equal", last |-> "equal", middle |-> "equal",
   state |-> "OK", born |-> 1841, died |-> 1915, veteran |-> TRUE,
   soldiersCemetery |-> FALSE, threeNames |-> TRUE, nickname |-> FALSE,
   spouseName |-> FALSE, unit |-> FALSE, linked |-> TRUE, spouse |-> "same",
   marks |-> TRUE]

InTexas == [Man EXCEPT !.state = "TX", !.spouse = "sameLast"]
FarAway == [Man EXCEPT !.state = "GA", !.veteran = FALSE, !.linked = FALSE,
                       !.spouse = "none"]
OddlySpelt == [Man EXCEPT !.name = "odd", !.last = "sound"]
Titled == [Man EXCEPT !.name = "captain", !.spouse = "none"]
Shortened == [Man EXCEPT !.name = "short", !.last = "prefix"]
Initials == [Man EXCEPT !.name = "initials", !.first = "maleInitial", !.middle = "absent"]
Namesake == [Man EXCEPT !.born = 1880, !.died = 1940, !.veteran = FALSE,
                        !.spouse = "none"]
Grandson == [Man EXCEPT !.born = 1885, !.died = 1915]
Undated == [Man EXCEPT !.born = NoYear, !.died = NoYear, !.veteran = FALSE,
                       !.soldiersCemetery = TRUE]
Late == [Man EXCEPT !.died = 1950, !.marks = FALSE]

MCProfiles == {Man, InTexas, FarAway, OddlySpelt, Shortened, Titled, Initials, Namesake, Grandson,
               Undated, Late}

MCLog2 == <<0, 100000, 158496>>

(* Labels of up to four pensioners with scores; plans and picks that are   *)
(* alike in all but what the ranker or the learner looks at.               *)
MCOwn == UNION {[1 .. n -> [accepted : BOOLEAN, score : 0 .. 3]] : n \in 0 .. 4}

ExactPlan == [shape |-> "exact_name", target |-> "any", scope |-> "OK",
          regiment |-> FALSE, cost |-> 1, params |-> "name"]
NicknamePlan == [ExactPlan EXCEPT !.shape = "nickname", !.scope = "Texas", !.regiment = TRUE]
MCPlans ==
  UNION {[1 .. n -> {ExactPlan, [ExactPlan EXCEPT !.target = "veteran"],
                     [ExactPlan EXCEPT !.scope = "US", !.params = "years"],
                     [NicknamePlan EXCEPT !.target = "identity", !.cost = 2], NicknamePlan}]
         : n \in 0 .. 4}

MCFolk == <<1, 2>>
MCWeight == [last |-> 10, year |-> 5, state |-> 1]
Deltas == [DOMAIN MCWeight -> {-1, 0, 1}]
Picks(a, n, deltas) == [accepted : a, rank : n, delta : deltas]
MCPicks ==
  {<<>>} \cup {<<l>> : l \in Picks(BOOLEAN, {1, 2}, Deltas)}
    \cup {<<l, m>> : l \in Picks({TRUE}, {2}, Deltas),
                     m \in Picks({TRUE}, {3}, {d \in Deltas : d.state = 0})}

all == <<program, vars, LearningVars>>

(* Where a person laid labels down the passes are not followed.            *)
MCInit ==
  \/ program = "review" /\ Init
     /\ own = <<>> /\ passes = 0 /\ L!Init
  \/ program = "learning" /\ L!Init /\ passes = (IF own = <<>> THEN 0 ELSE 2)
     /\ rec = Plain /\ world = [m \in Memorials |-> Man] /\ Init

MCNext ==
  \/ program = "review" /\ Next /\ UNCHANGED <<program, LearningVars>>
  \/ program = "learning" /\ L!Next /\ UNCHANGED <<program, vars>>

MCSpec == MCInit /\ [][MCNext]_all

Symmetric == Permutations(Memorials)
=============================================================================
