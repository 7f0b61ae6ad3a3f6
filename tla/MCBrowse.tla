------------------------------- MODULE MCBrowse -------------------------------
(* One of the four programs of Browse runs, on small instances; the others *)
(* keep one state.                                                         *)
EXTENDS Browse

VARIABLE program

MCLadder == <<"s1", "s2", "s3">>

MCMakes == [
  p1 |-> [s1 |-> "query", s2 |-> "none", s3 |-> "query"],
  p2 |-> [s1 |-> "query", s2 |-> "raises", s3 |-> "none"],
  p3 |-> [s1 |-> "none", s2 |-> "none", s3 |-> "none"]]

(* A page whose first link is bare names nobody by it; of the second, the  *)
(* third link is gone and the fourth is not looked at.                     *)
MCResults == {
  << [to |-> "m1", text |-> "bare"] >>,
  << [to |-> "m1", text |-> "text"], [to |-> "m1", text |-> "bare"],
     [to |-> "m2", text |-> "gone"], [to |-> "m2", text |-> "text"] >>,
  << [to |-> "m2", text |-> "text"] >>}

MCScoreFor == [p \in Pensioners |-> [m1 |-> 1, m2 |-> IF p = "p1" THEN 2 ELSE 1]]

MCWidows == <<"w1", "w4", "w2", "w3">>

MCRanked == [w1 |-> <<"m1", "m2">>, w2 |-> <<"m2", "m3">>,
             w3 |-> <<"none", "m3">>, w4 |-> <<>>]

MCNames == [m1 |-> {"w1"}, m2 |-> {"w1", "w2"}, m3 |-> {"w2", "w3"}]

MCNoCaches == [operator |-> NoFile, shipped |-> NoFile]

MCCachesOf ==
  {MCNoCaches, [MCNoCaches EXCEPT !.operator = {"p1"}],
   [MCNoCaches EXCEPT !.shipped = {"p2"}]}

(* The default page, and the older one.                                    *)
MCPageSources == {{}, {"rows", "matches"}}

MCDefaultPage == {{}}

MCTemplate ==
  [version |-> 2, runname |-> "here", start |-> 0, end |-> -1,
   throttle |-> "floor", relax |-> FALSE, filter |-> "OK",
   modules |-> {"regional_planner", "fag_scraper", "candidate_scorer", "deep_refiner"},
   mode |-> "standard", refinements |-> 4]

MCEdits == {
  [MCTemplate EXCEPT !.start = 1, !.end = 3],
  [MCTemplate EXCEPT !.end = 2, !.throttle = "below", !.relax = TRUE, !.refinements = 6],
  [MCTemplate EXCEPT !.throttle = "below", !.filter = ""],
  [MCTemplate EXCEPT !.throttle = "below", !.modules = {"regional_planner"}],
  [MCTemplate EXCEPT !.modules = {"regional_planer"}],
  [MCTemplate EXCEPT !.start = 2, !.end = 2],
  [MCTemplate EXCEPT !.start = 3, !.end = 1],
  [MCTemplate EXCEPT !.runname = "elsewhere"],
  [MCTemplate EXCEPT !.mode = "reckless"],
  [MCTemplate EXCEPT !.version = 1, !.start = 1, !.end = 3, !.filter = "TX"],
  [MCTemplate EXCEPT !.mode = "none", !.refinements = -1]}

MCNoArguments ==
  [throttle |-> "floor", filter |-> "unset", mode |-> "unset", start |-> 0,
   limit |-> -1, relax |-> FALSE, shuffle |-> FALSE]

MCArguments == {
  MCNoArguments,
  [MCNoArguments EXCEPT !.mode = "aggressive"],
  [MCNoArguments EXCEPT !.throttle = "below", !.relax = TRUE, !.filter = ""],
  [MCNoArguments EXCEPT !.start = 2],
  [MCNoArguments EXCEPT !.limit = 1, !.shuffle = TRUE]}

MCPreset == [none |-> 0, standard |-> 4, aggressive |-> 8]

all == <<program, vars, SpouseVars, RunVars, RecipeVars>>

MCInit ==
  /\ program \in {"search", "spouse", "post", "recipe"}
  /\ Init /\ S!SpouseInit /\ P!PostInit /\ C!RecipeInit
  /\ program # "search" => driver = "batch" /\ who = "p1"
  /\ program # "post" => caches = MCNoCaches

Searching == program = "search" /\ UNCHANGED <<program, SpouseVars, RunVars, RecipeVars>>

MCNext ==
  \/ Searching /\ Next
  \/ program = "spouse" /\ S!SpouseNext
     /\ UNCHANGED <<program, vars, RunVars, RecipeVars>>
  \/ program = "post" /\ P!PostNext
     /\ UNCHANGED <<program, vars, SpouseVars, RecipeVars>>
  \/ program = "recipe" /\ C!RecipeNext
     /\ UNCHANGED <<program, vars, SpouseVars, RunVars>>

MCSpec ==
  /\ MCInit /\ [][MCNext]_all
  /\ WF_all(Searching /\ (LadderStep \/ BatchStep))
  /\ SF_all(Searching /\ Start(Pensioners))

(* FagSearch: every pensioner ends with a readable row.                    *)
EveryPensionerGetsARow == program = "search" => EveryoneGetsARow
===============================================================================
