-------------------------------- MODULE Browse --------------------------------
(***************************************************************************)
(* The programs before and behind a batch run beside each other: the       *)
(* search tool or a session of it (FagSearch), the spouse pass over a      *)
(* results file (SpousePass), the passes behind a run (PostPass), and runs *)
(* of one recipe (Recipe).  They share no state.                           *)
(***************************************************************************)
EXTENDS FagSearch

CONSTANTS
  Widows, Spoused, Ranked, NoMemorial, Names, TopN,  \* SpousePass
  PassFailures, PassKills, MaxAges,
  Applicants, Veterans, WithCard, Confirmed, Indexes, CachesOf, PageSources, NoFile, \* PostPass
  MaxRuns,
  Length, Edits, Arguments, Preset, MaxStarts, MaxStops  \* Recipe

VARIABLES
  matched, out, at, rank, passStep, cached, young, store, loaded, passSpent,
  rows, corrupt, obs, browser, index, caches, pageFile, sidecar, view, only, source,
  came, missed, postStep, postRuns, postFailures, postKills,
  config, run, done, scripts, recipeSpent, edited, plain, moded, deferred,
  finished

S == INSTANCE SpousePass WITH
  step <- passStep, spent <- passSpent,
  MaxFailures <- PassFailures, MaxKills <- PassKills

P == INSTANCE PostPass WITH
  Pensioners <- Applicants,
  step <- postStep, runs <- postRuns, failures <- postFailures, kills <- postKills

C == INSTANCE Recipe WITH rows <- done, spent <- recipeSpent

ASSUME BrowseAssumption ==
  S!SpousePassAssumption /\ P!PostPassAssumption /\ C!RecipeAssumption

SpouseVars ==
  <<matched, out, at, rank, passStep, cached, young, store, loaded, passSpent>>
RunVars ==
  <<rows, corrupt, obs, browser, index, caches, pageFile, sidecar, view, only, source,
    came, missed, postStep, postRuns, postFailures, postKills>>
RecipeVars ==
  <<config, run, done, scripts, recipeSpent, edited, plain, moded, deferred,
    finished>>
-----------------------------------------------------------------------------
(* SpousePass: repeating the pass costs no match of the cache.             *)
CachedMatchesStand == S!CachedMatchesStand

(* PostPass: a run without a warning carried every match everywhere.       *)
MatchesReachEverything == P!MatchesReachEverything

(* PostPass: the page of a run shows its rows.                             *)
PageHasTheRows == P!PageHasTheRows

(* Recipe: a run is what its recipe asks for.                              *)
RunIsItsRecipe == C!RunIsItsRecipe

(* Recipe: no row is done outside of the range.                            *)
NothingOutsideTheRange == C!NothingOutsideTheRange

(* Recipe: each row is done before the next one.                           *)
EachBeforeTheNext == C!EachBeforeTheNext

(* PostPass: what the spouse pass is for.                                  *)
SpousesReachTheRows == P!SpousesReachTheRows
===============================================================================
