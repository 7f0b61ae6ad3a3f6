------------------------------- MODULE Recipe -------------------------------
(***************************************************************************)
(* The recipe of a run: output/<runname>/config.json, from init-batch and  *)
(* the operator's edits (batch_config.py) through the command line that    *)
(* overrides it, the run that writes it back, and the two scripts the run  *)
(* leaves to be started again with, restart.sh and resume.sh               *)
(* (run_unified.py: cli_main, write_restart_script, write_resume_artifact).*)
(* A row is its place in the input, from 0.                                *)
(***************************************************************************)
EXTENDS Integers, FiniteSets, Functions

CONSTANTS
  Length,     \* rows of the input file
  Edits,      \* the recipes the operator may write
  Arguments,  \* the command lines the operator may give
  Preset,     \* MODE_DEFAULTS: the refinements of a mode
  MaxStarts,  \* bound: starts of the program
  MaxStops    \* bound: interrupts and kills

Unset == -1

(* RunRecipe of either version; what the command line may say.             *)
Recipes ==
  [version : {1, 2}, runname : STRING, start : Nat, end : Nat \cup {Unset},
   throttle : STRING, relax : BOOLEAN, filter : STRING, modules : SUBSET STRING,
   mode : STRING, refinements : Int]

CommandLines ==
  [throttle : STRING, filter : STRING, mode : {"unset"} \cup DOMAIN Preset,
   start : Nat, limit : Nat \cup {Unset}, relax : BOOLEAN, shuffle : BOOLEAN]

(* What the constants must be; assumed where they get their values.        *)
RecipeAssumption ==
  /\ {Length, MaxStarts, MaxStops} \subseteq Nat
  /\ Edits \subseteq Recipes /\ Arguments \subseteq CommandLines
  /\ "standard" \in DOMAIN Preset
  /\ \A mode \in DOMAIN Preset : Preset[mode] \in Nat

VARIABLES
  config,     \* config.json: "absent", "torn" or "whole", and its recipe
  run,        \* "off", or the run: where it is, its recipe and rows to do
  rows,       \* the rows that have a line in results.jsonl
  scripts,    \* which of "restart" and "resume" have been written
  spent,      \* starts and stops so far
  edited,     \* history: the recipe as the operator left it
  plain,      \* history: nothing but --mode has been overridden
  moded,      \* history: --mode has been given
  deferred,   \* history: the rows the last run passed over
  finished    \* history: the last run came to its end

recipeVars == <<config, run, rows, scripts, spent, edited, plain, moded, deferred,
               finished>>

Off == [at |-> "off"]

DefaultInputs == [start |-> 0, end |-> Unset]

DefaultEngine == [throttle |-> "floor", relax |-> FALSE, filter |-> "OK"]

DefaultMode == [mode |-> "standard", refinements |-> Preset["standard"]]

DefaultModules ==
  {"regional_planner", "fag_scraper", "candidate_scorer", "deep_refiner"}

(* RunRecipe, as init-batch writes it.                                     *)
Template ==
  [version |-> 2, runname |-> "here", modules |-> DefaultModules,
   start |-> DefaultInputs.start, end |-> DefaultInputs.end,
   throttle |-> DefaultEngine.throttle, relax |-> DefaultEngine.relax,
   filter |-> DefaultEngine.filter,
   mode |-> DefaultMode.mode, refinements |-> DefaultMode.refinements]

Absent == [kind |-> "absent", recipe |-> Template]
Torn == [kind |-> "torn", recipe |-> Template]
Whole(r) == [kind |-> "whole", recipe |-> r]

RecipeInit ==
  /\ config = Absent /\ run = Off /\ rows = {} /\ scripts = {}
  /\ spent = [starts |-> 0, stops |-> 0]
  /\ edited = Template /\ plain = TRUE /\ moded = FALSE
  /\ deferred = {} /\ finished = FALSE

(* init-batch refuses a directory that exists.                             *)
InitBatch ==
  /\ config.kind = "absent"
  /\ config' = Whole(Template) /\ edited' = Template
  /\ UNCHANGED <<run, rows, scripts, spent, plain, moded, deferred, finished>>

(* The operator edits the recipe before its first run.                     *)
Edit ==
  /\ config.kind # "absent" /\ spent.starts = 0
  /\ edited' \in Edits /\ config' = Whole(edited')
  /\ UNCHANGED <<run, rows, scripts, spent, plain, moded, deferred, finished>>
-----------------------------------------------------------------------------
(* What version 2 knows and version 1 does not takes its default.          *)
Upgraded(r) ==
  [Template EXCEPT !.runname = r.runname, !.start = r.start, !.end = r.end,
                   !.throttle = r.throttle, !.filter = r.filter]

(* SearchModeConfig: what the operator sets goes over the mode's preset.   *)
Refinements(r) == IF r.refinements = Unset THEN Preset[r.mode] ELSE r.refinements

Loaded ==
  IF config.recipe.version = 1 THEN Upgraded(config.recipe)
  ELSE [config.recipe EXCEPT !.refinements = Refinements(config.recipe)]

(* PipelineConfig: an unknown module or mode is refused.                   *)
ValidModules == DefaultModules \cup {"newspapers_scraper", "label_collector"}

ValidPipeline(r) == r.mode \in DOMAIN Preset /\ r.modules \subseteq ValidModules

(* So is the recipe of a run of another name.                              *)
FitsDirectory(r) == r.runname = "here"

Loads ==
  /\ config.kind = "whole" /\ FitsDirectory(config.recipe)
  /\ config.recipe.version = 2 => ValidPipeline(config.recipe)

(* --mode is written into the recipe.                                      *)
WithMode(r, args) ==
  IF args.mode = "unset" THEN r
  ELSE [r EXCEPT !.mode = args.mode, !.refinements = Preset[args.mode]]

(* A value equal to the parser's default counts as not given.              *)
Throttle(r, args) == IF args.throttle = "floor" THEN r.throttle ELSE args.throttle

Filter(r, args) ==
  LET filter == IF args.filter = "unset" THEN r.filter ELSE args.filter
  IN  IF filter = "" THEN "OK" ELSE filter

StartFrom(r, args) == IF args.start = 0 THEN r.start ELSE args.start

Limit(r, args) ==
  IF args.limit = Unset /\ r.end # Unset /\ r.end > r.start
  THEN r.end - r.start ELSE args.limit

(* A mutant: the limit counts the rows still to do.                        *)
BoundedLater(from, limit) ==
  {k \in from .. Length :
     limit = Unset \/ Cardinality((from - 1 .. k - 1) \ rows) <= limit}

(* The places a limit leaves; a limit of zero is none.                     *)
Bounded(from, limit) == {k \in from .. Length : limit \in {Unset, 0} \/ k < from + limit}

Orders(args) ==
  IF args.shuffle THEN Injection(1 .. Length, 0 .. Length - 1)
  ELSE {[k \in 1 .. Length |-> k - 1]}

(* The rows still to do, each with its place in the order.                 *)
ToDo(order, r, args) ==
  {[place |-> k, row |-> order[k]] :
     k \in {j \in Bounded(StartFrom(r, args) + 1, Limit(r, args)) : order[j] \notin rows}}

IsPlain(args) ==
  /\ args.throttle = "floor" /\ args.filter = "unset" /\ args.start = 0
  /\ args.limit = Unset /\ ~args.relax /\ ~args.shuffle

(* Which rows a run takes is settled here; it asks the results file for    *)
(* what is done before anything is written to it.                          *)
Launch(args) ==
  /\ run = Off /\ Loads /\ spent.starts < MaxStarts
  /\ \E order \in Orders(args) :
       run' = [at |-> "scripts", recipe |-> WithMode(Loaded, args),
               mode |-> IF args.mode = "unset" THEN Loaded.mode ELSE args.mode,
               filter |-> Filter(Loaded, args),
               throttle |-> Throttle(Loaded, args),
               relax |-> args.relax \/ Loaded.relax,
               todo |-> ToDo(order, Loaded, args)]
  /\ spent' = [spent EXCEPT !.starts = @ + 1]
  /\ plain' = (plain /\ IsPlain(args)) /\ moded' = (moded \/ args.mode # "unset")
  /\ deferred' = {} /\ finished' = FALSE
  /\ UNCHANGED <<config, rows, scripts, edited>>

NoArguments ==
  [throttle |-> "floor", filter |-> "unset", mode |-> "unset", start |-> 0,
   limit |-> Unset, relax |-> FALSE, shuffle |-> FALSE]

ByHand == \E args \in Arguments : Launch(args)

(* restart.sh passes on what it is given; resume.sh is given nothing.      *)
ByRestart == "restart" \in scripts /\ \E args \in Arguments : Launch(args)

ByResume == "resume" \in scripts /\ Launch(NoArguments)
-----------------------------------------------------------------------------
At(place) == run.at = place

(* restart.sh first, then config.json is truncated to be written.          *)
WriteScripts ==
  /\ At("scripts")
  /\ scripts' = scripts \cup {"restart"}
  /\ config' = Torn /\ run' = [run EXCEPT !.at = "persist"]
  /\ UNCHANGED <<rows, spent, edited, plain, moded, deferred, finished>>

Persist ==
  /\ At("persist")
  /\ config' = Whole(run.recipe) /\ run' = [run EXCEPT !.at = "session"]
  /\ UNCHANGED <<rows, scripts, spent, edited, plain, moded, deferred, finished>>

(* The browser session refuses a throttle below the floor.                 *)
Refused ==
  "fag_scraper" \in run.recipe.modules /\ run.throttle = "below" /\ ~run.relax

StartSession ==
  /\ At("session")
  /\ run' = IF Refused THEN Off
            ELSE [run EXCEPT !.at = "rows"]
  /\ UNCHANGED <<config, rows, scripts, spent, edited, plain, moded, deferred, finished>>

(* The refiner's depth is the mode's preset.                               *)
Depth == Preset[run.mode]

(* The next row is done; or some of its work was put off, and the run goes *)
(* on without it.                                                          *)
DoRow ==
  /\ At("rows")
  /\ \E t \in run.todo :
       /\ \A u \in run.todo : t.place <= u.place
       /\ run' = [run EXCEPT !.todo = @ \ {t}]
       /\ \/ rows' = rows \cup {t.row} /\ UNCHANGED deferred
          \/ deferred' = deferred \cup {t.row} /\ UNCHANGED rows
  /\ UNCHANGED <<config, scripts, spent, edited, plain, moded, finished>>

EndRun ==
  /\ At("rows") /\ run.todo = {}
  /\ run' = Off /\ finished' = TRUE
  /\ UNCHANGED <<config, rows, scripts, spent, edited, plain, moded, deferred>>

Stop == spent.stops < MaxStops /\ spent' = [spent EXCEPT !.stops = @ + 1]

(* Ctrl-C leaves resume.sh.                                                *)
Interrupt ==
  /\ run # Off /\ Stop
  /\ run' = Off /\ scripts' = scripts \cup {"resume"}
  /\ UNCHANGED <<config, rows, edited, plain, moded, deferred, finished>>

Kill ==
  /\ run # Off /\ Stop
  /\ run' = Off
  /\ UNCHANGED <<config, rows, scripts, edited, plain, moded, deferred, finished>>

RecipeNext ==
  \/ InitBatch \/ Edit \/ ByHand \/ ByRestart \/ ByResume
  \/ WriteScripts \/ Persist \/ StartSession \/ DoRow \/ EndRun
  \/ Interrupt \/ Kill

RecipeSpec == RecipeInit /\ [][RecipeNext]_recipeVars
-----------------------------------------------------------------------------
(* The rows a recipe asks for; an end that is not behind the start bounds  *)
(* nothing.                                                                *)
Asked(r) ==
  {n \in 0 .. Length - 1 : n >= r.start /\ (r.end > r.start => n < r.end)}

(* What a recipe says beside its mode; version 1 has fewer keys.           *)
Says(r) ==
  [start |-> r.start, end |-> r.end, throttle |-> r.throttle, filter |-> r.filter,
   relax |-> r.version = 2 /\ r.relax,
   modules |-> IF r.version = 2 THEN r.modules ELSE DefaultModules]

(* Through any number of interrupts, kills and starts by hand, restart.sh  *)
(* or resume.sh, the rows done are rows of the range the operator wrote,   *)
(* and once a run came to its end none of the range lacks its row but      *)
(* those this run passed over (cli_main: start_row, end_row to start_from, *)
(* limit; run_batch_scheduler: the limit before the resume).               *)
RangeIsRun ==
  plain =>
    /\ rows \subseteq Asked(edited)
    /\ finished => Asked(edited) \ rows = deferred

(* Whatever is overridden, the recipe written back says what the operator  *)
(* wrote, except for a mode that was given (config.json as the record of   *)
(* the run, upgrade_v1_to_v2 and to_dict).                                 *)
RecipeStands ==
  config.kind = "whole" =>
    /\ Says(config.recipe) = Says(edited)
    /\ ~moded /\ edited.version = 2 => config.recipe.mode = edited.mode

(* A run is what its recipe asks for.                                      *)
RunIsItsRecipe == RangeIsRun /\ RecipeStands

(* run_unified.py:708-709: each pensioner is "projected, and fsynced to    *)
(* the state file before the next pensioner starts": what a run is not to  *)
(* do any more has its row.                                                *)
EachBeforeTheNext ==
  run # Off /\ plain =>
    Asked(edited) \subseteq rows \cup {t.row : t \in run.todo}

(* CHANGELOG.md:3537-3541: a run has its start_row and end_row from the    *)
(* recipe: no row is done outside.                                         *)
NothingOutsideTheRange ==
  plain => \A n \in rows :
    n >= edited.start /\ (edited.end # Unset => n < edited.end)

(* CHANGELOG.md 3487-3489: a run that was stopped is one script away from  *)
(* being continued.                                                        *)
OneScriptAway ==
  run = Off /\ spent.stops > 0 /\ ~finished =>
    "resume" \in scripts /\ config.kind = "whole"

(* batch_config.py: what the operator sets in the mode object is used.     *)
ModeObjectIsUsed == run # Off => Depth = run.recipe.refinements

(* Help of --fag-state-filter: an empty one disables the filter.           *)
FilterCanBeDisabled ==
  run # Off /\ plain /\ edited.filter = "" => run.filter = ""
=============================================================================
