------------------------------- MODULE PostPass -------------------------------
(***************************************************************************)
(* What a run does once its rows are written (scripts/post_pass): the      *)
(* passes of the registry in their order, which carry matches of other     *)
(* sources by way of the blackboard into the rows, a sidecar and the       *)
(* reviewer's page; and --post-process-only, which repeats two of them.    *)
(* Runs are resumed in the same directory with a new blackboard, passes    *)
(* fail and the program is killed.  The passes that only write a report    *)
(* of their own (labels, state_schema, open_gravestones) are left out, and *)
(* so is --reprocess; how lines are torn is StateFile's.                   *)
(***************************************************************************)
EXTENDS Naturals

CONSTANTS
  Pensioners,
  Veterans,   \* ids of the veterans of the graves registry
  WithCard,   \* pensioners whose row tells the number of their card
  Confirmed,  \* pensioners whose first candidate's page names their spouse
  Indexes,    \* whom the DixieData index of a run may match
  CachesOf,   \* the page caches there may be: the operator's, the shipped one
  PageSources, \* what the page to copy may have places for: "rows", "matches"
  NoFile,
  MaxRuns, MaxFailures, MaxKills \* bounds

(* What the constants must be; assumed where they get their values.        *)
PostPassAssumption ==
  /\ \A ids \in Indexes \cup {WithCard, Confirmed} : ids \subseteq Pensioners
  /\ \A ids \in SUBSET Pensioners : ids # NoFile
  /\ PageSources \subseteq SUBSET {"rows", "matches"}
  /\ {MaxRuns, MaxFailures, MaxKills} \subseteq Nat

VARIABLES
  step,      \* "down", "loop" or the pass that is next
  rows,      \* results.jsonl: of each pensioner with a row what it carries
  corrupt,   \* it has a line that can not be read
  obs,       \* the blackboard: observations, [kind, id]
  browser,   \* "open" or "closed"
  index,     \* of this run
  caches,    \* page caches from outside: [operator, shipped]
  pageFile,  \* pensioncard_pages.json of the directory, NoFile if not there
  sidecar,   \* dd_match.json: the matches in it, NoFile if not there
  view,      \* view.html: the rows and matches it shows, NoFile if not there
  only,      \* --post-process-only
  source,    \* the places of the page given with --view-html-source
  came,      \* history: the last run came through all of its passes
  missed,    \* history: one of them warned that it lost something
  runs, failures, kills

disk == <<rows, corrupt, pageFile, sidecar, view>>
setup == <<index, caches, only, source>>
counts == <<runs, failures, kills>>
postVars == <<step, disk, obs, browser, setup, came, missed, counts>>

Held == DOMAIN rows
Bare == [cgr |-> FALSE, dd |-> FALSE, spouse |-> FALSE, pages |-> FALSE]
(* The id an observation is stored under: one for each kind and pensioner. *)
ObservationId(kind, p) == [kind |-> kind, id |-> p]

Observed(kind, ids) == {ObservationId(kind, p) : p \in ids}
Seen(kind) == {p \in Pensioners : ObservationId(kind, p) \in obs}

(* A mutant: the page is made before the matches are in the rows.          *)
ViewFirst ==
  [loop |-> "dd", dd |-> "spouse", spouse |-> "view", view |-> "enrichment",
   enrichment |-> "sidecar", sidecar |-> "pages", pages |-> "down"]

(* What follows the loop, and what each pass.                              *)
PostPasses ==
  [loop |-> "dd", dd |-> "spouse", spouse |-> "enrichment", enrichment |-> "sidecar",
   sidecar |-> "pages", pages |-> "view", view |-> "down"]

(* Whatever a pass does, the next one follows; the two of                  *)
(* --post-process-only are neighbours.                                     *)
Pass(name) == step = name /\ step' = PostPasses[name]

Fail == failures < MaxFailures /\ failures' = failures + 1 /\ missed' = TRUE
Fine == UNCHANGED <<failures, missed>>
-----------------------------------------------------------------------------
PostInit ==
  /\ step = "down" /\ rows = <<>> /\ corrupt = FALSE
  /\ obs = {} /\ browser = "closed"
  /\ index = {} /\ caches \in CachesOf
  /\ pageFile = NoFile /\ sidecar = NoFile /\ view = NoFile
  /\ only = FALSE /\ source = {} /\ came = FALSE /\ missed = FALSE
  /\ runs = 0 /\ failures = 0 /\ kills = 0

(* The blackboard of an earlier run is removed, unless that fails, and     *)
(* then has the veterans, each by its own id.  A run reads its rows        *)
(* strictly: a corrupt line keeps it from starting.                        *)
BeginRun(ids) ==
  /\ step = "down" /\ ~corrupt /\ runs < MaxRuns
  /\ \/ obs' = Observed("cgr", Veterans) /\ UNCHANGED failures
     \/ obs' = obs \cup Observed("cgr", Veterans)
        /\ failures < MaxFailures /\ failures' = failures + 1
  /\ step' = "loop" /\ browser' = "open" /\ index' = ids
  /\ source' \in PageSources
  /\ only' = FALSE /\ came' = FALSE /\ missed' = FALSE /\ runs' = runs + 1
  /\ UNCHANGED <<disk, caches, kills>>

WriteRow(p) ==
  /\ step = "loop" /\ p \notin Held
  /\ rows' = [q \in Held \cup {p} |->
                IF q # p THEN rows[q]
                ELSE [Bare EXCEPT !.pages = caches.operator # NoFile
                                              /\ p \in caches.operator]]
  /\ UNCHANGED <<step, corrupt, pageFile, sidecar, view, obs, browser, setup,
                 came, missed, counts>>

(* The browser is closed before the passes begin.                          *)
EndLoop ==
  /\ Pass("loop") /\ browser' = "closed"
  /\ UNCHANGED <<disk, obs, setup, came, missed, counts>>

(* dd: an observation for each row the index matches; a failure may come   *)
(* in between.                                                             *)
MatchDixieData ==
  /\ Pass("dd")
  /\ \/ obs' = obs \cup Observed("dd", index \cap Held) /\ Fine
     \/ \E part \in SUBSET (index \cap Held) : obs' = obs \cup Observed("dd", part)
        /\ Fail
  /\ UNCHANGED <<disk, browser, setup, came, runs, kills>>

(* spouse, when the environment asks for it: the memorial pages are read   *)
(* by way of the run's browser.                                            *)
MatchSpouses ==
  /\ Pass("spouse")
  /\ obs' \in {obs, IF browser = "closed" THEN obs
                    ELSE obs \cup Observed("spouse", Confirmed \cap Held)}
  /\ UNCHANGED <<disk, browser, setup, came, missed, counts>>

(* observation_enrichment: a field a row has is not touched.  The rewrite  *)
(* is a .tmp file first.                                                   *)
Stamped ==
  [p \in Held |-> [rows[p] EXCEPT !.cgr = @ \/ p \in Seen("cgr"),
                                  !.dd = @ \/ p \in Seen("dd"),
                                  !.spouse = @ \/ p \in Seen("spouse")]]

EnrichRows ==
  /\ \/ Pass("enrichment") /\ rows' = Stamped /\ Fine
     \/ step = "enrichment" /\ step' = "pages" /\ UNCHANGED rows /\ Fail
  /\ UNCHANGED <<corrupt, pageFile, sidecar, view, obs, browser, setup, came,
                 runs, kills>>

(* Its sidecar is written in place, if there is anything to write.         *)
WriteSidecar ==
  /\ Pass("sidecar")
  /\ \/ sidecar' = (IF Seen("dd") = {} THEN sidecar ELSE Seen("dd")) /\ Fine
     \/ Seen("dd") # {} /\ sidecar' \in {sidecar, {}} /\ Fail
  /\ UNCHANGED <<rows, corrupt, pageFile, view, obs, browser, setup, came,
                 runs, kills>>

(* pensioncard_pages: the operator's cache, or the one of the directory,   *)
(* or the shipped one, or else one derived from the rows, which becomes    *)
(* that of the directory.                                                  *)
PageCache ==
  CASE caches.operator # NoFile -> caches.operator
    [] caches.operator = NoFile /\ pageFile # NoFile -> pageFile
    [] caches.operator = NoFile /\ pageFile = NoFile /\ caches.shipped # NoFile ->
         caches.shipped
    [] OTHER -> WithCard \cap Held

Derives ==
  /\ NoFile = caches.operator /\ NoFile = pageFile /\ NoFile = caches.shipped
  /\ WithCard \cap Held # {}

(* The rows are rewritten if there are pages for one; a line that can not  *)
(* be read becomes an empty record.                                        *)
AddPages ==
  /\ Pass("pages")
  /\ pageFile' = IF Derives THEN PageCache ELSE pageFile
  /\ rows' = [p \in Held |-> [rows[p] EXCEPT !.pages = @ \/ p \in PageCache]]
  /\ corrupt' = (corrupt /\ PageCache \cap Held = {})
  /\ UNCHANGED <<sidecar, view, obs, browser, setup, came, missed, counts>>

(* view_copy: a page that is there is left as it is.  --post-process-only  *)
(* removed it, and does not embed the matches.  What the page to copy has  *)
(* no place for is not embedded; the default one has no place at all.      *)
PageOfRows ==
  [rows |-> IF "rows" \in source THEN rows ELSE NoFile,
   dd |-> IF "matches" \in source /\ ~only THEN sidecar ELSE NoFile,
   run |-> runs]

CopyView ==
  /\ Pass("view")
  /\ view' = IF view # NoFile /\ ~only THEN view ELSE PageOfRows
  /\ came' = ~only
  /\ UNCHANGED <<rows, corrupt, pageFile, sidecar, obs, browser, setup, missed,
                 counts>>

(* The pages may be fetched anew first, when the environment asks for it.  *)
PostProcessOnly ==
  /\ step = "down" /\ Held # {} /\ runs < MaxRuns
  /\ pageFile' \in {pageFile, WithCard \cap Held}
  /\ step' = "pages" /\ only' = TRUE /\ came' = FALSE /\ runs' = runs + 1
  /\ source' \in PageSources
  /\ UNCHANGED <<rows, corrupt, sidecar, view, obs, browser, index, caches,
                 missed, failures, kills>>

(* Killed: a row may be torn; the sidecar or the page, both written in     *)
(* place, may be cut; and the page of before may be removed already.       *)
Killed ==
  /\ step # "down" /\ kills < MaxKills /\ kills' = kills + 1
  /\ step' = "down" /\ browser' = "closed"
  /\ corrupt' \in {corrupt, corrupt \/ step = "loop"}
  /\ sidecar' \in {sidecar} \cup {ids \in {{}} : step = "sidecar" /\ Seen("dd") # {}}
  /\ view' \in {view}
       \cup {v \in {[PageOfRows EXCEPT !.rows = <<>>, !.dd = NoFile]} :
               step = "view" /\ (view = NoFile \/ only)}
       \cup {v \in {NoFile} : step = "view" /\ only}
  /\ UNCHANGED <<rows, pageFile, obs, setup, came, missed, runs, failures>>

PostNext ==
  \/ \E ids \in Indexes : BeginRun(ids)
  \/ \E p \in Pensioners : WriteRow(p)
  \/ EndLoop \/ MatchDixieData \/ MatchSpouses \/ EnrichRows \/ WriteSidecar
  \/ AddPages \/ CopyView \/ PostProcessOnly \/ Killed

PostSpec == PostInit /\ [][PostNext]_postVars
-----------------------------------------------------------------------------
(* A run that came through its passes and warned of nothing has carried    *)
(* every match of its index everywhere: into the row, also of an earlier   *)
(* run, into the sidecar, and into the page if that is of this run and was *)
(* made from one with places for them; it then shows the rows as they are. *)
MatchesReachEverything ==
  came /\ ~missed =>
    LET due == index \cap Held
    IN  /\ \A p \in due : rows[p].dd
        /\ due # {} => sidecar # NoFile /\ due \subseteq sidecar
        /\ view.run = runs =>
             /\ "rows" \in source => view.rows = rows
             /\ "matches" \in source /\ due # {} =>
                  view.dd # NoFile /\ due \subseteq view.dd

(* What the spouse pass is for: the page of a first candidate names the    *)
(* spouse, and the row says so once the passes are through.                *)
SpousesReachTheRows ==
  came => \A p \in Confirmed \cap Held : rows[p].spouse

(* run_unified.py:747-751: the page copied at the end of a run "embeds     *)
(* results.jsonl at copy-time", so that it "works from file:// without a   *)
(* server": it shows the rows there are.                                   *)
PageHasTheRows == came /\ view.run = runs => view.rows = rows

(* A row is matched with the registry because of whose row it is.          *)
NobodyMatchedByNumber == \A p \in Held : ~rows[p].cgr

(* Every row with a card has its pages once the passes are through.        *)
PagesReachTheRows == came => \A p \in WithCard \cap Held : rows[p].pages
===============================================================================
