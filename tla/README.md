# TLA+ model of FindAGraveHelper

This directory holds TLA+ specifications of the program under `src/`, the TLC
configurations that check them on small instances and proofs checked by TLAPS.
They are about what becomes of a pensioner's record on its way from a scanned
card to a reviewed Find a Grave memorial, when invocations fail, processes die,
power is lost, pages do not load, and the operator starts the programs again.

`PROJECT.json` maps every definition to the source lines it stands for and
lists the components, the runs, the mutants that show each property can fail,
the hazards the properties are aimed at, the findings and the theorems.

## The system

The core is a batch run: it takes pension applications, searches Find a Grave
for each pensioner's memorial and writes one JSON line of candidates and verdict
per pensioner to `results.jsonl`. Around it stand the tools that make its
inputs and those that use its output.

| Part | State | Operations | Talks to |
|---|---|---|---|
| Recipe and command line, `batch_config.py`, `pipeline/run_unified.py` (`cli_main`) | `config.json`; `restart.sh`, `resume.sh` | init-batch, merge with the arguments, slice and resume, write back | batch driver |
| Batch driver, `pipeline/run_unified.py` | pensioners still to do; the current one | start (resume), ingest, run the scheduler, visit memorials, append the row, post-passes | everything below |
| Blackboard, `blackboard/store.py` | SQLite tables `work_items`, `query_plans`, `observations` | enqueue, claim (reclaim, SELECT, UPDATE), heartbeat, complete, defer; append observation; plan dedup | scheduler, knowledge sources, driver |
| Scheduler, `blackboard/scheduler.py` | the claimed item and its attempt number; a heartbeat thread | claim from each source in turn, invoke, settle | store, knowledge sources |
| Knowledge sources, `knowledge/*.py` | none of their own | planner, Find a Grave scraper, candidate scorer, deep refiner, calibrated decision: each invocation reads the store and makes a sequence of writes | store, gate, engine |
| Queries, scoring, decision: `search/strategies`, `fag/filters.py`, `fag/scoring.py`, `blackboard/decision_policy.py` | none: functions of record and memorial | what is asked, what a memorial is worth, what the row's status is | engine, scorer, driver |
| Request gate, `fag/request_gate.py` | `_last_acquire` | `acquire`, `wait` | scraper |
| Search engine, `search/engine.py` | candidates of one search | strategy ladder over one page | browser page |
| Browser session, `fag/browser_session.py` | the one page; counters of requests and errors | start, search, reset, recover, close | engine, driver, search tool |
| Search tool, `fag/search.py` | its own state file, checkpoints and failure files | ladder for one pensioner, loop over an input | browser session |
| State file, `state/repository.py` | `results.jsonl` | append with fsync, strict and lax read, rewrite through a `.tmp` file | driver, post-passes, resume |
| Checkpoints, `pipeline/checkpoint.py` | snapshot files | write, roll back | state file |
| Post-passes, `post_pass/*.py`, `cgr/spouse_compare.py` | side files, a page cache; three rewrite a results file | in a fixed order after the loop; `--post-process-only` | state file, blackboard, browser |
| Card ingest, `ingest/download_pensioncard_images.py`, `red_ink_ocr_*.py`, `easyocr_*.py` | image directory, one results file, checkpoint marks | download, read by two engines, watch, commit | each other, by way of the files |
| Death dates, `red_ink_ocr_pilot.find_death_date`, `re_enrich_from_ocr.py`, `enrich_pensioners_*.py`, `recover_missed_dates.py`, `audit/*.py` | the record of each card side; the pensioner's row | parse, parse anew, enrich, accept, audit | card ingest |
| Graves registry, `cgr/*.py`, `pipeline/core.py` | persons and their reverse indexes | scrape, join records into persons, look up, judge | batch driver |
| Collections, `ingest/scrape_digitalprairie.py` and the other fetchers | one output each | fetch item by item, resume | card ingest, viewer |
| Learning, `post_pass/labels.py`, `learning/*.py`, `matching/evaluation.py` | the file of labels; what was fitted | append the newest decisions, train, find thresholds, rank plans, correct weights | post-passes, the reviewer's page |
| Offline viewer, `ingest/build_pensioncard_viewer.py`, `distribute_pension_viewer.py` | a tree of pages and images; archives; the overlay of a page | build, pack, resume, show | card ingest |

What is hard about it: claims by statements another process can fall between; leases
that lapse and are reclaimed; attempts counted over failures and deaths alike; an
invocation that raises in the middle of its writes and is run again; deferred work of
one pensioner run while another is processed; a row that must not be written before the
searches ended, nor twice, whatever is killed; files appended to and rewritten, with and
without sync, by programs that run beside each other and resume from what they find; a
clock shared by nested uses of the gate; one page that can die under everybody; scores
that several later steps add to and discount; a union-find whose answer must not depend
on the order of a file; labels appended by a pass that may be killed and read by another
program; image loads that end in another order than they began.

What makes the parts correct:

* queue: nothing is lost, nothing is settled twice, nothing is retried without
  end, every attempt is accounted for;
* driver: one row for each pensioner, after all its searches, through any
  number of restarts, over the rows its recipe names;
* state file and the other files: a fault costs at most the row it hits;
  resuming completes the file or refuses it;
* fetching: requests are spaced, a page that fails costs nothing but itself,
  the run ends;
* review: the memorial of the man on record is put before somebody, an
  impossible one is accepted by nobody;
* records: a date a card tells is found and stays, records that belong together
  are one person, verdicts on one pensioner differ only by what the lookup returned;
* learning: the newest decisions reach the trainer, and what is fitted from them
  goes the way they go;
* what is fetched, built or matched arrives: in the output, in the archive, on
  the page, in the row.

## Modules

| Module | Models | Extends / instantiates |
|---|---|---|
| `WorkStore` | the `work_items` table and the statements on it | |
| `Scheduler` | the event loop over `WorkStore`, several processes, crashes, clock | extends `WorkStore` |
| `WorkLifecycle` | what the queue promises of an item (abstract) | instantiated by `Scheduler` |
| `SchedulerProofs` | theorems about the above | extends `Scheduler` |
| `Pipeline` | the driver with its five knowledge sources on one blackboard | |
| `Recipe` | the configuration of a run, and the scripts it leaves | |
| `StateFile` | `results.jsonl` on disk: append, resume, rewrite, checkpoint, faults | |
| `Fetch` | gate, ladder, memorial visits and the one page, in ticks of time | |
| `FetchProofs` | theorems about `Fetch` | extends `Fetch` |
| `Scoring` | the score of a memorial, possible dates, the decision | |
| `Queries` | the ladder of strategies, filters, the planner's places | extends `Scoring` |
| `Review` | from the searches of one pensioner to its row | extends `Queries` |
| `FagSearch` | the search tool and the session's own search | |
| `SpousePass` | the pass that looks for spouses on memorial pages, with its cache | |
| `PostPass` | the passes behind a run | |
| `CardIngest` | downloader, Tesseract, its watchdog, EasyOCR, checkpoint watcher | |
| `DeathDate` | the parser, the programs that call it, enrichment, audits | |
| `Registry` | persons of the graves registry, lookup, judgements | |
| `Harvest` | six tools that fetch item by item and resume | |
| `Viewer` | the viewer's builder and packer | |
| `Lightbox` | the overlay script of a page | |
| `Learning` | the labels pass and its trainer; calibration, thresholds, ranker, weights | |
| `Browse` | `FagSearch`, `SpousePass`, `PostPass` and `Recipe` beside each other, and their properties | extends the first, instantiates the others |
| `Collections` | `Harvest`, `Viewer`, `Lightbox` beside each other, and their properties | extends the first, instantiates the others |
| `Records` | `DeathDate` and `Registry` beside each other, and their properties | instantiates both |
| `Reviewing` | `Review` and `Learning` beside each other, and their properties | extends the first, instantiates the second |
| `StateFileProofs`, `PipelineProofs`, `BrowseProofs`, `CollectionProofs` | theorems about the module they are named after | extend it |
| `ReviewProofs` | theorems about `Reviewing` | extends it |
| `IngestProofs` | theorems about `CardIngest` and `Records` | extends both |
| `MCScheduler`, `MCPipeline`, `MCStateFile`, `MCFetch`, `MCCardIngest` | constants for TLC | extend the module they are named after |
| `MCReview` | one of `Review`, `Learning` | extends `Reviewing` |
| `MCRecords` | one of `DeathDate`, `Registry` | extends `Records` |
| `MCHarvest` | one of the programs of `Collections` | extends it |
| `MCBrowse` | one of the programs of `Browse` | extends it |

The modules cut the run along what it shares: `Scheduler` looks at one claim
statement by statement and takes an invocation's content as given; `Pipeline`
takes a claim and its invocation as one step (one process runs, and the driver
deletes the old blackboard when it starts, so the statements inside a claim are
not told apart there) and looks at what invocations write; `StateFile` sees the
driver as a series of appends and rewrites; `Fetch` sees it as a series of page
loads; `Review` sees one pensioner, as a series of scores; `Recipe` sees it as
a set of rows; `PostPass` begins where its loop ends.

The last four MC modules put programs that share nothing beside each other: in
the initial state `program` says which of them runs, the others keep one fixed
state, and each property is about its own program. The constants of an instantiated
module are checked by an assumption of `Browse`, `Collections`, `Records` or
`Reviewing`, which also name the properties of the modules they instantiate, for
the runs and the theorems alike.

### Correspondence: the batch run

**WorkStore.** `row[w]` is the row of work item `w`: `state`, `attempt`,
`leased_by` (`owner`), `completed_at IS NOT NULL` (`closed`). The timestamps
are kept as the outcome of the only comparison made with them
(`lapsed`, `due`), and time is two actions that change those. `ReclaimStale`,
`Claimable`/`IsFirstOf` and `LeaseRow` are the three statements of
`claim_work`; `LeaseRow` does nothing when the row is no longer ready, as an
UPDATE does.

**Scheduler.** `pc[p]` says between which two statements process `p` is; `job[p]` and
`att[p]` are `item.work_id` and `item.attempt` in its memory. `Crash` forgets them and
keeps the rows. `Submit` is the driver's enqueue. `raised`, `lost` and `claims` (how
often an item was claimed) are history. The heartbeat thread ticks while the invocation
runs; the scheduler joins it (for two seconds) before it settles the item, and a tick
that outlives the join is left out. The library is built for a database that outlives
its process and is shared by several (`BEGIN IMMEDIATE`, `leased_by`, lease deadlines),
and is modelled so; the batch driver itself opens a fresh database with one process,
which is the case `Pipeline` continues.

**Pipeline.** An invocation is the set of its writes, each with its place in the
order of the code (`PlannerWrites` and so on); `Apply` is their effect on the
tables, with `INSERT OR IGNORE` for items and observations already there. One
that raises leaves those before some place (`BrokenOff`). `remaining` are the
places in the batch this run has not finished with. `StartRun` is a start of the program: the
blackboard is emptied, completed pensioners are read from the rows. Scores are
levels: below the low threshold, fair, strong (early stop), above
`skip_refine_above`. `Plan` is a plan's identity; its scope is the stored one,
its dedup key the state the code asks for, which differ where the code's do.

**StateFile.** A file is a sequence of lines and whether the last one is
terminated. `Extend` is what `write` does at the end of a file, `Torn` what may
be there of a row when the write is cut short, `Cut` what may be there of a
whole file that was not synced. `survivors` is the set of files a power cut
may leave, given the syncs so far. `todo` are places in the input.

**Fetch.** `since` is the age of `_last_acquire`, in ticks up to `Interval`;
`acquire` waits on it and resets it on release, `wait` resets it at once.
`searched` and `quiet` are history: the time since the last search and since
any page. `page` is "closed" once its target died. Candidates are those the
projector may write: caption noise and candidates without memorial id are dropped
before. `Kept` is its cut of a row at `Cap` candidates (20 in the code), of which the
best stay; which ones those are `Review` knows, here any may be left out. `VisitBest`
is the second visit of the best memorial, for a soldier's marks.

**Scoring, Queries, Review.** A memorial is given by how it compares with the record:
the level of its last, first and middle name, state, years, links. Scores are exact
integers (hundred-thousandths); the code's floating point rounds at the boundaries.
`Review` searches the planner's scopes one by one, each strategy answering or not, keeps
the best score of each memorial, opens pages for the spouse or the marks of a soldier,
discounts common names, ranks and classifies. The discount takes the logarithm of the
number of namesakes, which the constant `Log2` tabulates in hundred-thousandths. What
Find a Grave answers to a query is `Matches`, which is what the filters are named for;
it is the one part of these modules that is not the program's.

**PostPass.** `step` is the pass that is next in the registry's order, which
`PostPasses` gives as what follows each. A row
carries what the passes add to it; the blackboard, `dd_match.json`,
`pensioncard_pages.json` and `view.html` are what a pass leaves for the next
one. `came` and `missed` tell whether the last run came through and warned of
nothing. `source` is the page a run copies, by the placeholders it has: rows and
sidecar get into `view.html` only where it has one for them, and the default page,
`scripts/view/v2.html`, has none.

**Recipe.** `config` is the file with its recipe, or torn. A recipe is a record
of its fields; a command line says which it overrides, and `run` has the merged
recipe and the rows it has still to do, each with its place in the order. `DoRow` writes
a row or passes the pensioner over because of deferred work, which `deferred` remembers;
`edited` remembers what the operator wrote.

### Correspondence: tools before and after it

**FagSearch.** The ladder is one strategy per step (`k`), whoever drives it: the
tool's loop (`driver = "batch"`) or a session. `unread` and `unseen` are history: the
strategies of this search whose answer was not read, and those whose page was read
while its query for links failed, which the parser swallows and returns as nobody
found. `Best` is the cut of a record to the best candidates (`MaxCandidates`, 20 in the
code). The state file's tail is whole, unterminated or torn, as in `StateFile`.

**SpousePass.** `matched` is the file, by the rank of the candidate whose page
named the husband; `cached` and `young` are the cache on disk and whether it is
within its time to live, `store` what is in memory.

**CardIngest.** `file` is the results file: absent, torn from the moment `write_text`
truncates it until the write is done, or whole. `mem` is what the writer of the moment
has in memory. `writer` is the program that has it open: the pilot, or EasyOCR with
several workers ("pool") or with one ("serial", the default, which ends without a last
save). `best`, `cut`, `sliced`, `ever` and `read` are history: the last whole file,
whether a save was cut short since, whether the pass works on a slice, the images that
ever had a Tesseract date, and what the pass has read. The downloader writes `img` tile
by tile; the watchdog sees the number of records and whether the process lives; the
checkpoint watcher counts, commits, then marks.

**DeathDate.** A text is a sequence of lines of words, a word a keyword, a date, a name,
a phrase of the form or anything else; a window of characters is a window of words;
`Marks` are the things a word may be. `FindDeathDate` has the passes of the parser in
their order; `rec` is a side's texts with the date and its source; `stale` that a record
was changed after the last enrichment.

**Registry.** `todo` are the places of the pairs still to compare, taken in the
order of the file; `parent` and `height` the union-find with path compression;
`persons` and the two reverse indexes what is written, a row being the record
with the fields the code adds to it. The lookup turns a Python set into a list and cuts
it, so which records are judged and in which order is a choice (`Lookups`), and the
summary of a verdict names the first of the strongest.

**Harvest.** One set of actions with the differences of the six tools as
operators over `tool`: what a pass goes through, what it finds done, what it does with
a failure, whether it appends or rewrites. `ListAll` and `FindMaxId` are the loops of the
listing and of the probe, as functions of the number of rounds. A file rewritten whole
has the records of the memory in an order that is left open. `made` (what a write that
came to its end has put down) and `broken` (writes cut short, and whether one was a
rewrite in place) are history.

**Viewer, Lightbox.** The tree maps letters to a page and the copies beside it; an
archive is a sequence of entries, each with the build it is of and whether it is `cut`
short, as the one is whose file could not be read to its end: the `with` closes it into
the archive all the same. A `.partial` archive is torn or closed; `packed` is what the
runs so far have finished, `resumed` says of an archive that it was begun over one.
Files are added, and split into parts, in the order of the listing, which is left open;
files have one size. The overlay's frames and image loads are callbacks that end in any
order; `late` is history, the images under way when the last mount came.

**Learning.** `lines` and `tail` are the file of labels, which a pass
(`todo`, the places of the labels it has still to write, and `pass`) appends to line
by line and a kill leaves cut anywhere; `own` are labels a person put beside it,
the only ones that can have scores. Labels are told apart by their places in the
files, a sum is the size of a set, and what is sorted follows an order without ties
(`InOrder`), as Python's stable sort does. Scores and
probabilities are whole multiples of small fractions; the classifier is the sign
of its slope, the regression over picks the signs of its coefficients. `fit` is
what was computed last. `train.py` itself computes the calibration points and
raises when it saves them (see below); `Train` also has what the functions it
would call next, and the harness, compute from the same labels.

## Runs

| Run | Instance | Shows |
|---|---|---|
| `scheduler_single` | 1 process, 3 items (one enqueued by another, one declined), 2 sources, budget 2, 2 faults anywhere | the ledger of attempts and the budget of retries, the refinement of `WorkLifecycle`, `run()` returns, every item ends |
| `scheduler_two` | 2 processes, 2 items, budget 2, 1 fault anywhere, between the two transactions of a failure included | in any interleaving of the statements: no row gets out of reach of `claim_work` but the one item a death may strand as RETRYABLE, and no item is given up before it was claimed as often as the budget says |
| `scheduler_holders` | 2 processes, 2 items, no fault | finding: two processes that SELECTed one row both hold it |
| `pipeline_resume` | a married pensioner of an Arkansas regiment and a widow without last name, 2 raising invocations, 1 crash | one row each, not overtaken (`RowsAreFinal`), after the searches; every pensioner gets one |
| `state_file` | 2 pensioners, 2 faults (kills or power cuts), 1 skip, 1 `--reprocess`, 1 rollback, checkpoints at any time | one row each; what a fault costs in rows and in lines (`FaultsCostOneEach`); that the file is completed or refused |
| `state_file_acked` | 3 pensioners, kills only | finding: an acknowledged row is lost to a glued line |
| `fetch` | 2 pensioners, 3 candidates of which a row holds 2, 2 strategies, 2 searches each, interval 2 | searches are spaced; a row has all that was found, or as many as it holds; the run ends |
| `review` | 5 records, 3 memorials of 11 kinds, outages of one strategy or all; 2 pensioners decided in 2 sidecars over 2 passes and a kill, or up to 4 labels with 4 scores, up to 4 plans, up to 2 picks | the man on record is seen, nobody impossible is accepted, a better name never scores lower and a verified spouse stays ahead; the newest decisions reach the trainer; points, slope, thresholds, order of plans and weights go the way of the labels |
| `card_ingest` | 2 images, EasyOCR with one worker or several over all of it or over a slice of none or one, 1 kill, also inside a save, 1 failure, 2 restarts | passes keep each other's work or what they did is done again; the pilot brings lost dates back; a mark means a commit; the watchdog returns |
| `records` | cards of one side with up to three lines or of two with fewer, years in two digits and in four; 3 registry records in files of two orders | told dates are found, stay and are not doubted; persons are the classes of what was joined; verdicts of one pensioner differ only by what the lookup returned |
| `harvest` | 4 items, lists of up to 5 in pages of 2, 2 kills, also inside a rewrite, 1 failure; 4 images in 3 letters, 2 builds, 1 kill, a file that can not be read to its end; 2 records in the overlay, 3 loads | what a kill may cost is bounded, passes are complete, tools catch up; archives have each file once, and whole if they were not resumed; no image loaded before the choice was mounted is shown |
| `browse` | 3 pensioners, 3 strategies, a record of 1 candidate; 4 widows; 2 pensioners over 3 runs and pages of three kinds; 4 rows, 3 starts and 3 stops | rows tell how the search went; cached matches stand; matches reach row, sidecar and, if it has a place for them, page; a run is what its recipe asks for |

Bounds. `MaxFaults`, `MaxSidecars`, `MaxPasses`, `MaxRaises`, `MaxCrashes`, `MaxSkips`,
`MaxReprocess`, `MaxRollbacks`, `MaxKills`, `MaxDeaths`, `MaxFailures`, `MaxRuns`,
`MaxBuilds`, `MaxAges`, `MaxStarts`, `MaxStops`, `MaxRequests`, `MaxLoads` limit how
often the environment acts, never what the program may do. Two faults are enough for a
fault on top of what the first one left (a row glued to a torn line; a crash after a
reclaim), and where one is set a new start still comes after it. Three items over two
sources give a parent and child and a declined item, hence every branch of
`_dispatch_one`. `AttemptCap` (a row claimed this often no longer lapses) is needed
because leases could lapse for ever; with 9 in `scheduler_single` it is not reached. A
budget of 2 has both outcomes of a failure. Two pensioners give deferred work of one
during the other. `Interval = 2` has a time that is neither fresh nor ripe. Three
memorials give a best, a second and one that a discount can lift between them; the kinds
differ from a plain one in one thing the score reads. Three registry records give a pair
joined by way of a third; `Limit = 2` cuts a lookup, `Cap = 2` and `MaxCandidates = 1` a
row with one candidate more than it holds. A list of 5 in pages of 2 has a full and a
short last page; 4 items with a probe step of 3 and slack of 2 have an end before, on
and behind a probe. `ResetEvery = 2` and `MaxErrors = 2` are reached by three requests.
Four labels in three bins give bins of one and of two labels, as few labels in the
code's ten also leave some empty; four halvings of the search for a threshold tell its
branches apart, and one more only halves the step. Two sidecars give one that is
overtaken and one that is broken. What does not read labels is asked before there are
any, and nothing is followed beyond a fit.

`review` and `records` enumerate inputs: most of their states are initial
ones, and each is followed to its end.

Deadlock is checked in the scheduler and pipeline runs. The other programs
stop: a finished `Fetch`, `Review`, `Registry` or packer has no next step, a
`StateFile` beyond repair has none when the bounds are spent, and the tools are
not started again after their last start.

Fairness. `Scheduler`: `RunStep` of a process inside `run()` is weakly fair (the
loop waits on nothing but SQLite); for `EveryItemEnds` also the clock and the
operator who starts the program again. Failures and crashes are never fair.
`Pipeline`: the driver's steps and a new start after an end or a crash.
`StateFile`: the running program, the `--post-process-only` repair the operator
can use, and strong fairness of a new start, which is possible again and again
but not all the time while repairs come in between.
`Fetch`: time and the driver; every `page.goto` has a timeout.
`CardIngest`: only the watchdog's loop, which sleeps and polls; nothing is
assumed of the programs it watches, which may hang.
`Harvest`: a tool that runs goes on (its requests have timeouts), and the
operator starts it again without a limit. `FagSearch`: the same, with strong
fairness of a start over the whole input, which runs over parts of it
interrupt. All else is safety only.

Assumptions about the outside. A sync of a file also makes durable the renames
and the creation before it (true of journalling file systems). A rename is
atomic. The driver's warm-up pause is longer than `min_interval`. One batch run
at a time works on a state file, and one writer at a time on the OCR results
file (nothing in the code enforces either); readers, watchers and checkpoints
run beside them. The builder and the packer of the viewer take turns. Find a
Grave answers a filter with what the filter is named for.

## Proofs

`SchedulerProofs` proves, for every set of items, sources, processes, children
and every bound:

* any number of processes: `TypeCorrect` (with `JobHeld`: whoever is past SELECT has an
  item in hand) and `RowsStayInReach`. The second is inductive by itself; every
  statement of the store keeps it, and `StepsAreStatements` says that every step of the
  system is one of these statements or leaves the table alone. `DeathsStrandOneEach`: a
  step leaves an item RETRYABLE with nobody to defer it only by a death or failed
  transaction, and then one (`StrandedStep`, from what `DeferringStep` says of who is
  between the two transactions), so they are counted against the faults.
  `ClaimsAreCounted`, from `ClaimInv` (neither a row nor what a process has SELECTed
  says more attempts than there were claims): with stale SELECTs and lapsed leases the
  attempt column may fall, but nothing is given up early.
* one process (`SoleProcess`, the way the program is run): `AttemptsAddUp`,
  `BudgetKept`, `EndIsFinal`, `SchedulerIsAQueue`.

The invariant behind the second group is `SoloInv`. None of the properties is inductive
alone: that the commit of a claim finds its row as it was SELECTed (`InHand`) needs that
nobody else changes it in between, which one process gives; that a failure is judged by
the right number needs that the holder has the lease; the budget needs the ledger
(`attempt = raised + lost + answered + held`), from which the number of failures is read
off the attempt column. `SoloStep` has one step per action; `EndIsFinal` and
`SchedulerIsAQueue` are corollaries of `SoloRowStep`, what a step may do to a row under
the invariant. With two processes `OneHolder` (the run `scheduler_holders`),
`AttemptLedger` and `FinishedIsFinal` are false, because `claim_work` does not look at
the number of rows its UPDATE changed.

`FetchProofs` proves for every set of pensioners and candidates, every ladder,
interval, `max_verify` and cap:

* `FetchTypes`, with `PageWanted` (a page is under way only while a strategy is
  left, a visit only while one may still be verified);
* `SearchesKeepTheInterval`, from `GateIsBehind` (`searched >= since`): every
  search restarts the gate's clock and every release does too, so the gate
  never opens earlier than an interval after the last search;
* `RowsHoldWhatWasFound`, from `SeenIsKept`: what the pages have shown is the
  board, together with what the search under way has parsed. The row is the board, or as
  many of it as the cap allows if it has more (`KeptHold`).

`StateFileProofs` proves for every input without repeated ids, any pages and any
number of kills, power cuts, skips, rollbacks and `--reprocess` runs:

* `StateFileTypes`, with `Wanted` (a row being flushed is the row of one who
  waits);
* `RowsAreUnique`. `OneRowEach` is not inductive: the row of one who waits must
  not be in the file, in any file a power cut may leave, or in a snapshot that
  may be rolled back to, and each of these must have one row each itself
  (`OneRowInv`). What a fault makes of a file is never longer than it was and adds no
  ids (`CutFile`, `UniqueKept`);
* `FaultsCost`, from `DamageInv` and `LossInv`, which count: the marks of damage
  (unreadable lines and an unterminated end) of the file, of what may survive
  and of the snapshots; and the rows acknowledged that a file misses or will lose to
  the next append. An open end counts as a loss, because the next row is glued to
  it. The lemmas before them say what an append, a cut and a rewrite do to these
  two numbers.

`PipelineProofs` proves for every batch without repeated pensioners, any
search results and any number of raising invocations and deaths:

* `PipelineTypes`, with the form of a `work_id` (`IsWork`);
* `RowsFinal`, from `RowsInv` (who is still to do has no row) and `FreshInv`
  (who got a row in this run has no work left that could be claimed). The
  second rests on `Fits`: an invocation writes only for its own pensioner, so
  another's deferred work can not reopen what is closed;
* `RowsMeanSearched`, from `SearchInv`: a plan stored by the planner is one it
  would make again, and once planning went through its work was queued or it
  had been searched; a plan the refiner announced was queued before. `Fits` has
  the order of the writes this needs, and `Apply` of a prefix keeps it. The property says
  nothing of a pensioner whose planning was given up, nor of a plan the refiner
  stored and did not get to announce: those two do get rows without a search.

`IngestProofs` proves for every set of images, slices and thresholds, any kills and failures:

* `CardIngestTypes`;
* `MarkMeansCommit`, from `WatchInv`: what is about to be fired was due by a
  count read before, and between commit and mark the commit is there;
* `WritersKeepWork`, for EasyOCR with one worker and with several, and slices of any size.
  Two writes may lose something, and the property names them: the first after a save
  was cut short, and those of a pass over a slice of as many records as the guard takes
  for the whole (256). With several workers what a pass read is in the file when it
  ends; with one, or after a kill, it is there or will be read again. The invariant
  (`WorkInv`) says that between saves the file is the last whole one (`FileInv`),
  that the memory of a writer has all of that, and nothing of what is still to be
  read (`MemoryInv`), and what an EasyOCR pass has read (`ReadInv`);
* `PilotBringsDatesBack`: what those two writes cost the pilot makes good. Of the images
  that ever had a Tesseract date (`ever`) each has one on file, or is one the pilot will
  come to, or has cost a failed reading (`DatesInv`, on top of `WorkInv`);

and for any cards and texts, any records of the registry, any similar pairs:

* `DatesStand`, a step property, from `SidesInv`: where a date is Tesseract's, its own
  text has it and the texts before and behind that one have none. So it is no target
  of EasyOCR or of a person, and parsing the saved texts anew finds the same;
* `ToldHolds`: what a text tells is found, stands in the row and is not doubted.
  `ToldIsParsed` follows one text through the parser: the line that tells is protected,
  so its words stay neighbours in what is left (`FlattenPlaces` says where the words of
  a text are in the flat one), no filter takes a date with the only keyword right before
  it (`BehindIsGood`), and no other date comes before it in the order (`BehindIsFirst`,
  where `Undisputed` is needed). `ParsedIs` says of any text that a date found is of a
  year the parser takes and not a grant's: the order of candidates is one of four
  numbers, and any of those has a least one (`LeastOfFour`), so the parser, parsing anew
  and the choice of the row do take one of what they choose from. The invariant is
  `CardTyped` (texts are texts; a Tesseract date whose text has "died" is near a
  keyword; a red one has a text), `BestInv` (the row is the best of the sides) and, on a
  card that is not a widow's, `SidesInv`. The audits read the texts of both sides as
  one; `TextsOfCard` and `NeighboursStay` find the line there again. Nothing is assumed
  of the cards but that they are lines of words, and of a text only what `Tells` says:
  one keyword, the year behind it, no rival right before it, and the soldier's name near
  this date if it is near any. One date is exempt from one doubt: a year told in two
  digits, for which the audit searches in four (`audit_suspicious.py:219-246`), may be
  flagged as a wrong digit if another year is one digit off;
* `VerdictsDifferByLookup`, from `RowInv` (what was judged is what some lookup found). A
  verdict is its status, count and summary, the first of the strongest (`BestFacts`). So
  whatever another lookup would find: a stronger best was not among those judged,
  equally strong bests have one status, and if both lookups have the same records, or
  the limit cuts nothing, status and count are the same and another summary names
  another record as strong (`NoneStronger`). That the cut itself may lose the one match
  is a disagreement listed below (`WhoIsThereIsSeen`);
* `PersonsAreComponents`: two records are of one person exactly if a chain of
  similar pairs connects them. Links go up in `height`, so following parents for as
  many steps as there are records ends in a root (`PathEnds`, a pigeonhole); the
  root of a record is determined by two laws (`RootUnique`, `RootLaws`), which a
  compression of the path keeps (`Compressed`) and a union changes for one class only
  (`UnionJoins`). `ClassInv`: both ends of a compared pair have one root, and no set of
  records closed under the compared pairs divides a class; the closure that defines
  the classes is such a set once it stops growing (`ConnectedIs`). `PersonInv` carries
  this to what is written. What a recursive function computes after n rounds is
  proved by a minimal counterexample.

`ReviewProofs` proves for every set of records and of memorials of any kind and
number, any outages:

* `ReviewTypes`: no score leaves 0 to 1, with weights, convergence bonus,
  boosts and discounts together;
* `ImpossibleNeverAccepted`: with impossible dates a score stays under 0.50 through
  all of them (`ImpossibleInv`), so that no page is opened that could raise it;
* `HisMemorialIsSeen`: the search of the whole country passes the man on record
  (`SeenInv`); name and dates make at least 0.445, of which the discount
  leaves 0.40 among thirteen namesakes at most: what is assumed of `Log2` is that a
  number up to thirteen has a logarithm of at most 3.70044. Among fourteen the discount
  (`run_unified.py:1147`) takes him below the low threshold, and the property says so:
  he is in the row then, but the row need not be put before anybody;
* `ScoreOrders`: the order of two memorials that differ in the name only
  is that of their names through all searches (`OrderInv`), and what is done
  to the others puts none above both the score a verified one had and
  `SpouseScore` (`VerifiedInv`, `LeadInv`).

It proves of `Learning`, for any pensioners, labels of a person's own, lists of plans
and picks, under its own specification:

* `DecisionsArrive`, from `LabelType` and `CopyInv`: of a pass under way each
  decision is in a line the trainer can read or still to write, and of one that is
  through all have arrived. The one exception is the first label behind a line
  that a kill left without newline: it makes one unreadable line with it. `Min` of what
  is to write is what makes the exception the first;
* `FitFollowsTheLabels`, from `FitInv` (what was computed, and of what) and
  `LengthInv` (a pass writes at most one label for each pensioner, so that the file is no
  longer than the unit of probabilities allows for): the points of the calibration
  count each label once and climb with the score (`PointsCount`, `PointsGrow`), and
  so does the probability between them (`MatchGrows`); the classifier's line climbs if
  every accepted label has a higher score than every other one (`SlopeRises`); no
  threshold is better than the one chosen (`NoneIsBetter`, `BestThresholdIs`: better
  is transitive, and a threshold that is no candidate counts as a candidate does); the
  search for a level ends in one that meets the target or in 1 (`CalibratedIs`); a
  ranking is in order, without repetition, in budget, and leaves out no plan for a
  later one (`RankedIs`); a weight changes only the way the picks go (`WeightsKept`).
  `OrderIs` says that `InOrder` lists each member of a finite set once and in order,
  and `Numbers` carries a fact through the steps of the search by a minimal counterexample.

`BrowseProofs` proves of each program of `Browse`, under its own specification:

* `FagSearchTypes` for any pensioners, ladder and answers. Strategies are
  distinct;
* `RowsTellTheSearch`, from `SearchInv`: an answer that was not read leaves a
  mark (wall or error) and no run, one that was read leaves a run, and one whose links
  could not be asked for a run that names nobody; the strategies
  before the current one are distinct from it. `RecordInv`: a record is made of
  the runs of its search, cut to the best, or is a skip. So "nobody found" means
  that each strategy was answered or taken for answered (`unseen`), and a
  memorial that is not in the row gave way to others no worse (`CutFacts`);
* `MatchesStand`, a step property, from `PassInv`: a row whose match was cached
  when the pass began is written with a match of at most its old rank, because the
  candidates before it are looked at first and that one can not fail. The store
  in memory only grows (`loaded \subseteq store`), and a match is always a match by
  what the page names (`MatchInv`);
* `MatchesReach`: `CarriedInv` says for each pass that is through where the matches due
  must be by now (seen on the blackboard, in the rows, in the sidecar), as long as
  nothing was warned of; `PageInv` that the page there is while a run goes on is an
  older run's, so that one of this run was made by the last pass from those rows. It has
  them if the page that was copied has places for them, which the default page has not:
  a default run carries its matches to row and sidecar;
* `RunFollowsRecipe`, from `RangeInv` (what is done, what was passed over for deferred work and
  what is still to do make up the range, while nothing but the mode was overridden, so
  that at the end exactly those passed over lack their row) and `RecipeInv` (the
  recipe on disk and that of the run both stand for the operator's). Any recipe is
  allowed: a range that is empty or reversed bounds nothing, as in the code
  (`run_unified.py:1564`; listed below).

`CollectionProofs` proves of each program of `Collections`, under its own specification:

* `LossesStayBounded`, from `FetchInv` and `LossInv`. A tool that rewrites has in memory
  all its file has (`MemoryInv`), one that appends or writes an image has nothing of it
  yet (`WriteInv`), and only a tool that appends leaves a line without newline
  (`DiskShape`). A write broken off costs an appended file two lines at most: its own if
  it was done but for the newline, and the next one, glued to it, which `LossInv` counts
  before it happens (`Risk` of the tail). Files that are replaced and images lose
  nothing; the one that is truncated and rewritten in place loses nothing but to a kill
  within its rewrite;
* `PassesAreComplete`, from `PassInv`: in a clean pass each item of the range is to do
  or has come to something, in memory, on disk or as one the site does not have
  (`CoverInv`), of each there is one record (`OnceInv`), and a cemetery's has
  its whole list (`ListInv`). Three lemmas say what the loops compute: `ListIsWhole` (a list
  no longer than the pages asked for is fetched whole, whether or not the site says how
  long it is), `ProbeReaches` (the probe of ids comes as far as the ids have no gap, less
  the slack) and `RangeFacts`. A loop is a function of its rounds; `Iterates` says
  that there is such a function and `AllNumbers` is the induction over the rounds, both by
  a minimal counterexample;
* `ArchivesStayWhole`, from `ViewerInv`: no file is in an archive twice or both there
  and still to add (`OnceIn`); while an archive is filled, what is wanted of it is in it
  or to add, and one begun anew has only whole files of the present build (`FillInv`);
  what a run has finished has its files (`PackedInv`); and what was asked for is in a
  part that is finished or in the plan (`PlannedInv`). `PartsFacts` says that the split
  loses no file. Of an archive that was resumed only the names are promised: it may have
  a page of an older build, or an entry cut short (`PagesMatch` and `NoneIsCut` below);
* `OverlayTypes` (an image loaded or shown exists) and `OldImagesStayAway`, from
  `MountedInv`: a mount removes the map, so what is shown once no mount waits
  has loaded since, and is the choice or was under way when it was mounted (`late`).

The proofs rest on the assumptions of the modules about their constants and on the
hypotheses named above. Those assumptions say that numbers are numbers, that sets are
what their names say, and things of substance. Most of these the code relies on as well:
an input names nobody twice (`completed_ids` is read once, before the loop), nor does a
sidecar's list of pensioners (it is a JSON object), a ladder has no strategy twice, the
scorer's weights lie between 0.1 and 2.0 (where the learner keeps them,
`weight_learner.py:248`), numbers up to thirteen have logarithms of at most 3.70044
(`Log2`), no list of a cemetery is longer than the pages asked for
(`cgr_client.py:157`), and archives have different names, with one for each part (the
code numbers them). One is the model's own: the unit of probabilities can be divided by
the size of any part of the labels, so that averages are exact; the code rounds them.
Every one is evaluated on the instances of the runs.

Model-checked only: liveness (`RunReturns`, `EveryItemEnds`, `EveryPensionerGetsARow`,
`CompleteOrBeyondRepair`, `RunEnds`, `WatchdogReturns`, `EveryItemIsSettled`),
which needs fairness and ENABLED and is out of the prover's reach. Every other
property of a passing run is stated by a theorem.

## Where code and documents disagree

Two runs end in a violation, each of a sentence of a document or comment;
`PROJECT.json` quotes them under `findings`:

* `state_file_acked`: `append` writes behind whatever the file ends with, and a
  row whose append had returned is lost to the unterminated line before it;
* `scheduler_holders`: `claim_work` SELECTs before its transaction and does not look at
  what its UPDATE matched, so two processes may hold one item (`store.py:485`;
  CONTEXT.md:273-275). The driver runs one.

The following were met while modelling. Those with a name are stated in the module
and violated there by TLC when listed in a configuration; they have no run of their
own, so that the runs stay about what the code does right. What the properties of the runs
except is among them.

*Batch run.*

* `RetriesComeBack` (`Scheduler`): an item whose process died between
  `complete_work(RETRYABLE)` and its deferral is neither selected nor reclaimed
  (`scheduler.py:204`; `docs/agents/diagrams.md:390` has it leased again). `EachDeathStrandsOne`
  counts these.
* `AttemptsAreBounded` (`Scheduler`): deaths do not count against
  `max_attempts` (`store.py:428`; CONTEXT.md:482-484).
* `NoComboSearchedTwice` (`Pipeline`): the refiner repeats a search
  (`candidate_scorer.py:479`; 256-257).
* `Reloadable` (`StateFile`): a torn line stops the next run
  (`run_unified.py:780`; CONTEXT.md:361-363).
* `RequestsAreSpaced` (`Fetch`): memorial visits do not ask the gate
  (`spouse_scrape.py:422`; CONTEXT.md:60-61, `request_gate.py:3`).
* `ClosedTargetIsReopened` (`Fetch`): the engine's ladder does not reopen a
  page whose target died (`engine.py:302`; CONTEXT.md:348-351).
* The refiner's `max_refinements` caps one invocation, and a raising one is
  repeated (`candidate_scorer.py:263`; `tests/test_deep_refiner.py:141`).
* A blocked or failed search is recorded as `no_results` and its item
  `SUCCEEDED`, because the engine's result has no `status`
  (`fag_scraper.py:433`); nobody calls `cooldown_for`.
* `max_verify = 3` counts matches, not visits (`run_unified.py:1042`).
* `EachBeforeTheNext` (`Recipe`): a pensioner whose work was deferred is passed over
  (`run_unified.py:985-990`) and gets no row until the program is started again, though
  later pensioners' `run()` may finish the work. `RunIsItsRecipe` says who is left out.
* Observation ids of fetched candidates are random (`fag_scraper.py:204`,
  against CONTEXT.md L11), so a retried search observes them twice.
* `--reprocess` appends second rows (CONTEXT.md L5); the pension-card rewrite is
  not synced (CONTEXT.md L10).
* The browser is started before the `try` whose `finally` closes it
  (`run_unified.py:858`); the hash of a checkpoint is written and never read
  (`checkpoint.py:196`).

*Recipe.*

* `OneScriptAway`: only Ctrl-C writes `resume.sh`, and a kill while
  `config.json` is rewritten in place leaves it unparsable, which both scripts
  refuse (`run_unified.py:741`; CHANGELOG.md:3483-3489 has every run write it).
* `ModeObjectIsUsed`: what the operator sets in the mode object is validated
  (`batch_config.py:200-216`) and not used, the driver reads the presets
  (`run_unified.py:885-897`).
* `FilterCanBeDisabled`: `--fag-state-filter ''` falls back to "OK"
  (`run_unified.py:1730`), and the batch run's engine does not read it at all.
* `NothingOutsideTheRange`: a range that is empty or reversed runs the whole rest
  (`run_unified.py:1564-1567`).
* Arguments equal to their default cannot override the configuration; `--limit 0` means
  none, the limit is taken from the configured start even when `--start-from` overrides
  it; a shuffled run with a limit picks other rows on resume; overrides but `--mode` are
  lost on resume; version 1's `low_score_threshold` is dropped on upgrade; the help of
  `--out` names another default.

*Post-passes.*

* `NobodyMatchedByNumber` (`PostPass`): corroborations of the graves registry
  are stamped with the veteran's number and enrich a pensioner of that number
  (`run_unified.py:812-828`).
* `PageHasTheRows` (`PostPass`): rows and matches are put where the copied page has
  placeholders for them (`view_copy.py:99`, 118), and `scripts/view/v2.html`, which a
  run copies by default (`run_unified.py:755`, 1711), has none, so the reviewer's page
  shows neither (749-752; `MCDefaultPage` is that source). Besides, `view.html` is only copied if it is missing
  (`view_copy.py:91-92`).
* `SpousesReachTheRows`: the spouse pass of a run navigates a browser that the driver
  closed before the post-passes began, and never matches (`run_unified.py:1192`;
  `post_pass/spouse.py:5-8`).
* `PagesReachTheRows` (`PostPass`): a page sidecar of an earlier run is reused
  (`pensioncard_pages.py` docstring 178-182).
* The registry builds a pass outside the `try` its docstring promises (227;
  197-198); the observation enricher "never raises" but reads strictly;
  `spouse_match.json` is read for the page and written by nobody; a match already
  on the blackboard keeps its old payload.

*Spouse pass.* The time to live of the cache is that of the file and is renewed by
every put; a cached page without a match is fetched again; a pass whose pages fail
erases matches whose page is not cached; a lower `--top-n` loses matches.

*Search tool.* `NoResultsMeansNone` (`FagSearch`): the parser swallows a failing query
for the links of a page (`parser.py:167-187`) and returns nobody found, which counts as
an answer. `RowTellsTheSearch` allows for these by name (`unseen`). One dead page gives
every later pensioner a permanent "error" row; a checkpoint that cannot be written after
a row was saved adds a second row; `--exclude-csv` raises a NameError (`csv` is not
imported); `--limit` and `--start-from` count before the processed are filtered out; a
memorial whose first link has no text is lost; answers that are walls reset the
session's error count; `_is_target_closed` misses Playwright's present wording.

*Search and review.*

* Of the two gates a record is said to have to clear (0.70 of the search, 0.85 of
  the pipeline, `scoring_constants.py:44-51`) a batch run applies only the first.
* If the record has no state, a memorial without one scores higher (0.05) than a
  burial in Oklahoma (0.045), which the comment calls a bonus (`scoring.py:134-141`,
  164-166).
* The state of a regiment is never extracted: a plan for it searches in the
  pensioner's own state or everywhere (`fag_scraper.py:109-113`).
* Every query asks for deaths up to 1955, a widow's too, who may have died up to 1980
  (`filters.py:206`; 242-247).
* Knowing the year of death raises the threshold and can so demote the right
  man; F4 asks for ten years before it; a memorial that is not linked is hidden by
  the spouse filter; the "weak" branch of `compare_spouses` is unreachable; a
  memorial with the exact first and last name that lacks the recorded middle name
  scores 0.39, below the low threshold of 0.40.

*Card ingest.*

* `CrashKeepsFlushedWork` (`CardIngest`): a kill in the middle of a save leaves a
  file that the resume takes for empty (`red_ink_ocr_pilot.py:976-977`).
* `ReadingsAreSaved` (`CardIngest`): EasyOCR with one worker, the default, does not save
  at its end (`easyocr_pass.py:485`; 184 says "Results are saved per-record; kill-safe.").
  `WorkIsKept` has these read again.
* A tile cut short counts as
  downloaded; a record with an OCR error is permanent; the first
  checkpoint needs a marks file that exists.

*Death dates.* `SubstitutionMeansFar` (`DeathDate`): the audit looks for the year in
four digits, does not find that of a date like 4-13-31 beside its keyword, and flags a
wrong digit (`audit_suspicious.py:219-246`). The year fallback of the parser is dead
code though a comment counts what it recovers (`red_ink_ocr_pilot.py:536-585`); its
median penalty never decides without a keyword; offsets into stripped text are used on
the raw one (855-860); a lone 1915 is rejected however it is spelled (762-764); a death
before "Obit" on one line with an entrance is lost; a soldier's name near a date beats a
keyword beside it; parsing anew takes the texts one by one, which can wipe dates of
EasyOCR and accepted ones, and with `--limit` truncates the file; a widow's card is
parsed with two different names (the run has no widow's card); two audit flags cannot
fire; a death in 1860 is taken by the parser (`MIN_YEAR`, `red_ink_ocr_pilot.py:56`),
doubted by the audit (`audit_death_dates.py:161`), whose text says 1865 (17).

*Graves registry.*

* `PhoneticFirstCounts` (`Registry`): the first-name key unpacks a list of one
  into two, the error is swallowed, and no phonetic first name is ever "strong"
  (`cgr_fag_dedup.py:120`; 97-104).
* `MembersMatch` (`Registry`): two members of one person may be no match for each
  other (`cgr_dedup.py:53-69`), as the join is transitive.
* `WhoIsThereIsSeen` (`Registry`): a lookup cut at its limit in arbitrary order
  (`pipeline/core.py:165`) may drop the one match, and the pensioner is called clear.
* The record a verdict's summary names is the first of equals in the order of a set;
  `match_pensioner_to_cgr` ignores the first name; a pensioner that links to several
  persons goes to the lexicographically first; the metadata of a merged person
  depends on the order of the file.

*Collections, viewer, overlay.*

* `FailuresAreRetried` (`Harvest`): an error record counts as done
  (`cgr_enrich_run.py:16-18`).
* `LastChosenIsShown` (`Lightbox`): an image that loads late replaces the one chosen
  after it (`build_pensioncard_viewer.py:695-697`).
* `SavesAreAtomic` (`Harvest`): `save_records` says "atomically"
  (`scrape_digitalprairie.py:271`) and truncates.
* `NoneIsCut` (`Viewer`): an entry whose write raised midway is closed into the archive, and
  the resume skips it by its name (`distribute_pension_viewer.py:364-372`, 622-626).
* `PagesMatch` (`Viewer`): a resumed archive keeps the page of an older build beside the
  pictures of the new one.
* A line appended behind a torn one loses both; `load_cemeteries_jsonl` raises on
  a torn line;
  `find_max_id` may stop short by the slack; an application image cut short is skipped
  for ever and every failure reads "http-404"; a killed packer starts its archive from
  zero (docstring 24-27), and parts have no start page; a shared card id shows its
  last pensioner.

*Learning.*

* `PriorRegistry.default().save()` raises a TypeError: its utilities are kept under
  pairs, which JSON refuses as keys (`priors.py:219`). `train.py` (133) therefore
  never writes a model and never reaches the classifier.
* The labels pass writes no score, so the trainer takes 0 for each
  (`train.py:82`); the page's export has the scores, and no
  `human_review_decision` (`view/v2.html:2450-2460`), so none of its labels
  counts as accepted and the learner of weights finds no pick.
* The "most recent" sidecar is that of the greatest file name (`labels.py:94-95`);
  it is appended again by each run.
* A label appended behind a torn one is lost with it (`LabelsReachTheTrainer` allows
  for this one).
* Learned utilities are kept under names and looked up under pairs
  (`priors.py:204`; 126); `texas_likelihood` looks for its own keys
  ("notes_texas") in the notes (116-118).
* `calibrate_threshold` goes down where the precision is not met
  (`calibrated_classifier.py:211-215`), so it returns 1.0 whenever 0.5 is not enough.
* `best_threshold` asked for accuracy compares F1 with the accuracy of the best
  (`evaluation.py:161-163`).
* A negative delta of a pick counts twice (`weight_learner.py:167-171`; 155-158
  says the first candidate is the baseline).
* The ranker drops no plan of a blocked provider (`plan_ranker.py:27`).

## Not modelled

Analysis, the scoring evaluator, exports, event translation and the reports of the
remaining post-passes: computed from finished files, with no protocol. Of learning: the
SQLite store of labels and the extractor from projections, which nothing in the
repository's programs calls, and the statistics of strategies, which are stored where
they are not found. State replay, dry run, the state check and the audit log: single
passes or append-only logs. The response classifier: its verdict on a page is an input
of `Fetch` and `FagSearch`. The newspapers engine: the ladder of `Fetch` over another
site, whose results nothing scores in a batch run. The review page and user scripts:
driven by a person. Parsing of HTML, pixels, URLs and markup; phonetic keys and
nicknames, which are relations of the instance; encodings (a row cut inside a multi-byte
character is taken as any other unreadable line); the cooldown setters of the gate and
`update` of the repository, which nothing calls; `JsonlBlackboardStore`, observers and
`provider_not_before`, which nothing in a run reads back. The legacy search path of
`FaGScraperKS` is unreachable from the driver, which always passes an engine; the
session's own search is in `FagSearch`.

## Plan

1. Done: queue and scheduler; driver and knowledge sources; recipe; state
   file; fetching; scoring to review; search tool and spouse pass; post-passes;
   learning; ingest, dates, registry, collections, viewer.
2. Done, proofs: every invariant and every property of steps the runs check, of every
   module, and the queue the scheduler implements.
3. Open: nothing but liveness, which stays with TLC.
