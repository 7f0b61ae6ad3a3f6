------------------------------- MODULE Fetch -------------------------------
(***************************************************************************)
(* How one run talks to Find a Grave: the RequestGate (fag/request_gate.py)*)
(* under FaGScraperKS (knowledge/fag_scraper.py) and the engine's strategy *)
(* ladder (search/engine.py, default_search_one), the memorial pages the   *)
(* driver visits afterwards (run_unified.py, spouse verification and       *)
(* memorial signals), and the one browser page they share                  *)
(* (fag/browser_session.py).                                               *)
(*                                                                         *)
(* Everything runs on the driver's thread.  Time is counted in ticks, of   *)
(* which Interval make the gate's min_interval; clocks stop at Interval,   *)
(* since nothing tells longer times apart.                                 *)
(***************************************************************************)
EXTENDS Integers, Sequences, FiniteSets

CONSTANTS
  Pensioners,  \* those of the run
  Candidates,  \* the memorials a search may return
  Ladder,      \* the strategies of the engine, in order
  MaxPlans,    \* bound: search items of one pensioner
  Interval,    \* ticks of min_interval
  MaxVerify,   \* max_verify
  Cap          \* MAX_CANDIDATES_PER_PENSIONER

ASSUME FetchAssumption ==
  /\ MaxPlans \in Nat \ {0} /\ Interval \in Nat \ {0} /\ MaxVerify \in Nat
  /\ Cap \in Nat
  /\ Ladder \in Seq(STRING)

VARIABLES
  pc,       \* where the driver is
  page,     \* session.page: "open", "closed" (its target died), "none"
  since,    \* time since the gate's _last_acquire
  left,     \* the pensioners without a row
  p,        \* the pensioner being processed
  plans,    \* its search items still to be done
  todo,     \* the strategies this search has still to try
  found,    \* what this search has parsed
  board,    \* the candidates observed for p
  linked,   \* the candidates of p whose memorial is still to be visited
  matched,  \* verified_count
  rows,     \* the candidates in the rows written
  seen,     \* history: what p's pages have shown
  searched, \* history: time since the last search was sent
  quiet     \* history: time since any page was asked for

work == <<left, p, plans, board, rows>>
search == <<todo, found, seen>>
memorials == <<linked, matched>>
clocks == <<since, searched, quiet>>
vars == <<pc, page, work, search, memorials, clocks>>

Later(t) == IF t < Interval THEN t + 1 ELSE t

(* _wait_until_ready returns.                                              *)
Ready == since = Interval

(* A mutant: wait() does not restart the clock.                            *)
NotRecorded == since

(* The age of _last_acquire after wait().                                  *)
Waited == 0
-----------------------------------------------------------------------------
(* The warmup page is followed by a pause longer than min_interval.        *)
Init ==
  /\ pc = "idle" /\ page = "open"
  /\ left = Pensioners /\ p \in Pensioners /\ plans = 0 /\ board = {}
  /\ todo = <<>> /\ found = {} /\ seen = {}
  /\ linked = {} /\ matched = 0
  /\ rows = [q \in {} |-> {}]
  /\ since = Interval /\ searched = Interval /\ quiet = Interval

Tick ==
  /\ \E t \in {since, searched, quiet} : t < Interval
  /\ since' = Later(since) /\ searched' = Later(searched) /\ quiet' = Later(quiet)
  /\ UNCHANGED <<pc, page, work, search, memorials>>

(* The driver takes the next pensioner; the planner gives it some items.   *)
Begin ==
  /\ pc = "idle"
  /\ p' \in left /\ plans' \in 0 .. MaxPlans
  /\ board' = {} /\ seen' = {}
  /\ pc' = "item"
  /\ UNCHANGED <<page, left, rows, todo, found, memorials, clocks>>

(* FaGScraperKS.invoke: gate.acquire waits but does not count as a request.*)
Acquire ==
  /\ pc = "item" /\ plans > 0 /\ Ready
  /\ plans' = plans - 1
  /\ todo' = Ladder /\ found' = {}
  /\ pc' = "ladder"
  /\ UNCHANGED <<page, left, p, board, rows, seen, memorials, clocks>>

(* A strategy that does not apply to the pensioner, or whose URL can not   *)
(* be built.                                                               *)
SkipStrategy ==
  /\ pc = "ladder" /\ todo # <<>>
  /\ todo' = Tail(todo)
  /\ UNCHANGED <<pc, page, work, found, seen, memorials, clocks>>

(* throttle_fn, then page.goto.                                            *)
Navigate ==
  /\ pc = "ladder" /\ todo # <<>> /\ Ready
  /\ since' = Waited
  /\ searched' = 0 /\ quiet' = 0
  /\ pc' = "search"
  /\ UNCHANGED <<page, work, search, memorials>>

(* Mutants: a page that fails ends the search with nothing, or is tried    *)
(* again.                                                                  *)
GiveUp == found' = {} /\ todo' = <<>>
TryAgain == UNCHANGED <<found, todo>>

(* A page that times out, is a bot wall or can not be parsed is passed     *)
(* over.                                                                   *)
PassOver == found' = found /\ todo' = Tail(todo)

Results ==
  /\ pc = "search" /\ page = "open"
  /\ \E cs \in SUBSET Candidates : found' = found \cup cs /\ seen' = seen \cup cs
  /\ todo' = Tail(todo)
  /\ pc' = "ladder"
  /\ UNCHANGED <<page, work, memorials, clocks>>

NoResults ==
  /\ pc = "search"
  /\ page' \in {page, "closed"}
  /\ PassOver
  /\ pc' = "ladder"
  /\ UNCHANGED <<work, seen, memorials, clocks>>

(* The search is over: the gate is released and the candidates observed.   *)
Release ==
  /\ pc = "ladder" /\ todo = <<>>
  /\ since' = 0
  /\ board' = board \cup found
  /\ pc' = "item"
  /\ UNCHANGED <<page, left, p, plans, rows, search, memorials, searched, quiet>>
-----------------------------------------------------------------------------
(* The scheduler is through with p, and the memorials of spouse-linked     *)
(* candidates of a widow may be visited, until MaxVerify of them match.    *)
StartVerify ==
  /\ pc = "item" /\ plans = 0
  /\ linked' \in SUBSET board /\ matched' = 0
  /\ pc' = "verify"
  /\ UNCHANGED <<page, work, search, clocks>>

(* fetch_spouse_html: page.goto, past the gate.                            *)
Visit ==
  /\ pc = "verify" /\ linked # {} /\ matched < MaxVerify
  /\ \E c \in linked : linked' = linked \ {c}
  /\ quiet' = 0
  /\ pc' = "visit"
  /\ UNCHANGED <<page, work, search, matched, since, searched>>

SpousesDone == pc = "verify" /\ (linked = {} \/ matched >= MaxVerify)

(* Without a spouse found the best candidate is visited for the signals of *)
(* a soldier when its score is borderline, seen before or not.             *)
VisitBest ==
  /\ SpousesDone /\ matched = 0 /\ board # {}
  /\ quiet' = 0
  /\ pc' = "signals"
  /\ UNCHANGED <<page, work, search, memorials, since, searched>>

Visited ==
  /\ \/ /\ pc = "visit" /\ pc' = "verify"
        /\ matched' \in IF page = "open" THEN {matched, matched + 1} ELSE {matched}
     \/ pc = "signals" /\ pc' = "row" /\ matched' = matched
  /\ page' \in IF matched' = matched THEN {page, "closed"} ELSE {page}
  /\ UNCHANGED <<work, search, linked, clocks>>

(* page.title() or page.content() fails: no handler below the driver's     *)
(* finally, which closes the browser.                                      *)
VisitRaises ==
  /\ pc \in {"visit", "signals"} /\ page = "open"
  /\ page' = "none"
  /\ pc' = "aborted"
  /\ UNCHANGED <<work, search, memorials, clocks>>

(* build_state_row cuts the candidates, sorted by score, at the cap; which *)
(* are the best is left open here.                                         *)
Kept(cs) ==
  IF Cardinality(cs) <= Cap THEN {cs} ELSE {k \in SUBSET cs : Cardinality(k) = Cap}

WriteRow ==
  /\ pc = "row" \/ SpousesDone
  /\ \E k \in Kept(board) :
       rows' = [q \in DOMAIN rows \cup {p} |-> IF q = p THEN k ELSE rows[q]]
  /\ left' = left \ {p}
  /\ pc' = "idle"
  /\ UNCHANGED <<page, p, plans, board, search, memorials, clocks>>

Close ==
  /\ pc = "idle" /\ left = {}
  /\ page' = "none"
  /\ pc' = "done"
  /\ UNCHANGED <<work, search, memorials, clocks>>

Step == \/ Begin \/ Acquire \/ SkipStrategy \/ Navigate \/ Results \/ NoResults
        \/ Release \/ StartVerify \/ Visit \/ VisitBest \/ Visited
        \/ VisitRaises \/ WriteRow \/ Close

Next == Tick \/ Step

Spec == Init /\ [][Next]_vars

(* Time passes and the driver goes on; every page.goto has a timeout.      *)
FairSpec == Spec /\ WF_vars(Tick) /\ WF_vars(Step)
-----------------------------------------------------------------------------
(* Every variable keeps its type; and the browser is closed exactly when   *)
(* the driver is through, also when a memorial visit raises (the finally of *)
(* run_batch_scheduler).                                                   *)
TypeOK ==
  /\ pc \in {"idle", "item", "ladder", "search", "verify", "visit",
            "signals", "row", "done", "aborted"}
  /\ page \in {"open", "closed", "none"}
  /\ page = "none" <=> pc \in {"done", "aborted"}
  /\ left \subseteq Pensioners /\ p \in Pensioners /\ plans \in 0 .. MaxPlans
  /\ todo \in Seq(STRING) /\ {found, board, seen, linked} \subseteq SUBSET Candidates
  /\ matched \in 0 .. MaxVerify
  /\ rows \in [Pensioners \ left -> SUBSET Candidates]
  /\ {since, searched, quiet} \subseteq 0 .. Interval

(* From one search page to the next at least min_interval passes, whatever *)
(* the pages answer and across strategies, items and pensioners: acquire   *)
(* and wait share one clock (request_gate.py).                             *)
SearchesAreSpaced ==
  [][pc = "ladder" /\ pc' = "search" => searched >= Interval]_vars

(* A row holds every candidate a page of its pensioner has shown, however  *)
(* many of the other pages failed, or the cap of them when there are more, *)
(* and none of another pensioner (default_search_one's continue, the merge *)
(* of the driver, build_state_row).                                        *)
HoldsTheFound(row, cs) ==
  \/ row = cs
  \/ row \subseteq cs /\ Cardinality(row) = Cap

NothingFoundIsLost ==
  [][\A q \in DOMAIN rows' \ DOMAIN rows : HoldsTheFound(rows'[q], seen)]_vars

(* Whatever the provider answers, the run ends: no page is waited for or   *)
(* retried without bound, and whichever way it ends, a memorial visit that *)
(* raises included, the browser is closed (the finally of                  *)
(* run_batch_scheduler).                                                   *)
RunEnds == <>(pc \in {"done", "aborted"} /\ page = "none")

(* CONTEXT.md, Throttle: the minimum delay between consecutive FaG         *)
(* requests.                                                               *)
RequestsAreSpaced ==
  [][pc' \in {"search", "visit", "signals"} /\ pc' # pc => quiet >= Interval]_vars

(* CONTEXT.md L2: a closed target is reopened before the next request.     *)
ClosedTargetIsReopened ==
  [][pc' \in {"search", "visit", "signals"} /\ pc' # pc => page = "open"]_vars
=============================================================================
