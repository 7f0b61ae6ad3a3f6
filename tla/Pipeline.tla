------------------------------ MODULE Pipeline ------------------------------
(***************************************************************************)
(* The batch driver of scripts/pipeline/run_unified.py with the knowledge  *)
(* sources it registers: planner, Find a Grave scraper, candidate scorer,  *)
(* deep refiner and calibrated decision.  One pensioner is ingested, the   *)
(* scheduler is run until nothing is claimable, and a state row is         *)
(* appended if none of the pensioner's work is left.                       *)
(*                                                                         *)
(* An invocation is the store writes it makes, each with its place among   *)
(* them; one that raises leaves those before some place behind and is      *)
(* deferred or given up by the scheduler (see Scheduler for the statements *)
(* inside a claim).  A search is its result, any few of Hits.  Work of one *)
(* knowledge source is claimed in any order here, the code's ORDER BY      *)
(* work_id being one.                                                      *)
(***************************************************************************)
EXTENDS Integers, FiniteSets, Sequences, SequencesExt

CONSTANTS
  Batch,          \* the pensioners of the input file, in order, each once
  HasLast,        \* those with a last name
  Widows,         \* those for whom is_widow_pensioner holds
  Spoused,        \* those with a spouse's first and last name
  TexasEvidence,  \* those with Texas migration evidence
  Origin,         \* Origin[p] is the state p's regiment names
  NoState,
  Surrounding,    \* the refiner's surrounding states, in order
  Hits,           \* what a search may return: memorial, level, signal
  MaxHits,        \* bound: candidates of one search
  LowLevel,       \* the least level at or over LOW_SCORE_THRESHOLD
  StrongLevel,    \* the least level at or over the early-stop score
  SkipLevel,      \* the least level at or over skip_refine_above
  MaxRefinements,
  MaxAttempts,
  MaxRaises,      \* bound: invocations that raise
  MaxCrashes      \* bound: deaths of the process

Pensioners == ToSet(Batch)
NoLevel == 0      \* the top_score of a decision without candidates

ASSUME PipelineAssumption ==
  /\ Batch \in Seq(Pensioners)
  /\ \A i, j \in DOMAIN Batch : Batch[i] = Batch[j] => i = j
  /\ HasLast \cup Widows \cup Spoused \cup TexasEvidence \subseteq Pensioners
  /\ Surrounding \in Seq(ToSet(Surrounding))
  /\ \A h \in Hits : h.level \in Nat /\ h.signal \in BOOLEAN
  /\ {MaxHits, MaxRefinements, MaxRaises, MaxCrashes} \subseteq Nat
  /\ MaxAttempts \in Nat \ {0}

VARIABLES
  pc,         \* "down", "next" (between pensioners), "run" (inside run())
  remaining,  \* the places in Batch of those this run has not finished with
  plans,      \* query_plans
  noted,      \* the FaGSearchPlan observations
  found,      \* found[p]: p's FaGCandidateFetch observations
  scores,     \* scores[p]: p's ScoreObserved observations, oldest first
  decided,    \* decided[p]: the scores p's DecisionObserved were made from
  work,       \* work_items: a function on the work_ids enqueued
  rows,       \* the state file
  fresh,      \* the rows of it that this run appended
  raises, crashes

board == <<plans, noted, found, scores, decided, work>>
vars  == <<pc, remaining, board, rows, fresh, raises, crashes>>
-----------------------------------------------------------------------------
(* Work items, by the id the enqueuer gives them.                          *)
PlanWork(p)     == <<"plan", p>>
FagWork(q)      == <<"fag", q.who, q>>
ScoreWork(p, n) == <<"score", p, n>>
RefineWork(p)   == <<"refine", p>>
DecideWork(p)   == <<"decide", p>>

(* The pensioner whose turn it is.                                         *)
Current == Batch[Min(remaining)]

WhoOf(w) == w[2]
SourceOrder == [plan |-> 1, fag |-> 2, score |-> 3, refine |-> 4, decide |-> 5]
SourceOf(w) == SourceOrder[w[1]]

Ready == [state |-> "ready", attempt |-> 0, due |-> TRUE]
StateOf(w) == IF w \in DOMAIN work THEN work[w].state ELSE "absent"
Finished == {"succeeded", "terminal"}

(* Mutant of HasPendingWork: deferred work is overlooked.                  *)
HasClaimableWork(p) ==
  \E w \in DOMAIN work : WhoOf(w) = p /\ work[w].state = "ready" /\ work[w].due

HasPendingWork(p) == \E w \in DOMAIN work : WhoOf(w) = p /\ work[w].state = "ready"

Claimable == {w \in DOMAIN work : work[w].state = "ready" /\ work[w].due}
NextWork ==
  LET ready == Claimable
  IN {w \in ready : \A v \in ready : SourceOf(w) <= SourceOf(v)}
-----------------------------------------------------------------------------
(* A plan stands for its plan_id: the planner makes pass 1, the refiner 2. *)
Plan(p, strategy, scope, pass) ==
  [who |-> p, strategy |-> strategy, scope |-> scope, pass |-> pass]

(* Mutant of AlreadyCompleted: a stored plan counts without its work item. *)
AlreadyStored(p, strategy, scope) ==
  \E q \in plans : q.who = p /\ q.strategy = strategy /\ q.scope = scope

AlreadyCompleted(p, strategy, scope) ==
  \E q \in plans : /\ q.who = p /\ q.strategy = strategy /\ q.scope = scope
                   /\ StateOf(FagWork(q)) \in Finished

OriginState(p) == Origin[p]

(* The place a plan is looked up under, which is not always the scope it   *)
(* is stored with.                                                         *)
KeyOf(q) ==
  CASE q.scope = "RegimentOrigin" -> OriginState(q.who)
    [] q.scope = "Texas" -> "TX"
    [] OTHER -> q.scope

HasForeignOrigin(p) == OriginState(p) \notin {NoState, "OK"} /\ p \notin Widows

(* The n-th plan a source would make.                                      *)
Choice(n, q) == [at |-> n, plan |-> q]

(* plan_for_pensioner: Oklahoma, regiment origin, Texas, then US-wide.     *)
PlannerChoices(p) ==
  {Choice(1, Plan(p, "B1-exact", "OK", 1)), Choice(4, Plan(p, "B4-fuzzy-last", "US", 1))}
    \cup (IF HasForeignOrigin(p) THEN {Choice(2, Plan(p, "B1-exact", "RegimentOrigin", 1))} ELSE {})
    \cup (IF p \in TexasEvidence THEN {Choice(3, Plan(p, "B1-exact", "Texas", 1))} ELSE {})

PlansFor(p) ==
  {c \in PlannerChoices(p) :
     p \in HasLast /\ ~AlreadyCompleted(p, c.plan.strategy, KeyOf(c.plan))}

(* The combinations _read_tried_combos finds in the plan observations.     *)
Tried(p) == {<<q.strategy, q.scope>> : q \in {n \in noted : n.who = p}}

ScopeOfState(s) == IF s = "TX" THEN "Texas" ELSE s

(* _generate_refinements: a low score widens to the surrounding states, a  *)
(* fair one replays other strategies.                                      *)
SpouseChoice(n, p) == IF p \in Spoused THEN {Choice(n, Plan(p, "C1-cw-context", "OK", 2))} ELSE {}

WiderChoices(p) ==
  LET n == Len(Surrounding)
  IN {Choice(i, Plan(p, "B1-exact", ScopeOfState(Surrounding[i]), 2)) : i \in 1 .. n}
       \cup {Choice(n + 1, Plan(p, "B4-fuzzy-last", "US", 2))} \cup SpouseChoice(n + 2, p)
       \cup {Choice(n + 3, Plan(p, "F3-nickname", "OK", 2))}

ReplayChoices(p) ==
  LET home == IF OriginState(p) \in ToSet(Surrounding)
              THEN ScopeOfState(OriginState(p)) ELSE "RegimentOrigin"
  IN {Choice(1, Plan(p, "B3-first-initial-fuzzy", "OK", 2)), Choice(2, Plan(p, "F3-nickname", "OK", 2))}
       \cup (IF HasForeignOrigin(p) THEN {Choice(3, Plan(p, "B1-exact", home, 2))} ELSE {})
       \cup SpouseChoice(4, p)

Refinements(p, top) ==
  LET untried == {c \in IF top < LowLevel THEN WiderChoices(p) ELSE ReplayChoices(p) :
                    p \in HasLast /\ <<c.plan.strategy, KeyOf(c.plan)>> \notin Tried(p)}
  IN {c \in untried : Cardinality({d \in untried : d.at < c.at}) < MaxRefinements}

TopLevel(S) == IF S = {} THEN NoLevel
               ELSE CHOOSE l \in {h.level : h \in S} : \A h \in S : h.level <= l
BestHits(p) == {h \in found[p] : h.level = TopLevel(found[p])}
-----------------------------------------------------------------------------
(* One write to the store, the at-th of its invocation.                    *)
Write(at, op, what) == [at |-> at, op |-> op, what |-> what]

PlannerWrites(p) ==
  LET cs == PlansFor(p)
  IN UNION {{Write(2 * c.at - 1, "plan", c.plan), Write(2 * c.at, "note", c.plan),
             Write(8 + c.at, "work", FagWork(c.plan))} : c \in cs}

(* A raising search may have written any of its hits.                      *)
ScraperWrites(q, hits) ==
  {Write(1, "hit", [who |-> q.who, hit |-> h]) : h \in hits}
    \cup {Write(2, "work", ScoreWork(q.who, q.pass))}

ScorerWrites(p, pass) ==
  { Write(1, "score", [who |-> p, pass |-> pass, top |-> TopLevel(found[p])]),
    Write(2, "work", RefineWork(p)), Write(3, "work", DecideWork(p)) }

(* best is the candidate max() picked among the observations.              *)
RefinerWrites(p, best) ==
  LET top == Head(scores[p]).top
  IN IF \/ scores[p] = <<>>
        \/ top >= SkipLevel
        \/ top >= StrongLevel /\ \E h \in best : h.signal
     THEN {}
     ELSE UNION {{Write(3 * c.at - 2, "plan", c.plan),
                  Write(3 * c.at - 1, "work", FagWork(c.plan)),
                  Write(3 * c.at, "note", c.plan)} : c \in Refinements(p, top)}

DeciderWrites(p) ==
  IF scores[p] = <<>> THEN {}
  ELSE {Write(1, "decision", [who |-> p, from |-> Head(scores[p])])}

(* What the outside gives an invocation: the search result, or which of    *)
(* equally good candidates comes first.                                    *)
Inputs(w) ==
  CASE w[1] = "fag"    -> {S \in SUBSET Hits : Cardinality(S) <= MaxHits}
    [] w[1] = "refine" -> IF BestHits(w[2]) = {} THEN {{}} ELSE {{h} : h \in BestHits(w[2])}
    [] OTHER           -> {{}}

Writes(w, input) ==
  CASE w[1] = "plan"   -> PlannerWrites(w[2])
    [] w[1] = "fag"    -> ScraperWrites(w[3], input)
    [] w[1] = "score"  -> ScorerWrites(w[2], w[3])
    [] w[1] = "refine" -> RefinerWrites(w[2], input)
    [] w[1] = "decide" -> DeciderWrites(w[2])

(* The writes an invocation of w may make, and those of one that raises:   *)
(* it got as far as some write, but not through.                           *)
Invocations(w) == {Writes(w, input) : input \in Inputs(w)}
BrokenOff(w) ==
  {{}} \cup UNION {{{y \in W : y.at < x.at} : x \in W} : W \in Invocations(w)}

(* The store after the writes W, w's own row becoming r: plans,            *)
(* observations and work already there are ignored.                        *)
Of(op, W) == {x.what : x \in {y \in W : y.op = op}}
NewScores(p, W) ==
  {s \in Of("score", W) : s.who = p /\ \A i \in DOMAIN scores[p] : scores[p][i].pass # s.pass}

Apply(W, w, r) ==
  /\ plans' = plans \cup Of("plan", W)
  /\ noted' = noted \cup Of("note", W)
  /\ found' = [p \in Pensioners |->
                 found[p] \cup {x.hit : x \in {h \in Of("hit", W) : h.who = p}}]
  /\ scores' = [p \in Pensioners |->
                  scores[p] \o (IF NewScores(p, W) = {} THEN <<>>
                                ELSE << CHOOSE s \in NewScores(p, W) : TRUE >>)]
  /\ decided' = [p \in Pensioners |->
                   decided[p] \cup {d.from : d \in {e \in Of("decision", W) : e.who = p}}]
  /\ work' = [v \in DOMAIN work \cup Of("work", W) |->
                IF v = w THEN r ELSE IF v \in DOMAIN work THEN work[v] ELSE Ready]
-----------------------------------------------------------------------------
Nothing == [p \in Pensioners |-> {}]
Unscored == [p \in Pensioners |-> <<>>]

Init ==
  /\ pc = "down" /\ remaining = {}
  /\ plans = {} /\ noted = {} /\ work = << >>
  /\ found = Nothing /\ scores = Unscored /\ decided = Nothing
  /\ rows = <<>> /\ fresh = {} /\ raises = 0 /\ crashes = 0

(* The program starts: the old blackboard is deleted, and the pensioners   *)
(* with a row in the state file are taken as done.                         *)
CompletedIds == {rows[i].who : i \in DOMAIN rows}

StartRun ==
  /\ pc = "down"
  /\ pc' = "next"
  /\ remaining' = {i \in DOMAIN Batch : Batch[i] \notin CompletedIds}
  /\ plans' = {} /\ noted' = {} /\ work' = << >>
  /\ found' = Nothing /\ scores' = Unscored /\ decided' = Nothing
  /\ fresh' = {}
  /\ UNCHANGED <<rows, raises, crashes>>

Ingest ==
  /\ pc = "next" /\ remaining # {}
  /\ pc' = "run"
  /\ work' = [v \in DOMAIN work \cup {PlanWork(Current)} |->
               IF v \in DOMAIN work THEN work[v] ELSE Ready]
  /\ UNCHANGED <<remaining, plans, noted, found, scores, decided, rows, fresh, raises, crashes>>

Invoke ==
  /\ pc = "run"
  /\ \E w \in NextWork : \E W \in Invocations(w) :
       Apply(W, w, [state |-> "succeeded", attempt |-> work[w].attempt + 1, due |-> TRUE])
  /\ UNCHANGED <<pc, remaining, rows, fresh, raises, crashes>>

InvokeRaises ==
  /\ pc = "run" /\ raises < MaxRaises
  /\ raises' = raises + 1
  /\ \E w \in NextWork : \E W \in BrokenOff(w) :
       LET spent == work[w].attempt + 1
       IN Apply(W, w, [state |-> IF spent >= MaxAttempts THEN "terminal" ELSE "ready",
                        attempt |-> spent,
                        due |-> spent >= MaxAttempts])
  /\ UNCHANGED <<pc, remaining, rows, fresh, crashes>>

BackoffEnds ==
  /\ pc # "down"
  /\ \E w \in DOMAIN work : ~work[w].due /\ work' = [work EXCEPT ![w].due = TRUE]
  /\ UNCHANGED <<pc, remaining, plans, noted, found, scores, decided, rows, fresh,
                 raises, crashes>>

(* run() came back.  The row holds each memorial found, at its best.       *)
RowOf(p) ==
  [who |-> p,
   cands |-> {h \in found[p] :
                \A g \in found[p] : g.memorial = h.memorial => g.level <= h.level}]

NextPensioner == pc' = "next" /\ remaining' = remaining \ {Min(remaining)}

(* Mutant of AppendRow: a pensioner nothing was found for gets no row.      *)
AppendRowIfFound ==
  /\ pc = "run" /\ NextWork = {}
  /\ ~HasPendingWork(Current)
  /\ LET p == Current
     IN IF found[p] = {} THEN UNCHANGED <<rows, fresh>>
        ELSE rows' = Append(rows, RowOf(p)) /\ fresh' = fresh \cup {p}
  /\ NextPensioner
  /\ UNCHANGED <<board, raises, crashes>>

AppendRow ==
  /\ pc = "run" /\ NextWork = {}
  /\ ~HasPendingWork(Current)
  /\ rows' = Append(rows, RowOf(Current))
  /\ fresh' = fresh \cup {Current}
  /\ NextPensioner
  /\ UNCHANGED <<board, raises, crashes>>

LeaveDeferred ==
  /\ pc = "run" /\ NextWork = {}
  /\ HasPendingWork(Current)
  /\ NextPensioner
  /\ UNCHANGED <<board, rows, fresh, raises, crashes>>

EndRun ==
  /\ pc = "next" /\ remaining = {}
  /\ pc' = "down"
  /\ UNCHANGED <<remaining, board, rows, fresh, raises, crashes>>

Crash ==
  /\ pc # "down" /\ crashes < MaxCrashes
  /\ crashes' = crashes + 1
  /\ pc' = "down"
  /\ remaining' = {}
  /\ UNCHANGED <<board, rows, fresh, raises>>

RunStep == Ingest \/ Invoke \/ AppendRow \/ LeaveDeferred \/ EndRun

Next == StartRun \/ RunStep \/ InvokeRaises \/ BackoffEnds \/ Crash

Spec == Init /\ [][Next]_vars

(* The driver and the scheduler loop keep going, and the operator starts   *)
(* the program again after it ended or died.                               *)
FairSpec == Spec /\ WF_vars(RunStep) /\ WF_vars(StartRun)
-----------------------------------------------------------------------------
(* Every variable keeps its type; a plan that was announced to the other   *)
(* knowledge sources is in query_plans, and this run's rows are on file.   *)
TypeOK ==
  /\ pc \in {"down", "next", "run"}
  /\ remaining \subseteq DOMAIN Batch
  /\ noted \subseteq plans
  /\ \A p \in Pensioners : found[p] \subseteq Hits
  /\ \A w \in DOMAIN work :
       work[w] \in [state : {"ready"} \cup Finished, attempt : Nat, due : BOOLEAN]
  /\ rows \in Seq([who : Pensioners, cands : SUBSET Hits])
  /\ fresh \subseteq CompletedIds

(* However the program dies, is started again, defers a pensioner or works *)
(* off one pensioner's deferred work while running another, the state file *)
(* never gets two lines for one pensioner (CONTEXT.md L5).                 *)
OneRowEach == \A i, j \in DOMAIN rows : rows[i].who = rows[j].who => i = j

(* A row is not overtaken: nothing is found for a pensioner after the row  *)
(* was written, in the run that wrote it, though the scheduler goes on     *)
(* with other pensioners' deferred work on the same blackboard.            *)
RowIsNotOvertaken ==
  \A i \in DOMAIN rows :
    rows[i].who \in fresh => rows[i] = RowOf(rows[i].who)

(* A row is the last word on its pensioner, in the file and in the run.    *)
RowsAreFinal == OneRowEach /\ RowIsNotOvertaken

(* A plan was searched or given up, or one with its strategy that answers  *)
(* for the same place.                                                     *)
Searched(q) ==
  \E r \in plans : /\ r.who = q.who /\ r.strategy = q.strategy
                   /\ r.scope \in {q.scope, KeyOf(q)}
                   /\ StateOf(FagWork(r)) \in Finished

(* A row means searched: if planning went through, every plan the planner  *)
(* made, and every one the refiner announced and counts as tried, had been *)
(* searched or given up before the row was written, through retries of     *)
(* either that find some of their own plans written, searched, or both.    *)
RowMeansSearched ==
  \A p \in fresh :
    StateOf(PlanWork(p)) = "succeeded"
      => \A q \in noted \cup {r \in plans : r.pass = 1} : q.who = p => Searched(q)

(* Every pensioner gets a row in the end, if the program is started again  *)
(* after crashes and deferrals and invocations do not fail forever.        *)
EveryPensionerGetsARow == \A p \in Pensioners : <>(\E i \in DOMAIN rows : rows[i].who = p)

(* candidate_scorer.py 256: tried combinations are read so that work is    *)
(* not duplicated across the run.                                          *)
NoComboSearchedTwice ==
  \A q, r \in plans :
    /\ q.who = r.who /\ q.strategy = r.strategy /\ q.scope = r.scope
    /\ StateOf(FagWork(q)) = "succeeded" /\ StateOf(FagWork(r)) = "succeeded"
    => q = r
=============================================================================
