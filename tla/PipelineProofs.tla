--------------------------- MODULE PipelineProofs ---------------------------
(***************************************************************************)
(* Proofs about Pipeline for any pensioners, any search results and any    *)
(* number of raising invocations and deaths: types, one row for each       *)
(* pensioner that nothing overtakes, and what a row says of the searches.  *)
(***************************************************************************)
EXTENDS Pipeline, SequenceTheorems, WellFoundedInduction, TLAPS

(* A work_id as the driver and its knowledge sources form them.            *)
IsWork(w) ==
  \/ \E p \in Pensioners : w = PlanWork(p) \/ w = RefineWork(p) \/ w = DecideWork(p)
  \/ \E p \in Pensioners : \E n : w = ScoreWork(p, n)
  \/ \E q : q.who \in Pensioners /\ w = FagWork(q)

Typed ==
  /\ TypeOK
  /\ pc = "run" => remaining # {}
  /\ \A w \in DOMAIN work : IsWork(w)
  /\ \A q \in plans : q.who \in Pensioners

(* Nobody who is still to do has a row.                                    *)
RowsInv == OneRowEach /\ \A i \in remaining : Batch[i] \notin CompletedIds

(* Nobody with a row of this run has work left, so nothing is written for  *)
(* them any more.                                                          *)
FreshInv == \A w \in DOMAIN work : WhoOf(w) \in fresh => work[w].state # "ready"

(* A plan of the planner is one it would make again, and was queued once   *)
(* planning went through, unless its place had been searched; a plan the   *)
(* refiner announced was queued before.                                    *)
SearchInv ==
  /\ \A q \in plans :
       q.pass = 1 => /\ q.who \in HasLast /\ \E c \in PlannerChoices(q.who) : c.plan = q
                     /\ StateOf(PlanWork(q.who)) = "succeeded"
                          => FagWork(q) \in DOMAIN work \/ Searched(q)
  /\ \A q \in noted : q.pass # 1 => FagWork(q) \in DOMAIN work

(* Writes that w's invocation may make, in the order it makes them: plans  *)
(* before they are announced, the refiner's work before its plan is; all   *)
(* for w's pensioner.                                                      *)
Fits(W, w) ==
  \A y \in W :
    /\ y.at \in Int
    /\ y.op = "plan" =>
         /\ y.what.who = WhoOf(w)
         /\ y.what.pass = 1 => /\ w = PlanWork(WhoOf(w)) /\ WhoOf(w) \in HasLast
                               /\ \E c \in PlannerChoices(WhoOf(w)) : c.plan = y.what
    /\ y.op = "note" =>
         /\ \E z \in W : z.at < y.at /\ z.op = "plan" /\ z.what = y.what
         /\ y.what.pass # 1 =>
              \E z \in W : z.at < y.at /\ z.op = "work" /\ z.what = FagWork(y.what)
    /\ y.op = "work" =>
         /\ IsWork(y.what) /\ WhoOf(y.what) = WhoOf(w)
         /\ y.what # PlanWork(WhoOf(w))
    /\ y.op = "hit" => y.what.who = WhoOf(w) /\ y.what.hit \in Hits

-----------------------------------------------------------------------------
(* What invocations write.                                                 *)

LEMMA WorkParts ==
  /\ \A p : PlanWork(p)[1] = "plan" /\ RefineWork(p)[1] = "refine" /\ DecideWork(p)[1] = "decide"
  /\ \A p : WhoOf(PlanWork(p)) = p /\ WhoOf(RefineWork(p)) = p /\ WhoOf(DecideWork(p)) = p
  /\ \A p, n : ScoreWork(p, n)[1] = "score" /\ WhoOf(ScoreWork(p, n)) = p
  /\ \A q : FagWork(q)[1] = "fag" /\ WhoOf(FagWork(q)) = q.who /\ FagWork(q)[3] = q
BY DEF PlanWork, RefineWork, DecideWork, ScoreWork, FagWork, WhoOf

LEMMA WorkHasPensioner ==
  ASSUME NEW w, IsWork(w)
  PROVE  WhoOf(w) \in Pensioners
BY WorkParts DEF IsWork

LEMMA ScoreWorkIsWork ==
  ASSUME NEW p \in Pensioners, NEW n
  PROVE  /\ IsWork(ScoreWork(p, n)) /\ WhoOf(ScoreWork(p, n)) = p
         /\ ScoreWork(p, n) # PlanWork(p)
BY WorkParts DEF IsWork

LEMMA FagWorkIsWork ==
  ASSUME NEW q, q.who \in Pensioners
  PROVE  /\ IsWork(FagWork(q)) /\ WhoOf(FagWork(q)) = q.who
         /\ \A p : FagWork(q) # PlanWork(p)
BY WorkParts DEF IsWork

(* The planner's plans are its pensioner's, of the first pass.             *)
LEMMA PlannerPlans ==
  ASSUME NEW p, NEW c \in PlannerChoices(p)
  PROVE  /\ c.at \in 1 .. 4 /\ c.plan.who = p /\ c.plan.pass = 1
         /\ c = Choice(c.at, c.plan)
BY DEF PlannerChoices, Choice, Plan

(* The refiner's are, of the second.                                       *)
LEMMA RefinerPlans ==
  ASSUME NEW p, NEW top, NEW c \in Refinements(p, top)
  PROVE  c.at \in Int /\ c.plan.who = p /\ c.plan.pass = 2
<1>1. Len(Surrounding) \in Nat BY PipelineAssumption, LenProperties
<1>2. c \in WiderChoices(p) \/ c \in ReplayChoices(p) BY DEF Refinements
<1>3. CASE c \in WiderChoices(p)
  BY <1>1, <1>3 DEF WiderChoices, SpouseChoice, Choice, Plan
<1>4. CASE c \in ReplayChoices(p)
  BY <1>4 DEF ReplayChoices, SpouseChoice, Choice, Plan
<1>5. QED BY <1>2, <1>3, <1>4

LEMMA PlannerFits ==
  ASSUME NEW p \in Pensioners
  PROVE  Fits(PlannerWrites(p), PlanWork(p))
<1> DEFINE W == PlannerWrites(p)
<1>1. SUFFICES ASSUME NEW c \in PlansFor(p),
                      NEW y \in {Write(2 * c.at - 1, "plan", c.plan), Write(2 * c.at, "note", c.plan),
                                 Write(8 + c.at, "work", FagWork(c.plan))}
               PROVE  /\ y.at \in Int
                      /\ y.op = "plan" =>
                           /\ y.what.who = p
                           /\ y.what.pass = 1 => p \in HasLast /\ \E d \in PlannerChoices(p) : d.plan = y.what
                      /\ y.op = "note" =>
                           /\ \E z \in W : z.at < y.at /\ z.op = "plan" /\ z.what = y.what
                           /\ y.what.pass = 1
                      /\ y.op = "work" =>
                           /\ IsWork(y.what) /\ WhoOf(y.what) = p
                           /\ y.what # PlanWork(p)
                      /\ y.op # "hit"
  BY WorkParts DEF Fits, PlannerWrites
<1>2. /\ c \in PlannerChoices(p) /\ p \in HasLast
      /\ c.at \in 1 .. 4 /\ c.plan.who = p /\ c.plan.pass = 1
  BY PlannerPlans DEF PlansFor
<1>3. Write(2 * c.at - 1, "plan", c.plan) \in W BY DEF PlannerWrites
<1> HIDE DEF W
<1>4. CASE y = Write(2 * c.at - 1, "plan", c.plan) BY <1>2, <1>4 DEF Write
<1>5. CASE y = Write(2 * c.at, "note", c.plan) BY <1>2, <1>3, <1>5 DEF Write
<1>6. CASE y = Write(8 + c.at, "work", FagWork(c.plan))
  BY <1>2, <1>6, FagWorkIsWork DEF Write
<1>7. QED BY <1>4, <1>5, <1>6

LEMMA RefinerFits ==
  ASSUME NEW p \in Pensioners, NEW best
  PROVE  Fits(RefinerWrites(p, best), RefineWork(p))
<1> DEFINE W == RefinerWrites(p, best)
           three(c) == {Write(3 * c.at - 2, "plan", c.plan),
                        Write(3 * c.at - 1, "work", FagWork(c.plan)),
                        Write(3 * c.at, "note", c.plan)}
<1>0. SUFFICES ASSUME W # {} PROVE Fits(W, RefineWork(p)) BY DEF Fits
<1>1. PICK top : W = UNION {three(c) : c \in Refinements(p, top)} BY <1>0 DEF RefinerWrites
<1>2. SUFFICES ASSUME NEW c \in Refinements(p, top), NEW y \in three(c)
               PROVE  /\ y.at \in Int
                      /\ y.op = "plan" => y.what.who = p /\ y.what.pass # 1
                      /\ y.op = "note" =>
                           /\ \E z \in W : z.at < y.at /\ z.op = "plan" /\ z.what = y.what
                           /\ \E z \in W : z.at < y.at /\ z.op = "work" /\ z.what = FagWork(y.what)
                      /\ y.op = "work" =>
                           /\ IsWork(y.what) /\ WhoOf(y.what) = p
                           /\ y.what # PlanWork(p)
                      /\ y.op # "hit"
  BY <1>1, WorkParts DEF Fits
<1>3. c.at \in Int /\ c.plan.who = p /\ c.plan.pass = 2 BY RefinerPlans
<1>4. three(c) \subseteq W BY <1>1
<1> HIDE DEF W
<1>5. CASE y = Write(3 * c.at - 2, "plan", c.plan) BY <1>3, <1>5 DEF Write
<1>6. CASE y = Write(3 * c.at - 1, "work", FagWork(c.plan))
  BY <1>3, <1>6, FagWorkIsWork DEF Write
<1>7. CASE y = Write(3 * c.at, "note", c.plan) BY <1>3, <1>4, <1>7 DEF Write
<1>8. QED BY <1>5, <1>6, <1>7

LEMMA ScraperFits ==
  ASSUME NEW q, q.who \in Pensioners, NEW hits \in SUBSET Hits
  PROVE  Fits(ScraperWrites(q, hits), FagWork(q))
<1>1. /\ WhoOf(FagWork(q)) = q.who /\ IsWork(ScoreWork(q.who, q.pass))
      /\ WhoOf(ScoreWork(q.who, q.pass)) = q.who /\ ScoreWork(q.who, q.pass) # PlanWork(q.who)
  BY WorkParts, ScoreWorkIsWork
<1>2. QED BY <1>1 DEF Fits, ScraperWrites, Write

LEMMA ScorerFits ==
  ASSUME NEW p \in Pensioners, NEW n
  PROVE  Fits(ScorerWrites(p, n), ScoreWork(p, n))
<1>1. /\ WhoOf(ScoreWork(p, n)) = p
      /\ \A v \in {RefineWork(p), DecideWork(p)} : IsWork(v) /\ WhoOf(v) = p /\ v # PlanWork(p)
  BY WorkParts DEF IsWork
<1>2. QED BY <1>1 DEF Fits, ScorerWrites, Write

LEMMA DeciderFits ==
  ASSUME NEW p \in Pensioners
  PROVE  Fits(DeciderWrites(p), DecideWork(p))
BY DEF Fits, DeciderWrites, Write

(* Whatever an invocation writes fits.                                     *)
LEMMA WritesFit ==
  ASSUME NEW w, IsWork(w), NEW W \in Invocations(w)
  PROVE  Fits(W, w)
<1>1. PICK input \in Inputs(w) : W = Writes(w, input) BY DEF Invocations
<1>2. ASSUME NEW p \in Pensioners, w = PlanWork(p) PROVE Fits(W, w)
  BY <1>1, <1>2, PlannerFits, WorkParts DEF Writes, WhoOf
<1>3. ASSUME NEW p \in Pensioners, w = RefineWork(p) PROVE Fits(W, w)
  BY <1>1, <1>3, RefinerFits, WorkParts DEF Writes, WhoOf
<1>4. ASSUME NEW p \in Pensioners, w = DecideWork(p) PROVE Fits(W, w)
  BY <1>1, <1>4, DeciderFits, WorkParts DEF Writes, WhoOf
<1>5. ASSUME NEW p \in Pensioners, NEW n, w = ScoreWork(p, n) PROVE Fits(W, w)
  <2>1. w[1] = "score" /\ w[2] = p /\ w[3] = n BY <1>5 DEF ScoreWork
  <2>2. W = ScorerWrites(p, n) BY <1>1, <2>1 DEF Writes
  <2>3. QED BY <1>5, <2>2, ScorerFits
<1>6. ASSUME NEW q, q.who \in Pensioners, w = FagWork(q) PROVE Fits(W, w)
  <2>1. w[1] = "fag" /\ w[3] = q BY <1>6, WorkParts
  <2>2. W = ScraperWrites(q, input) /\ input \in SUBSET Hits
    BY <1>1, <2>1 DEF Writes, Inputs
  <2>3. QED BY <1>6, <2>2, ScraperFits
<1>7. QED BY <1>2, <1>3, <1>4, <1>5, <1>6 DEF IsWork

(* What a raising invocation leaves behind fits too.                       *)
LEMMA BrokenFits ==
  ASSUME NEW w, IsWork(w), NEW W \in BrokenOff(w)
  PROVE  Fits(W, w)
<1>1. CASE W = {} BY <1>1 DEF Fits
<1>2. CASE W # {}
  <2>1. PICK V \in Invocations(w) : \E x \in V : W = {y \in V : y.at < x.at}
    BY <1>2 DEF BrokenOff
  <2>2. PICK x \in V : W = {y \in V : y.at < x.at} BY <2>1
  <2>3. Fits(V, w) BY WritesFit
  <2>4. x.at \in Int /\ \A y \in V : y.at \in Int BY <2>3 DEF Fits
  <2>5. \A y \in W, z \in V : z.at < y.at => z \in W BY <2>2, <2>4
  <2>6. QED BY <2>2, <2>3, <2>5 DEF Fits
<1>3. QED BY <1>1, <1>2

(* One invocation, gone through or broken off: what it read as ready work, *)
(* what it wrote, and the row its work has then.                           *)
Invokes(w, W, r) ==
  /\ pc = "run" /\ w \in DOMAIN work /\ work[w].state = "ready" /\ Fits(W, w)
  /\ r \in [state : {"ready"} \cup Finished, attempt : Nat, due : BOOLEAN]
  /\ r.state = "succeeded" => W \in Invocations(w)
  /\ Apply(W, w, r)
  /\ UNCHANGED <<pc, remaining, rows, fresh>>

LEMMA InvokeInvokes ==
  ASSUME Typed, Invoke \/ InvokeRaises
  PROVE  \E w, W, r : Invokes(w, W, r)
<1>0. /\ \A w \in DOMAIN work :
           /\ IsWork(w)
           /\ work[w] \in [state : {"ready"} \cup Finished, attempt : Nat, due : BOOLEAN]
      /\ NextWork \subseteq {w \in DOMAIN work : work[w].state = "ready"}
  BY DEF Typed, TypeOK, NextWork, Claimable
<1>1. CASE Invoke
  <2>0. PICK w \in NextWork : \E W \in Invocations(w) :
               Apply(W, w, [state |-> "succeeded", attempt |-> work[w].attempt + 1, due |-> TRUE])
    BY <1>1 DEF Invoke
  <2>1. PICK W \in Invocations(w) :
               Apply(W, w, [state |-> "succeeded", attempt |-> work[w].attempt + 1, due |-> TRUE])
    BY <2>0
  <2> DEFINE r == [state |-> "succeeded", attempt |-> work[w].attempt + 1, due |-> TRUE]
  <2>2. r \in [state : {"ready"} \cup Finished, attempt : Nat, due : BOOLEAN]
    BY <1>0 DEF Finished
  <2>3. Fits(W, w) BY <1>0, WritesFit
  <2> HIDE DEF r
  <2>4. Invokes(w, W, r) BY <1>0, <1>1, <2>1, <2>2, <2>3 DEF Invoke, Invokes, r
  <2>5. QED BY <2>4
<1>2. CASE InvokeRaises
  <2>0. PICK w \in NextWork : \E W \in BrokenOff(w) :
               LET spent == work[w].attempt + 1
               IN Apply(W, w, [state |-> IF spent >= MaxAttempts THEN "terminal" ELSE "ready",
                               attempt |-> spent, due |-> spent >= MaxAttempts])
    BY <1>2 DEF InvokeRaises
  <2> DEFINE spent == work[w].attempt + 1
             r == [state |-> IF spent >= MaxAttempts THEN "terminal" ELSE "ready",
                   attempt |-> spent, due |-> spent >= MaxAttempts]
  <2>1. PICK W \in BrokenOff(w) : Apply(W, w, r) BY <2>0
  <2>2. r \in [state : {"ready"} \cup Finished, attempt : Nat, due : BOOLEAN]
        /\ r.state # "succeeded"
    BY <1>0 DEF Finished
  <2>3. Fits(W, w) BY <1>0, BrokenFits
  <2> HIDE DEF r
  <2>4. Invokes(w, W, r) BY <1>0, <1>2, <2>1, <2>2, <2>3 DEF InvokeRaises, Invokes
  <2>5. QED BY <2>4
<1>3. QED BY <1>1, <1>2

(* Its effect on the tables, as the other lemmas use it.                   *)
LEMMA InvocationEffect ==
  ASSUME NEW w, NEW W, NEW r, Invokes(w, W, r), Typed
  PROVE  /\ WhoOf(w) \in Pensioners
         /\ DOMAIN work' = DOMAIN work \cup Of("work", W)
         /\ \A v \in DOMAIN work' :
              work'[v] = IF v = w THEN r ELSE IF v \in DOMAIN work THEN work[v] ELSE Ready
         /\ plans' = plans \cup Of("plan", W) /\ noted' = noted \cup Of("note", W)
         /\ \A q \in Of("plan", W) :
              /\ q.who = WhoOf(w)
              /\ q.pass = 1 => /\ w = PlanWork(WhoOf(w)) /\ WhoOf(w) \in HasLast
                               /\ \E c \in PlannerChoices(WhoOf(w)) : c.plan = q
         /\ Of("note", W) \subseteq Of("plan", W)
         /\ \A q \in Of("note", W) : q.pass # 1 => FagWork(q) \in Of("work", W)
         /\ \A v \in Of("work", W) : /\ IsWork(v) /\ WhoOf(v) = WhoOf(w)
                                     /\ v # PlanWork(WhoOf(w))
         /\ \A p \in Pensioners : /\ found'[p] \subseteq found[p] \cup Hits
                                  /\ p # WhoOf(w) => found'[p] = found[p]
<1>1. w \in DOMAIN work /\ Fits(W, w) /\ Apply(W, w, r) BY DEF Invokes
<1>2. WhoOf(w) \in Pensioners BY <1>1, WorkHasPensioner DEF Typed
<1>3. /\ DOMAIN work' = DOMAIN work \cup Of("work", W)
      /\ \A v \in DOMAIN work' :
           work'[v] = IF v = w THEN r ELSE IF v \in DOMAIN work THEN work[v] ELSE Ready
      /\ plans' = plans \cup Of("plan", W) /\ noted' = noted \cup Of("note", W)
  BY <1>1 DEF Apply
<1>4. /\ \A q \in Of("plan", W) :
           /\ q.who = WhoOf(w)
           /\ q.pass = 1 => /\ w = PlanWork(WhoOf(w)) /\ WhoOf(w) \in HasLast
                            /\ \E c \in PlannerChoices(WhoOf(w)) : c.plan = q
      /\ Of("note", W) \subseteq Of("plan", W)
      /\ \A v \in Of("work", W) : IsWork(v) /\ WhoOf(v) = WhoOf(w) /\ v # PlanWork(WhoOf(w))
  BY <1>1 DEF Fits, Of
<1>5. \A q \in Of("note", W) : q.pass # 1 => FagWork(q) \in Of("work", W)
  BY <1>1 DEF Fits, Of
<1>6. \A p \in Pensioners : /\ found'[p] \subseteq found[p] \cup Hits
                            /\ p # WhoOf(w) => found'[p] = found[p]
  <2> TAKE p \in Pensioners
  <2>1. found'[p] = found[p] \cup {x.hit : x \in {h \in Of("hit", W) : h.who = p}}
    BY <1>1 DEF Apply
  <2>2. \A h \in Of("hit", W) : h.who = WhoOf(w) /\ h.hit \in Hits BY <1>1 DEF Fits, Of
  <2>3. QED BY <2>1, <2>2
<1>7. QED BY <1>2, <1>3, <1>4, <1>5, <1>6

-----------------------------------------------------------------------------
(* The types.                                                              *)

(* The first of the places is one of them.                                 *)
LEMMA MinIsFirst ==
  ASSUME NEW S \in SUBSET Nat, S # {}
  PROVE  Min(S) \in S
<1>1. PICK x \in S : \A y \in S : ~(<<y, x>> \in OpToRel(<, Nat))
  BY WFMin, NatLessThanWellFounded
<1>2. \A y \in S : ~(y < x) BY <1>1 DEF OpToRel
<1>3. \A y \in S : x <= y BY <1>2
<1>4. QED BY <1>3 DEF Min

LEMMA CurrentWaits ==
  ASSUME remaining \subseteq DOMAIN Batch, remaining # {}
  PROVE  Min(remaining) \in remaining /\ Current = Batch[Min(remaining)] /\ Current \in Pensioners
<1>1. DOMAIN Batch \subseteq Nat BY PipelineAssumption
<1>2. Min(remaining) \in remaining BY <1>1, MinIsFirst
<1>3. QED BY <1>2, PipelineAssumption DEF Current

LEMMA TypedStep ==
  ASSUME Typed, [Next]_vars
  PROVE  Typed'
<1> DEFINE WorkRow == [state : {"ready"} \cup Finished, attempt : Nat, due : BOOLEAN]
           Row == [who : Pensioners, cands : SUBSET Hits]
<1>r. Ready \in WorkRow BY DEF Ready, Finished
<1>1. CASE StartRun
  <2>1. /\ pc' = "next" /\ remaining' \subseteq DOMAIN Batch /\ plans' = {} /\ noted' = {}
        /\ DOMAIN work' = {} /\ rows' = rows /\ fresh' = {}
        /\ \A p \in Pensioners : found'[p] = {}
    BY <1>1 DEF StartRun, Nothing
  <2>2. QED BY <2>1 DEF Typed, TypeOK
<1>2. CASE Ingest
  <2>1. IsWork(PlanWork(Current))
    BY <1>2, CurrentWaits DEF Typed, TypeOK, Ingest, IsWork
  <2>2. /\ DOMAIN work' = DOMAIN work \cup {PlanWork(Current)}
        /\ \A v \in DOMAIN work' : work'[v] = IF v \in DOMAIN work THEN work[v] ELSE Ready
    BY <1>2 DEF Ingest
  <2>3. QED BY <1>2, <1>r, <2>1, <2>2 DEF Ingest, Typed, TypeOK, CompletedIds
<1>3. CASE Invoke \/ InvokeRaises
  <2>1. PICK w, W, r : Invokes(w, W, r) BY <1>3, InvokeInvokes
  <2>2. /\ WhoOf(w) \in Pensioners
        /\ DOMAIN work' = DOMAIN work \cup Of("work", W)
        /\ \A v \in DOMAIN work' :
             work'[v] = IF v = w THEN r ELSE IF v \in DOMAIN work THEN work[v] ELSE Ready
        /\ plans' = plans \cup Of("plan", W) /\ noted' = noted \cup Of("note", W)
        /\ \A q \in Of("plan", W) : q.who = WhoOf(w)
        /\ Of("note", W) \subseteq Of("plan", W)
        /\ \A v \in Of("work", W) : IsWork(v)
        /\ \A p \in Pensioners : found'[p] \subseteq found[p] \cup Hits
    BY <2>1, InvocationEffect
  <2>3. r \in WorkRow /\ UNCHANGED <<pc, remaining, rows, fresh>> BY <2>1 DEF Invokes
  <2>4. \A v \in DOMAIN work' : work'[v] \in WorkRow
    BY <1>r, <2>2, <2>3 DEF Typed, TypeOK
  <2>5. QED BY <2>2, <2>3, <2>4 DEF Typed, TypeOK, CompletedIds
<1>4. CASE BackoffEnds
  <2>1. PICK w \in DOMAIN work : work' = [work EXCEPT ![w].due = TRUE]
    BY <1>4 DEF BackoffEnds
  <2>2. /\ DOMAIN work' = DOMAIN work
        /\ \A v \in DOMAIN work : work'[v] = IF v = w THEN [work[v] EXCEPT !.due = TRUE] ELSE work[v]
    BY <2>1
  <2>3. \A v \in DOMAIN work' : work'[v] \in WorkRow BY <2>2 DEF Typed, TypeOK
  <2>4. QED BY <1>4, <2>2, <2>3 DEF BackoffEnds, Typed, TypeOK, CompletedIds
<1>5. CASE AppendRow
  <2>1. /\ remaining # {} /\ Current \in Pensioners
    BY <1>5, CurrentWaits DEF AppendRow, Typed, TypeOK
  <2>2. RowOf(Current) \in Row /\ RowOf(Current).who = Current
    BY <2>1 DEF RowOf, Typed, TypeOK
  <2>3. /\ rows' \in Seq(Row) /\ Len(rows') = Len(rows) + 1 /\ Len(rows) \in Nat
        /\ DOMAIN rows = 1 .. Len(rows) /\ DOMAIN rows' = 1 .. Len(rows')
        /\ rows'[Len(rows) + 1] = RowOf(Current)
        /\ \A i \in DOMAIN rows : rows'[i] = rows[i]
    <3>1. rows \in Seq(Row) BY DEF Typed, TypeOK
    <3>2. QED BY <1>5, <2>2, <3>1, AppendProperties, LenProperties DEF AppendRow
  <2>4. CompletedIds' = CompletedIds \cup {Current} BY <2>2, <2>3 DEF CompletedIds
  <2>5. QED BY <1>5, <2>3, <2>4 DEF AppendRow, NextPensioner, board, Typed, TypeOK
<1>6. CASE LeaveDeferred
  BY <1>6 DEF LeaveDeferred, NextPensioner, board, Typed, TypeOK, CompletedIds
<1>7. CASE EndRun BY <1>7 DEF EndRun, board, Typed, TypeOK, CompletedIds
<1>8. CASE Crash BY <1>8 DEF Crash, board, Typed, TypeOK, CompletedIds
<1>9. CASE UNCHANGED vars BY <1>9 DEF vars, board, Typed, TypeOK, CompletedIds
<1>10. QED
  BY <1>1, <1>2, <1>3, <1>4, <1>5, <1>6, <1>7, <1>8, <1>9 DEF Next, RunStep

(* Work, plans, observations and rows keep their types, whatever raises or *)
(* dies.                                                                   *)
THEOREM PipelineTypes == Spec => []Typed
<1>1. Init => Typed
  BY EmptySeq DEF Init, Typed, TypeOK, Nothing, CompletedIds
<1>2. Typed /\ [Next]_vars => Typed' BY TypedStep
<1>3. QED BY <1>1, <1>2, PTL DEF Spec

-----------------------------------------------------------------------------
(* One row each, and nothing after it.                                     *)

(* The state file when AppendRow has written a row: it is the last, and of *)
(* one who had none.                                                       *)
LEMMA RowAppended ==
  ASSUME Typed, RowsInv, AppendRow
  PROVE  /\ Current \in Pensioners /\ Current \notin CompletedIds
         /\ RowOf(Current).who = Current
         /\ Len(rows) \in Nat /\ DOMAIN rows = 1 .. Len(rows)
         /\ DOMAIN rows' = 1 .. Len(rows) + 1
         /\ rows'[Len(rows) + 1] = RowOf(Current)
         /\ \A i \in DOMAIN rows : rows'[i] = rows[i] /\ rows[i].who # Current
         /\ CompletedIds' = CompletedIds \cup {Current}
<1>1. Min(remaining) \in remaining /\ Current = Batch[Min(remaining)] /\ Current \in Pensioners
  BY CurrentWaits DEF AppendRow, Typed, TypeOK
<1>2. Current \notin CompletedIds BY <1>1 DEF RowsInv
<1>3. RowOf(Current) \in [who : Pensioners, cands : SUBSET Hits] /\ RowOf(Current).who = Current
  BY <1>1 DEF RowOf, Typed, TypeOK
<1>4. rows \in Seq([who : Pensioners, cands : SUBSET Hits]) BY DEF Typed, TypeOK
<1>5. /\ Len(rows) \in Nat /\ DOMAIN rows = 1 .. Len(rows)
      /\ DOMAIN rows' = 1 .. Len(rows) + 1
      /\ rows'[Len(rows) + 1] = RowOf(Current)
      /\ \A i \in DOMAIN rows : rows'[i] = rows[i]
  BY <1>3, <1>4, AppendProperties, LenProperties DEF AppendRow
<1>6. CompletedIds' = CompletedIds \cup {Current} BY <1>3, <1>5 DEF CompletedIds
<1>7. \A i \in DOMAIN rows : rows[i].who # Current BY <1>2 DEF CompletedIds
<1>8. QED BY <1>1, <1>2, <1>3, <1>5, <1>6, <1>7

LEMMA RowsStep ==
  ASSUME Typed, RowsInv, [Next]_vars
  PROVE  RowsInv'
<1> USE DEF RowsInv
<1>1. CASE StartRun BY <1>1 DEF StartRun, OneRowEach, CompletedIds
<1>2. CASE Ingest BY <1>2 DEF Ingest, OneRowEach, CompletedIds
<1>3. CASE Invoke BY <1>3 DEF Invoke, OneRowEach, CompletedIds
<1>4. CASE InvokeRaises BY <1>4 DEF InvokeRaises, OneRowEach, CompletedIds
<1>5. CASE BackoffEnds BY <1>5 DEF BackoffEnds, OneRowEach, CompletedIds
<1>6. CASE AppendRow
  <2>1. OneRowEach' BY <1>6, RowAppended DEF OneRowEach
  <2>2. \A i \in remaining' : Batch[i] \notin CompletedIds'
    <3>1. remaining' = remaining \ {Min(remaining)} /\ Min(remaining) \in remaining
          /\ Current = Batch[Min(remaining)] /\ remaining \subseteq DOMAIN Batch
      BY <1>6, CurrentWaits DEF AppendRow, NextPensioner, Typed, TypeOK
    <3>2. \A i \in remaining' : Batch[i] # Current BY <3>1, PipelineAssumption
    <3>3. QED BY <1>6, <3>1, <3>2, RowAppended
  <2>3. QED BY <2>1, <2>2
<1>7. CASE LeaveDeferred BY <1>7 DEF LeaveDeferred, NextPensioner, OneRowEach, CompletedIds
<1>8. CASE EndRun BY <1>8 DEF EndRun, OneRowEach, CompletedIds
<1>9. CASE Crash BY <1>9 DEF Crash, OneRowEach, CompletedIds
<1>10. CASE UNCHANGED vars BY <1>10 DEF vars, OneRowEach, CompletedIds
<1>11. QED
  BY <1>1, <1>2, <1>3, <1>4, <1>5, <1>6, <1>7, <1>8, <1>9, <1>10 DEF Next, RunStep

LEMMA FreshStep ==
  ASSUME Typed, RowsInv, FreshInv, [Next]_vars
  PROVE  FreshInv'
<1>1. CASE StartRun BY <1>1 DEF StartRun, FreshInv
<1>2. CASE Ingest
  <2>1. Current \notin CompletedIds /\ WhoOf(PlanWork(Current)) = Current
    BY <1>2, CurrentWaits, WorkParts DEF Ingest, Typed, TypeOK, RowsInv
  <2>2. Current \notin fresh BY <2>1 DEF Typed, TypeOK
  <2>3. QED BY <1>2, <2>1, <2>2 DEF Ingest, FreshInv
<1>3. CASE Invoke \/ InvokeRaises
  <2>1. PICK w, W, r : Invokes(w, W, r) BY <1>3, InvokeInvokes
  <2>2. WhoOf(w) \notin fresh /\ fresh' = fresh BY <2>1 DEF Invokes, FreshInv
  <2>3. /\ DOMAIN work' = DOMAIN work \cup Of("work", W)
        /\ \A v \in DOMAIN work' :
             work'[v] = IF v = w THEN r ELSE IF v \in DOMAIN work THEN work[v] ELSE Ready
        /\ \A v \in Of("work", W) : WhoOf(v) = WhoOf(w)
    BY <2>1, InvocationEffect
  <2>4. QED BY <2>2, <2>3 DEF FreshInv
<1>4. CASE BackoffEnds
  <2>1. \A v \in DOMAIN work' : v \in DOMAIN work /\ work'[v].state = work[v].state
    BY <1>4 DEF BackoffEnds, Typed, TypeOK
  <2>2. QED BY <1>4, <2>1 DEF BackoffEnds, FreshInv
<1>5. CASE AppendRow
  BY <1>5 DEF AppendRow, board, HasPendingWork, FreshInv
<1>6. CASE LeaveDeferred BY <1>6 DEF LeaveDeferred, board, FreshInv
<1>7. CASE EndRun BY <1>7 DEF EndRun, board, FreshInv
<1>8. CASE Crash BY <1>8 DEF Crash, board, FreshInv
<1>9. CASE UNCHANGED vars BY <1>9 DEF vars, board, FreshInv
<1>10. QED
  BY <1>1, <1>2, <1>3, <1>4, <1>5, <1>6, <1>7, <1>8, <1>9 DEF Next, RunStep

LEMMA OvertakenStep ==
  ASSUME Typed, RowsInv, FreshInv, RowIsNotOvertaken, [Next]_vars
  PROVE  RowIsNotOvertaken'
<1>0. ASSUME UNCHANGED <<found, rows, fresh>> PROVE RowIsNotOvertaken'
  BY <1>0 DEF RowIsNotOvertaken, RowOf
<1>1. CASE StartRun BY <1>1 DEF StartRun, RowIsNotOvertaken
<1>2. CASE Ingest \/ BackoffEnds \/ LeaveDeferred \/ EndRun \/ Crash \/ UNCHANGED vars
  BY <1>0, <1>2 DEF Ingest, BackoffEnds, LeaveDeferred, EndRun, Crash, vars, board
<1>3. CASE Invoke \/ InvokeRaises
  <2>1. PICK w, W, r : Invokes(w, W, r) BY <1>3, InvokeInvokes
  <2>2. WhoOf(w) \notin fresh /\ fresh' = fresh /\ rows' = rows
    BY <2>1 DEF Invokes, FreshInv
  <2>3. \A p \in Pensioners : p # WhoOf(w) => found'[p] = found[p]
    BY <2>1, InvocationEffect
  <2>4. \A i \in DOMAIN rows : rows[i].who \in Pensioners
    <3> DEFINE Row == [who : Pensioners, cands : SUBSET Hits]
    <3>1. rows \in Seq(Row) BY DEF Typed, TypeOK
    <3>2. \A row \in Row : row.who \in Pensioners OBVIOUS
    <3> HIDE DEF Row
    <3>3. \A i \in DOMAIN rows : rows[i] \in Row BY <3>1
    <3>4. QED BY <3>2, <3>3
  <2>5. QED BY <2>2, <2>3, <2>4 DEF RowIsNotOvertaken, RowOf
<1>4. CASE AppendRow
  <2>1. UNCHANGED found /\ fresh' = fresh \cup {Current} BY <1>4 DEF AppendRow, board
  <2>2. \A p : RowOf(p)' = RowOf(p) BY <2>1 DEF RowOf
  <2>3. \A i \in DOMAIN rows' : rows'[i].who \in fresh' => rows'[i] = RowOf(rows'[i].who)
    BY <1>4, <2>1, RowAppended DEF RowIsNotOvertaken
  <2>4. QED BY <2>1, <2>3 DEF RowIsNotOvertaken, RowOf
<1>5. QED
  BY <1>1, <1>2, <1>3, <1>4 DEF Next, RunStep

(* However the program dies, is started again, or works off deferred work  *)
(* of one pensioner while another's turn has come, nobody gets a second    *)
(* row (CONTEXT.md L5), and the row written is what the run found.         *)
THEOREM RowsFinal == Spec => []RowsAreFinal
<1>1. Init => RowsInv /\ FreshInv /\ RowIsNotOvertaken
  BY EmptySeq DEF Init, RowsInv, FreshInv, RowIsNotOvertaken, OneRowEach
<1>2. Typed /\ RowsInv /\ FreshInv /\ RowIsNotOvertaken /\ [Next]_vars
        => RowsInv' /\ FreshInv' /\ RowIsNotOvertaken'
  BY RowsStep, FreshStep, OvertakenStep
<1>3. RowsInv /\ RowIsNotOvertaken => RowsAreFinal BY DEF RowsInv, RowsAreFinal
<1>4. QED BY <1>1, <1>2, <1>3, PipelineTypes, PTL DEF Spec

-----------------------------------------------------------------------------
(* What a row says of the searches.                                        *)

(* What was searched or given up stays so, until the blackboard is deleted *)
(* at the next start.                                                      *)
LEMMA SearchedStays ==
  ASSUME Typed, NEW q, Searched(q), plans \subseteq plans',
         \A v \in DOMAIN work : /\ v \in DOMAIN work'
                                /\ work[v].state \in Finished => work'[v] = work[v]
  PROVE  Searched(q)'
<1>1. PICK s \in plans : /\ s.who = q.who /\ s.strategy = q.strategy
                         /\ s.scope \in {q.scope, KeyOf(q)}
                         /\ StateOf(FagWork(s)) \in Finished
  BY DEF Searched
<1>2. StateOf(FagWork(s))' \in Finished BY <1>1 DEF StateOf, Finished
<1>3. QED BY <1>1, <1>2 DEF Searched

(* An invocation keeps rows that are finished.                             *)
LEMMA FinishedStays ==
  ASSUME Typed, NEW w, NEW W, NEW r, Invokes(w, W, r)
  PROVE  /\ plans \subseteq plans'
         /\ \A v \in DOMAIN work : /\ v \in DOMAIN work'
                                   /\ work[v].state \in Finished => work'[v] = work[v]
<1>1. work[w].state \notin Finished BY DEF Invokes, Finished
<1>2. QED BY <1>1, InvocationEffect

(* The planner, gone through, has queued each plan it ever made, or found  *)
(* its place searched.                                                     *)
LEMMA PlannerQueues ==
  ASSUME Typed, SearchInv, NEW w, NEW W, NEW r, Invokes(w, W, r), r.state = "succeeded",
         NEW q \in plans', q.pass = 1, w = PlanWork(q.who)
  PROVE  FagWork(q) \in DOMAIN work' \/ Searched(q)'
<1> DEFINE p == q.who
<1>1. /\ p \in Pensioners /\ WhoOf(w) = p /\ w[1] = "plan" /\ w[2] = p
  <2>1. WhoOf(w) = p /\ w[1] = "plan" BY WorkParts
  <2>2. QED BY <2>1, InvocationEffect DEF WhoOf
<1>2. W = PlannerWrites(p) BY <1>1 DEF Invokes, Invocations, Writes
<1>3. p \in HasLast /\ \E c \in PlannerChoices(p) : c.plan = q
  <2>1. plans' = plans \cup Of("plan", W) BY InvocationEffect
  <2>2. CASE q \in plans BY <2>2 DEF SearchInv
  <2>3. CASE q \in Of("plan", W)
    <3>1. \A s \in Of("plan", W) : s.pass = 1 =>
            WhoOf(w) \in HasLast /\ \E c \in PlannerChoices(WhoOf(w)) : c.plan = s
      BY InvocationEffect
    <3>2. QED BY <1>1, <2>3, <3>1
  <2>4. QED BY <2>1, <2>2, <2>3
<1>4. PICK c \in PlannerChoices(p) : c.plan = q BY <1>3
<1>5. CASE c \in PlansFor(p)
  <2>1. Write(8 + c.at, "work", FagWork(c.plan)) \in W BY <1>2, <1>5 DEF PlannerWrites
  <2>2. FagWork(q) \in Of("work", W) BY <1>4, <2>1 DEF Of, Write
  <2>3. QED BY <2>2, InvocationEffect
<1>6. CASE c \notin PlansFor(p)
  <2>1. AlreadyCompleted(p, q.strategy, KeyOf(q)) BY <1>3, <1>4, <1>6 DEF PlansFor
  <2>2. Searched(q) BY <2>1 DEF AlreadyCompleted, Searched
  <2>3. QED BY <2>2, SearchedStays, FinishedStays
<1>7. QED BY <1>5, <1>6

LEMMA SearchStep ==
  ASSUME Typed, SearchInv, [Next]_vars
  PROVE  SearchInv'
<1> DEFINE Queued(q) == FagWork(q) \in DOMAIN work \/ Searched(q)
<1>0. ASSUME UNCHANGED <<plans, noted>>,
             \A v \in DOMAIN work : /\ v \in DOMAIN work'
                                    /\ work'[v].state = work[v].state,
             \A v \in DOMAIN work' : v \in DOMAIN work \/ work'[v].state = "ready"
      PROVE  SearchInv'
  <2>1. \A q \in plans : Searched(q) => Searched(q)'
    BY <1>0 DEF Searched, StateOf, Finished
  <2>2. \A p : StateOf(PlanWork(p))' = "succeeded" => StateOf(PlanWork(p)) = "succeeded"
    BY <1>0 DEF StateOf
  <2>3. QED BY <1>0, <2>1, <2>2 DEF SearchInv
<1>1. CASE StartRun BY <1>1 DEF StartRun, SearchInv
<1>2. CASE Ingest BY <1>0, <1>2 DEF Ingest, Ready
<1>3. CASE Invoke \/ InvokeRaises
  <2>1. PICK w, W, r : Invokes(w, W, r) BY <1>3, InvokeInvokes
  <2>2. /\ DOMAIN work' = DOMAIN work \cup Of("work", W)
        /\ \A v \in DOMAIN work' :
             work'[v] = IF v = w THEN r ELSE IF v \in DOMAIN work THEN work[v] ELSE Ready
        /\ plans' = plans \cup Of("plan", W) /\ noted' = noted \cup Of("note", W)
        /\ \A q \in Of("plan", W) :
             /\ q.who = WhoOf(w)
             /\ q.pass = 1 => /\ w = PlanWork(WhoOf(w)) /\ WhoOf(w) \in HasLast
                              /\ \E c \in PlannerChoices(WhoOf(w)) : c.plan = q
        /\ \A q \in Of("note", W) : q.pass # 1 => FagWork(q) \in Of("work", W)
    BY <2>1, InvocationEffect
  <2>3. \A q \in noted' : q.pass # 1 => FagWork(q) \in DOMAIN work'
    BY <2>2 DEF SearchInv
  <2>4. ASSUME NEW q \in plans', q.pass = 1
        PROVE  /\ q.who \in HasLast /\ \E c \in PlannerChoices(q.who) : c.plan = q
               /\ StateOf(PlanWork(q.who))' = "succeeded"
                    => FagWork(q) \in DOMAIN work' \/ Searched(q)'
    <3>1. q.who \in HasLast /\ \E c \in PlannerChoices(q.who) : c.plan = q
      BY <2>2, <2>4 DEF SearchInv
    <3>2. SUFFICES ASSUME StateOf(PlanWork(q.who))' = "succeeded"
                   PROVE  FagWork(q) \in DOMAIN work' \/ Searched(q)'
      BY <3>1
    <3>3. CASE w = PlanWork(q.who)
      <4>1. r.state = "succeeded" BY <2>1, <2>2, <3>2, <3>3 DEF StateOf, Invokes
      <4>2. QED BY <2>1, <2>4, <3>3, <4>1, PlannerQueues
    <3>4. CASE w # PlanWork(q.who)
      <4>1. StateOf(PlanWork(q.who)) = "succeeded"
        BY <2>2, <3>2, <3>4 DEF StateOf, Ready
      <4>2. q \in plans BY <2>2, <2>4, <3>4
      <4>3. FagWork(q) \in DOMAIN work \/ Searched(q) BY <2>4, <4>1, <4>2 DEF SearchInv
      <4>4. QED BY <2>1, <2>2, <4>3, SearchedStays, FinishedStays
    <3>5. QED BY <3>3, <3>4
  <2>5. QED BY <2>3, <2>4 DEF SearchInv
<1>4. CASE BackoffEnds
  <2>1. /\ DOMAIN work' = DOMAIN work
        /\ \A v \in DOMAIN work : work'[v].state = work[v].state
    BY <1>4 DEF BackoffEnds, Typed, TypeOK
  <2>2. QED BY <1>0, <1>4, <2>1 DEF BackoffEnds
<1>5. CASE AppendRow \/ LeaveDeferred \/ EndRun \/ Crash \/ UNCHANGED vars
  <2>1. UNCHANGED <<plans, noted, work>>
    BY <1>5 DEF AppendRow, LeaveDeferred, EndRun, Crash, board, vars
  <2>2. QED BY <1>0, <2>1
<1>6. QED
  BY <1>1, <1>2, <1>3, <1>4, <1>5 DEF Next, RunStep

(* A row means searched: once planning went through, each plan of the      *)
(* planner and each the refiner announced was searched or given up, or its *)
(* place was, before the row was written, through all retries of both.     *)
THEOREM RowsMeanSearched == Spec => []RowMeansSearched
<1>1. Init => RowsInv /\ FreshInv /\ SearchInv
  BY EmptySeq DEF Init, RowsInv, FreshInv, SearchInv, OneRowEach
<1>2. Typed /\ RowsInv /\ FreshInv /\ SearchInv /\ [Next]_vars
        => RowsInv' /\ FreshInv' /\ SearchInv'
  BY RowsStep, FreshStep, SearchStep
<1>3. Typed /\ FreshInv /\ SearchInv => RowMeansSearched
  <2> SUFFICES ASSUME Typed, FreshInv, SearchInv, NEW p \in fresh,
                      StateOf(PlanWork(p)) = "succeeded",
                      NEW q \in noted \cup {r \in plans : r.pass = 1}, q.who = p
               PROVE  Searched(q)
    BY DEF RowMeansSearched
  <2>1. q \in plans BY DEF Typed, TypeOK
  <2>2. FagWork(q) \in DOMAIN work \/ Searched(q) BY <2>1 DEF SearchInv
  <2>3. CASE FagWork(q) \in DOMAIN work
    <3>1. WhoOf(FagWork(q)) \in fresh BY WorkParts
    <3>2. work[FagWork(q)].state \in Finished BY <2>3, <3>1 DEF FreshInv, Typed, TypeOK
    <3>3. QED BY <2>1, <2>3, <3>2 DEF Searched, StateOf
  <2>4. QED BY <2>2, <2>3
<1>4. QED BY <1>1, <1>2, <1>3, PipelineTypes, PTL DEF Spec
=============================================================================
