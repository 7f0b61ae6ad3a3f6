---------------------------- MODULE FetchProofs ----------------------------
(***************************************************************************)
(* Proofs about Fetch for any pensioners, candidates, ladder, interval and *)
(* number of visits: types, the spacing of the searches, and that the row  *)
(* of a pensioner holds what its pages have shown.                         *)
(***************************************************************************)
EXTENDS Fetch, SequenceTheorems, TLAPS

(* The ladder shortened by its first strategy is still a ladder.           *)
LEMMA ShorterLadder ==
  ASSUME todo \in Seq(STRING), todo # <<>>
  PROVE  Tail(todo) \in Seq(STRING)
BY HeadTailProperties

(* A clock that ticks stays within its bound.                              *)
LEMMA LaterTyped ==
  ASSUME NEW t \in 0 .. Interval
  PROVE  Later(t) \in 0 .. Interval /\ Later(t) >= t
BY FetchAssumption DEF Later

(* A page is only asked for while there is a strategy to try, and a        *)
(* memorial while another may still be verified.                           *)
PageWanted ==
  /\ pc = "search" => todo # <<>>
  /\ pc = "visit" => matched < MaxVerify

(* The initial state is well typed.                                        *)
LEMMA InitTyped == Init => TypeOK /\ PageWanted
BY FetchAssumption DEF Init, TypeOK, PageWanted

(* Every step keeps the variables typed; the browser is closed by the      *)
(* steps that end the run, and only by them.                               *)
LEMMA StepTyped ==
  TypeOK /\ PageWanted /\ [Next]_vars => TypeOK' /\ PageWanted'
<1> SUFFICES ASSUME TypeOK, PageWanted, [Next]_vars PROVE TypeOK' /\ PageWanted'
  OBVIOUS
<1> USE FetchAssumption DEF TypeOK, PageWanted, work, search, memorials, clocks
<1>1. CASE Tick BY <1>1, LaterTyped DEF Tick
<1>2. CASE Begin BY <1>2 DEF Begin
<1>3. CASE Acquire BY <1>3 DEF Acquire
<1>4. CASE SkipStrategy
  <2>1. todo' \in Seq(STRING) BY <1>4, ShorterLadder DEF SkipStrategy
  <2>2. QED BY <1>4, <2>1 DEF SkipStrategy
<1>5. CASE Navigate BY <1>5 DEF Navigate, Waited
<1>6. CASE Results
  <2>1. todo' \in Seq(STRING) BY <1>6, ShorterLadder DEF Results
  <2>2. found' \subseteq Candidates /\ seen' \subseteq Candidates BY <1>6 DEF Results
  <2>3. QED BY <1>6, <2>1, <2>2 DEF Results
<1>7. CASE NoResults
  <2>1. todo' \in Seq(STRING) /\ found' = found
    BY <1>7, ShorterLadder DEF NoResults, PassOver
  <2>2. page' \in {"open", "closed"} BY <1>7 DEF NoResults
  <2>3. QED BY <1>7, <2>1, <2>2 DEF NoResults
<1>8. CASE Release BY <1>8 DEF Release
<1>9. CASE StartVerify BY <1>9 DEF StartVerify
<1>10. CASE Visit BY <1>10 DEF Visit
<1>11. CASE Visited
  <2>1. page # "none" /\ matched' \in 0 .. MaxVerify BY <1>11 DEF Visited
  <2>2. page' \in {"open", "closed"} BY <1>11, <2>1 DEF Visited
  <2>3. pc' \in {"verify", "row"} /\ UNCHANGED <<work, search, linked, clocks>>
    BY <1>11 DEF Visited
  <2>4. QED BY <2>1, <2>2, <2>3
<1>12. CASE VisitRaises BY <1>12 DEF VisitRaises
<1>13. CASE WriteRow
  <2>1. PICK k \in Kept(board) :
          rows' = [q \in DOMAIN rows \cup {p} |-> IF q = p THEN k ELSE rows[q]]
    BY <1>13 DEF WriteRow
  <2>2. k \subseteq board BY DEF Kept
  <2>3. rows' \in [Pensioners \ left' -> SUBSET Candidates]
    BY <1>13, <2>1, <2>2 DEF WriteRow
  <2>4. QED BY <1>13, <2>3 DEF WriteRow, SpousesDone
<1>14. CASE Close BY <1>14 DEF Close
<1>15. CASE VisitBest BY <1>15 DEF VisitBest, SpousesDone
<1>16. CASE UNCHANGED vars BY <1>16 DEF vars
<1>17. QED
  BY <1>1, <1>2, <1>3, <1>4, <1>5, <1>6, <1>7, <1>8, <1>9, <1>10, <1>11, <1>12,
     <1>13, <1>14, <1>15, <1>16 DEF Next, Step
-----------------------------------------------------------------------------
(* Every variable keeps its type, and the browser is closed exactly when   *)
(* the driver is through, whatever the pages answer (run_batch_scheduler). *)
THEOREM FetchTypes == Spec => []TypeOK
<1>1. Init => TypeOK /\ PageWanted BY InitTyped
<1>2. TypeOK /\ PageWanted /\ [Next]_vars => TypeOK' /\ PageWanted' BY StepTyped
<1>3. QED BY <1>1, <1>2, PTL DEF Spec
-----------------------------------------------------------------------------
(* The gate's clock is never ahead of the last search: every search        *)
(* restarts it.                                                            *)
GateIsBehind == searched >= since

(* The steps that touch a clock are the tick, the search and the release.  *)
LEMMA StepBehind ==
  TypeOK /\ GateIsBehind /\ [Next]_vars => GateIsBehind'
<1> SUFFICES ASSUME TypeOK, GateIsBehind, [Next]_vars PROVE GateIsBehind'
  OBVIOUS
<1> USE FetchAssumption DEF GateIsBehind, work, search, memorials, clocks
<1>1. since \in 0 .. Interval /\ searched \in 0 .. Interval BY DEF TypeOK
<1>2. CASE Tick BY <1>1, <1>2 DEF Tick, Later
<1>3. CASE Navigate BY <1>3 DEF Navigate, Waited
<1>4. CASE Release BY <1>1, <1>4 DEF Release
<1>5. CASE Visit BY <1>5 DEF Visit
<1>6. ASSUME \/ Begin \/ Acquire \/ SkipStrategy \/ Results \/ NoResults
             \/ StartVerify \/ VisitBest \/ Visited \/ VisitRaises
             \/ WriteRow \/ Close
             \/ UNCHANGED vars
      PROVE  UNCHANGED <<since, searched>>
  BY <1>6 DEF Begin, Acquire, SkipStrategy, Results, NoResults, StartVerify,
    VisitBest, Visited, VisitRaises, WriteRow, Close, vars
<1>7. QED BY <1>2, <1>3, <1>4, <1>5, <1>6 DEF Next, Step

(* A search page is asked for by no step but Navigate, and that step waits *)
(* for the gate.                                                           *)
LEMMA SearchWaits ==
  GateIsBehind /\ [Next]_vars =>
    [pc = "ladder" /\ pc' = "search" => searched >= Interval]_vars
<1> SUFFICES ASSUME GateIsBehind, Next, pc = "ladder", pc' = "search"
             PROVE  searched >= Interval
  OBVIOUS
<1>1. Navigate
  BY DEF Next, Step, Tick, Begin, Acquire, SkipStrategy, Results, NoResults,
    Release, StartVerify, Visit, VisitBest, Visited, VisitRaises, WriteRow, Close
<1>2. QED BY <1>1 DEF Navigate, Ready, GateIsBehind

(* From one search page to the next at least min_interval passes, for any  *)
(* interval, ladder and pensioners (RequestGate.acquire, wait and release).*)
THEOREM SearchesKeepTheInterval == Spec => SearchesAreSpaced
<1>1. Init => GateIsBehind BY FetchAssumption DEF Init, GateIsBehind
<1>2. TypeOK /\ GateIsBehind /\ [Next]_vars => GateIsBehind' BY StepBehind
<1>3. GateIsBehind /\ [Next]_vars =>
        [pc = "ladder" /\ pc' = "search" => searched >= Interval]_vars
  BY SearchWaits
<1>4. QED BY <1>1, <1>2, <1>3, FetchTypes, PTL DEF Spec, SearchesAreSpaced
-----------------------------------------------------------------------------
(* What p's pages have shown is on the board, or in the search under way.  *)
SeenIsKept ==
  /\ pc \in {"ladder", "search"} => seen = board \cup found
  /\ pc \in {"item", "verify", "visit", "signals", "row"} => seen = board

(* No step drops a candidate a page has shown: a page that fails leaves    *)
(* those of the other pages where they are.                                *)
LEMMA StepKeeps == SeenIsKept /\ [Next]_vars => SeenIsKept'
<1> SUFFICES ASSUME SeenIsKept, [Next]_vars PROVE SeenIsKept'
  OBVIOUS
<1> USE DEF SeenIsKept, work, search, memorials, clocks
<1>1. CASE Tick BY <1>1 DEF Tick
<1>2. CASE Begin BY <1>2 DEF Begin
<1>3. CASE Acquire BY <1>3 DEF Acquire
<1>4. CASE SkipStrategy BY <1>4 DEF SkipStrategy
<1>5. CASE Navigate BY <1>5 DEF Navigate
<1>6. CASE Results BY <1>6 DEF Results
<1>7. CASE NoResults BY <1>7 DEF NoResults, PassOver
<1>8. CASE Release BY <1>8 DEF Release
<1>9. CASE StartVerify BY <1>9 DEF StartVerify
<1>10. CASE Visit BY <1>10 DEF Visit
<1>11. CASE Visited BY <1>11 DEF Visited
<1>12. CASE VisitRaises BY <1>12 DEF VisitRaises
<1>13. CASE WriteRow BY <1>13 DEF WriteRow, SpousesDone
<1>14. CASE Close BY <1>14 DEF Close
<1>15. CASE VisitBest BY <1>15 DEF VisitBest, SpousesDone
<1>16. CASE UNCHANGED vars BY <1>16 DEF vars
<1>17. QED
  BY <1>1, <1>2, <1>3, <1>4, <1>5, <1>6, <1>7, <1>8, <1>9, <1>10, <1>11, <1>12,
     <1>13, <1>14, <1>15, <1>16 DEF Next, Step

(* What is kept of the candidates of a row is all of them, or the cap.     *)
LEMMA KeptHold ==
  ASSUME NEW cs, NEW k \in Kept(cs)
  PROVE  HoldsTheFound(k, cs)
BY DEF Kept, HoldsTheFound

(* A row is added by no step but WriteRow, which writes the board.         *)
LEMMA RowIsBoard ==
  SeenIsKept /\ [Next]_vars =>
    [\A q \in DOMAIN rows' \ DOMAIN rows : HoldsTheFound(rows'[q], seen)]_vars
<1> SUFFICES ASSUME SeenIsKept, Next, NEW q \in DOMAIN rows' \ DOMAIN rows
             PROVE  HoldsTheFound(rows'[q], seen)
  OBVIOUS
<1>1. WriteRow
  BY DEF Next, Step, Tick, Begin, Acquire, SkipStrategy, Navigate, Results,
    NoResults, Release, StartVerify, Visit, VisitBest, Visited, VisitRaises, Close,
    work
<1>2. PICK k \in Kept(board) :
        rows' = [v \in DOMAIN rows \cup {p} |-> IF v = p THEN k ELSE rows[v]]
  BY <1>1 DEF WriteRow
<1>3. q = p /\ rows'[q] = k BY <1>2
<1>4. seen = board BY <1>1 DEF WriteRow, SpousesDone, SeenIsKept
<1>5. QED BY <1>2, <1>3, <1>4, KeptHold

(* A row holds every candidate a page of its pensioner has shown, or the   *)
(* cap of them when there are more, and none of another's, for any         *)
(* candidates, cap and failures of the pages (default_search_one's         *)
(* continue, the merge of the driver, build_state_row).                    *)
THEOREM RowsHoldWhatWasFound == Spec => NothingFoundIsLost
<1>1. Init => SeenIsKept BY DEF Init, SeenIsKept
<1>2. SeenIsKept /\ [Next]_vars => SeenIsKept' BY StepKeeps
<1>3. SeenIsKept /\ [Next]_vars =>
        [\A q \in DOMAIN rows' \ DOMAIN rows : HoldsTheFound(rows'[q], seen)]_vars
  BY RowIsBoard
<1>4. QED BY <1>1, <1>2, <1>3, PTL DEF Spec, NothingFoundIsLost
=============================================================================
