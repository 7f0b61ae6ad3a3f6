------------------------------- MODULE Review -------------------------------
(***************************************************************************)
(* From the searches of one pensioner to the state row: the plans are      *)
(* searched, the best score of each memorial is kept, memorials are opened *)
(* to check the spouse or the marks of a soldier, scores are discounted    *)
(* for common names, and the row's status is decided                       *)
(* (scripts/pipeline/run_unified.py, scripts/fag/spouse_scrape.py,         *)
(* scripts/blackboard/projector.py).                                       *)
(*                                                                         *)
(* The order of the scheduler and what becomes of work that raises are in  *)
(* Pipeline; here a search may fail for some of its strategies, or for all.*)
(***************************************************************************)
EXTENDS Queries, Sequences, Functions

CONSTANTS
  Memorials,     \* the memorials of Find a Grave that may be found
  Profiles,      \* what a memorial may be, compared with the record
  Records,       \* what a pensioner's record may be
  Outages,       \* bound: strategies that get through when others do not
  Log2,          \* the logarithm of a count, in hundred-thousandths
  MaxVerify,     \* verified memorials per pensioner
  MaxCandidates  \* candidates kept in the row

(* What is known of a record and of a memorial.                            *)
Record ==
  [first : BOOLEAN, middle : {NoMiddle, "initial", "full"}, apostrophe : BOOLEAN,
   nickname : BOOLEAN, spouse : BOOLEAN, regiment : BOOLEAN, widow : BOOLEAN,
   texas : BOOLEAN, origin : STRING, burial : STRING, born : Int, died : Int,
   state : {NoState}]

Profile ==
  [name : STRING, first : FirstLevels, last : LastLevels, middle : MiddleLevels,
   state : STRING, born : Int, died : Int, veteran : BOOLEAN,
   soldiersCemetery : BOOLEAN, threeNames : BOOLEAN, nickname : BOOLEAN,
   spouseName : BOOLEAN, unit : BOOLEAN, linked : BOOLEAN, marks : BOOLEAN,
   spouse : {"same", "sameLast", "none"}]

ASSUME ReviewAssumption ==
  /\ Records \subseteq Record /\ Profiles \subseteq Profile
  /\ IsFiniteSet(Memorials) /\ MaxVerify \in Nat /\ MaxCandidates \in Nat \ {0}
  /\ \A n \in 2 .. Cardinality(Memorials) :
       /\ Log2[n] \in Nat /\ Log2[n] >= 100000
       /\ n <= 13 => Log2[n] <= 370044

VARIABLES
  rec,      \* the pensioner's record
  world,    \* world[m]: the memorial m
  todo,     \* the scopes still to be searched
  answered, \* whether some strategy of every search has worked
  score,    \* candidates_by_id: the score of each memorial found
  found,    \* history: score, before anything is added to it
  at,       \* the step of the review
  tried,    \* memorials the spouse check has been through
  strength, \* the match_strength of those whose spouse matched
  signals,  \* those with the marks of a soldier
  row       \* the state row

vars == <<rec, world, todo, answered, score, found, at, tried, strength,
          signals, row>>

NoRow == [status |-> "none"]
Nothing == [m \in {} |-> 0]

Init ==
  /\ rec \in Records /\ world \in [Memorials -> Profiles]
  /\ todo = Scopes(rec) /\ answered = TRUE
  /\ score = Nothing /\ found = Nothing
  /\ at = "search" /\ tried = {} /\ strength = Nothing /\ signals = {}
  /\ row = NoRow
-----------------------------------------------------------------------------
Higher(a, b) == IF a > b THEN a ELSE b

(* The best score an observation of the memorial has.                      *)
Best(new) ==
  [m \in DOMAIN score \cup DOMAIN new |->
     IF m \notin DOMAIN new THEN score[m]
     ELSE IF m \notin DOMAIN score THEN new[m] ELSE Higher(score[m], new[m])]

(* The record as it is searched for in a state.                            *)
InState(state) == [rec EXCEPT !.state = state]

(* How many of the strategies that work find a memorial.                   *)
Times(scope, working, m) ==
  FoundBy(rec, ScopeState(rec, scope), working, world[m])

Scored(scope, working) ==
  [m \in {c \in Memorials : Times(scope, working, c) > 0} |->
     Converged(Score(InState(ScopeState(rec, scope)), world[m]),
               Times(scope, working, m))]

Strategies == {s[1] : s \in Ladder(rec)}

(* FaGScraperKS: the ladder is run in the plan's scope; a strategy may time*)
(* out or meet a challenge.                                                *)
Search(scope) ==
  /\ at = "search" /\ scope \in todo
  /\ todo' = todo \ {scope}
  /\ \E working \in {Strategies, {}} \cup {{s} : s \in Strategies \cap Outages} :
       /\ score' = Best(Scored(scope, working))
       /\ answered' = (answered /\ working = Strategies)
  /\ at' = IF todo' = {} THEN "spouse" ELSE "search"
  /\ found' = score'
  /\ UNCHANGED <<rec, world, tried, strength, signals, row>>
-----------------------------------------------------------------------------
SpouseScore == 65000
SpouseBoost == 15000

(* compare_spouses.  A first initial is not looked at: the last name alone *)
(* is enough.                                                              *)
Strength(m) ==
  CASE world[m].spouse = "same" -> "strong"
    [] world[m].spouse = "sameLast" -> "medium"
    [] OTHER -> "none"

ToVerify ==
  {m \in DOMAIN score \ tried : score[m] >= SpouseScore}

(* The best first, by the scores of before; the memorial's page may not    *)
(* open.                                                                   *)
VerifySpouse(m) ==
  /\ at = "spouse" /\ rec.spouse /\ Cardinality(DOMAIN strength) < MaxVerify
  /\ m \in ToVerify /\ \A c \in ToVerify : found[c] <= found[m]
  /\ tried' = tried \cup {m}
  /\ \/ /\ Strength(m) # "none"
        /\ strength' = [c \in DOMAIN strength \cup {m} |->
                         IF c = m THEN Strength(m) ELSE strength[c]]
        /\ score' = [score EXCEPT ![m] = Capped(@ + SpouseBoost)]
     \/ UNCHANGED <<strength, score>>
  /\ UNCHANGED <<rec, world, todo, answered, found, at, signals, row>>

SpousesDone ==
  /\ at = "spouse"
  /\ rec.spouse => Cardinality(DOMAIN strength) >= MaxVerify \/ ToVerify = {}
  /\ at' = "signals"
  /\ UNCHANGED <<rec, world, todo, answered, score, found, tried, strength,
                 signals, row>>

(* Without a verified spouse, the page of the best is looked at for the    *)
(* marks of a soldier, if it is neither low nor high.                      *)
ReadSignals ==
  /\ at = "signals" /\ at' = "names"
  /\ IF DOMAIN strength = {} /\ rec.regiment /\ 50000 <= Top(score) /\ Top(score) < 80000
     THEN \E m \in {c \in DOMAIN score : score[c] = Top(score)} :
            \/ /\ world[m].marks /\ signals' = {m}
               /\ score' = [score EXCEPT ![m] = Capped(@ + 8000)]
            \/ UNCHANGED <<signals, score>>
     ELSE UNCHANGED <<signals, score>>
  /\ UNCHANGED <<rec, world, todo, answered, found, tried, strength, row>>

Namesakes(m) == {c \in DOMAIN score : world[c].name = world[m].name}

(* A mutant: verified candidates are discounted for their names too.       *)
CommonToo(m) == Cardinality(Namesakes(m)) >= 2

Common(m) ==
  /\ Cardinality(Namesakes(m)) >= 2
  /\ m \notin DOMAIN strength /\ m \notin signals

(* The score over 1 + 0.03 log2(n), to four decimals.                      *)
Uniqueness(n) == 10000 + (3 * Log2[n] + 500) \div 1000
Discounted(s, n) == ((((s * 10000) \div Uniqueness(n)) + 5) \div 10) * 10

DiscountNames ==
  /\ at = "names" /\ at' = "ties"
  /\ score' = [m \in DOMAIN score |->
                 IF Common(m) THEN Discounted(score[m], Cardinality(Namesakes(m)))
                 ELSE score[m]]
  /\ UNCHANGED <<rec, world, todo, answered, found, tried, strength, signals, row>>

(* The order the candidates are sorted in, whichever of equals comes first.*)
IsRanking(s) ==
  /\ Range(s) = DOMAIN score
  /\ \A i, j \in DOMAIN s : i < j => score[s[i]] >= score[s[j]]
Rankings ==
  {s \in [1 .. Cardinality(DOMAIN score) -> DOMAIN score] : IsRanking(s)}

(* Between two verified at the top, a strong match beats another.          *)
BreakTie ==
  /\ at = "ties" /\ at' = "row"
  /\ \E s \in Rankings :
       IF /\ Len(s) >= 2 /\ {s[1], s[2]} \subseteq DOMAIN strength
          /\ strength[s[1]] = "strong" /\ strength[s[2]] # "strong"
       THEN score' = [score EXCEPT ![s[1]] = Capped(@ + 5000),
                                   ![s[2]] = Higher(@ - 5000, 0)]
       ELSE UNCHANGED score
  /\ UNCHANGED <<rec, world, todo, answered, found, tried, strength, signals, row>>

(* build_state_row.  Nothing tells it of lists that were cut.              *)
BuildRow ==
  /\ at = "row" /\ at' = "done"
  /\ \E s \in Rankings :
       row' = [status |-> Classify(rec, score, FALSE),
               best |-> Top(score),
               ranked |-> IF Len(s) > MaxCandidates THEN SubSeq(s, 1, MaxCandidates) ELSE s,
               spouse |-> DOMAIN strength # {}]
  /\ UNCHANGED <<rec, world, todo, answered, score, found, tried, strength, signals>>

Next ==
  \/ \E scope \in todo : Search(scope)
  \/ \E m \in Memorials : VerifySpouse(m)
  \/ SpousesDone \/ ReadSignals \/ DiscountNames \/ BreakTie \/ BuildRow

Spec == Init /\ [][Next]_vars
-----------------------------------------------------------------------------
(* Every variable keeps its type, and no score passes 1.                   *)
TypeOK ==
  /\ rec \in Records /\ world \in [Memorials -> Profiles]
  /\ DOMAIN score \subseteq Memorials /\ DOMAIN found = DOMAIN score
  /\ \A m \in DOMAIN score : score[m] \in 0 .. One
  /\ DOMAIN strength \subseteq tried /\ tried \subseteq DOMAIN score
  /\ signals \subseteq DOMAIN score /\ todo \subseteq Scopes(rec)

(* A memorial whose dates no veteran of the war (or widow of one) can have *)
(* is never accepted unseen, however many strategies find it and whatever  *)
(* its page says (scoring.py date penalty, engine.py convergence,          *)
(* run_unified.py boosts).                                                 *)
ImpossibleIsNotAccepted ==
  row.status = "auto_accept" =>
    LET m == row.ranked[1]
    IN  Possible(world[m].born, world[m].died, rec.widow)

(* The memorial of the veteran on record: his name, with dates in the      *)
(* window, and linked to the recorded spouse.                              *)
IsHis(m) ==
  /\ world[m].first = "equal" /\ world[m].last = "equal"
  /\ rec.middle = NoMiddle \/ world[m].middle = "equal"
  /\ Possible(world[m].born, world[m].died, FALSE)
  /\ rec.spouse => world[m].linked

(* If all searches were answered, the memorial of a veteran on record,     *)
(* wherever he lies, is in the row unless that is full, and the row is one *)
(* somebody looks at or an accepted one, unless fourteen or more have his  *)
(* name: the discount then takes what a name and dates make below LowScore *)
(* (the ladder, the filters and the planner together, the score, and the   *)
(* discounts).                                                             *)
RecordedManIsSeen ==
  row # NoRow /\ answered /\ rec.first /\ ~rec.widow =>
    \A m \in Memorials : IsHis(m) =>
      /\ m \in Range(row.ranked) \/ Len(row.ranked) = MaxCandidates
      /\ Cardinality(Namesakes(m)) <= 13 => row.status \in {"auto_accept", "needs_review"}

(* If a candidate whose spouse was found to match had the best score, what *)
(* is done to the scores afterwards does not put one above it that had no  *)
(* such match.                                                             *)
VerifiedStaysAhead ==
  row # NoRow /\ row.ranked # <<>> =>
    \A v \in DOMAIN strength :
      (\A c \in DOMAIN found : found[c] <= found[v])
        => \E w \in DOMAIN strength : score[w] = row.best

(* Of two memorials that differ in their names only, the one that agrees   *)
(* better with the record has at least the score, as long as all is        *)
(* answered: the strategies find it as often, and no level outranks a      *)
(* better one.                                                             *)
FirstOrder == <<"other", "sound", "initial", "equal">>
LastOrder == <<"other", "sound", "prefix", "equal">>
NotWorse(a, b, order) ==
  \E i, j \in DOMAIN order : a = order[i] /\ b = order[j] /\ i >= j

BetterNameScoresHigher ==
  answered => \A a, b \in DOMAIN found :
    /\ NotWorse(world[a].first, world[b].first, FirstOrder)
    /\ NotWorse(world[a].last, world[b].last, LastOrder)
    /\ world[a] = [world[b] EXCEPT !.first = world[a].first, !.last = world[a].last,
                                   !.name = world[a].name]
    => found[a] >= found[b]

(* The score orders candidates by what is known of them: the name before   *)
(* the review, a verified spouse through it.                               *)
ScoreKeepsTheOrder == BetterNameScoresHigher /\ VerifiedStaysAhead
=============================================================================
