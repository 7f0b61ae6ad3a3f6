----------------------------- MODULE ReviewProofs -----------------------------
(***************************************************************************)
(* Proofs about Review for any records, any memorials and any outages of   *)
(* the site: types, that a memorial with impossible dates is not accepted, *)
(* that the memorial of a veteran on record is seen, and that the score    *)
(* keeps the order of what is known; and about Learning for any pensioners,*)
(* labels, plans and picks: that the trainer reads the newest decisions,   *)
(* and that what is learnt goes the way they go.                           *)
(***************************************************************************)
EXTENDS
  Reviewing, FiniteSetTheorems, FunctionTheorems, SequenceTheorems, WellFoundedInduction,
  TLAPS

(* How well a name agrees, by the orders of BetterNameScoresHigher.        *)
Alike(a, b) ==
  /\ NotWorse(a.first, b.first, FirstOrder)
  /\ NotWorse(a.last, b.last, LastOrder)
  /\ a = [b EXCEPT !.first = a.first, !.last = a.last, !.name = a.name]

(* Nothing has been done to the scores before the searches are through.    *)
SearchInv ==
  /\ at = "search" => /\ found = score /\ row = NoRow
                      /\ strength = Nothing /\ tried = {} /\ signals = {}
  /\ at # "search" => todo = {}

Unlikely == 50000

(* With impossible dates a score stays too low for its page to be opened.  *)
ImpossibleInv ==
  \A m \in DOMAIN score :
    ~Possible(world[m].born, world[m].died, rec.widow) =>
      score[m] < Unlikely /\ m \notin DOMAIN strength

(* What the name and the dates of the veteran on record make at the least, *)
(* and what the discount leaves of it, if not too many have his name.      *)
HisScore == 44500
Few(m) == Cardinality(Namesakes(m)) <= 13
Seen(m) ==
  /\ m \in DOMAIN score
  /\ IF at \in {"ties", "row", "done"} THEN Few(m) => score[m] >= LowScore
     ELSE score[m] >= HisScore

(* The search of the whole country finds him.                              *)
SeenInv ==
  answered /\ ~rec.widow /\ Everywhere \notin todo =>
    \A m \in Memorials : IsHis(m) => Seen(m)

OrderInv ==
  answered => \A a, b \in Memorials :
    Alike(world[a], world[b]) /\ b \in DOMAIN found =>
      a \in DOMAIN found /\ found[a] >= found[b]

(* A verified candidate has at least the score it was opened for, and what *)
(* is done to the others puts none of them above both that and what they   *)
(* had.                                                                    *)
Bar(m) == Higher(found[m], SpouseScore)
VerifiedInv ==
  at # "search" =>
    /\ \A v \in DOMAIN strength :
         score[v] >= (IF at \in {"row", "done"} THEN SpouseScore - 5000 ELSE Bar(v))
    /\ at = "spouse" =>
         /\ signals = {}
         /\ \A c \in DOMAIN score \ DOMAIN strength : score[c] = found[c]
    /\ DOMAIN strength # {} => signals = {}
    /\ DOMAIN strength # {} /\ at \in {"signals", "names", "ties"} =>
         \A c \in DOMAIN score \ DOMAIN strength : score[c] <= Bar(c)

(* If the best of those found is verified, some verified one is still the  *)
(* best when the row is built.                                             *)
LeadInv ==
  at \in {"row", "done"} =>
    \A v \in DOMAIN strength :
      (\A c \in DOMAIN found : found[c] <= found[v])
        => \E w \in DOMAIN strength : \A c \in DOMAIN score : score[c] <= score[w]

(* The row is built from the scores there are.                             *)
RowInv ==
  /\ at # "done" => row = NoRow
  /\ at = "done" => ImpossibleIsNotAccepted /\ RecordedManIsSeen /\ VerifiedStaysAhead
-----------------------------------------------------------------------------
(* The score.                                                              *)

(* The parts of the score that the name decides.                           *)
LEMMA NameParts ==
  ASSUME NEW r, NEW m
  PROVE  /\ LastScore(m) \in {0, 50, 70, 100}
         /\ FirstScore(r, m) \in {0, 30, 40, 60, 100}
         /\ MiddleScore(r, m) \in {0, 50, 100}
         /\ MaidenScore(r, m) \in {0, 100} /\ (~r.widow => MaidenScore(r, m) = 0)
         /\ WidowScore(r, m) \in 0 .. 50 /\ (~r.widow => WidowScore(r, m) = 0)
<1>1. LastScore(m) \in {0, 50, 70, 100} BY DEF LastScore
<1>2. FirstScore(r, m) \in {0, 30, 40, 60, 100} BY DEF FirstScore
<1>3. MiddleScore(r, m) \in {0, 50, 100} BY DEF MiddleScore
<1>4. MaidenScore(r, m) \in {0, 100} /\ (~r.widow => MaidenScore(r, m) = 0)
  BY DEF MaidenScore
<1>5. WidowScore(r, m) \in 0 .. 50 /\ (~r.widow => WidowScore(r, m) = 0)
  BY <1>2 DEF WidowScore
<1>6. QED BY <1>1, <1>2, <1>3, <1>4, <1>5

(* Those it does not.                                                      *)
LEMMA OtherParts ==
  ASSUME NEW r, NEW m
  PROVE  /\ BurialScore(m) \in {0, 20, 30}
         /\ StateScore(r, m) \in {0, 10} /\ StateBias(r, m) \in {0, 500}
         /\ StateScore(r, m) = 0 \/ StateBias(r, m) = 0
         /\ VeteranScore(r, m) \in {0, 80} /\ (r.widow => VeteranScore(r, m) = 0)
         /\ DeathScore(r, m) \in 0 .. 50
<1>1. BurialScore(m) \in {0, 20, 30} BY DEF BurialScore
<1>2. /\ StateScore(r, m) \in {0, 10} /\ StateBias(r, m) \in {0, 500}
      /\ StateScore(r, m) = 0 \/ StateBias(r, m) = 0
  BY DEF StateScore, StateBias
<1>3. VeteranScore(r, m) \in {0, 80} /\ (r.widow => VeteranScore(r, m) = 0)
  BY DEF VeteranScore
<1>4. DeathScore(r, m) \in 0 .. 50
  <2>1. \A y : ByDistance(y) \in 0 .. 50 BY DEF ByDistance
  <2>2. \A y : AfterTheSoldier(y) \in 0 .. 50 BY DEF AfterTheSoldier
  <2>3. \A a, b \in 0 .. 50 : Larger(a, b) \in 0 .. 50 BY DEF Larger
  <2>4. QED BY <2>1, <2>2, <2>3 DEF DeathScore
<1>5. QED BY <1>1, <1>2, <1>3, <1>4

LEMMA WeightedBound ==
  ASSUME NEW r, NEW m
  PROVE  Weighted(r, m) \in Nat /\ Weighted(r, m) <= 9200
<1> DEFINE last == LastScore(m)
           first == FirstScore(r, m)
           middle == MiddleScore(r, m)
           burial == BurialScore(m)
           state == StateScore(r, m)
           veteran == VeteranScore(r, m)
           widow == WidowScore(r, m)
           death == DeathScore(r, m)
           maiden == MaidenScore(r, m)
           bias == StateBias(r, m)
<1>1. /\ last \in 0 .. 100 /\ first \in 0 .. 100 /\ middle \in 0 .. 100
      /\ burial \in 0 .. 30 /\ state \in 0 .. 10 /\ death \in 0 .. 50
      /\ 0 <= bias /\ bias <= 500 /\ bias \in Int /\ maiden \in 0 .. 100
  BY NameParts, OtherParts
<1>2. veteran \in 0 .. 80 /\ widow \in 0 .. 50 /\ maiden \in 0 .. 100
      /\ (veteran = 0 \/ (widow = 0 /\ maiden = 0))
  BY NameParts, OtherParts
<1>3. Weighted(r, m) = 22 * last + 17 * first + 11 * middle + 15 * burial + 5 * state
                        + 18 * veteran + 18 * widow + 22 * death + 12 * maiden + bias
  BY DEF Weighted
<1> HIDE DEF last, first, middle, burial, state, veteran, widow, death, maiden, bias
<1> DEFINE name == 22 * last + 17 * first + 11 * middle
           place == 15 * burial + 5 * state + bias
           rest == 18 * veteran + 18 * widow + 22 * death + 12 * maiden
<1>4. name \in Nat /\ name <= 5000 BY <1>1
<1>5. place \in Nat /\ place <= 1000 BY <1>1
<1>6. rest \in Nat /\ rest <= 3200
  <2>1. CASE veteran = 0 BY <1>1, <1>2, <2>1
  <2>2. CASE widow = 0 /\ maiden = 0 BY <1>1, <1>2, <2>2
  <2>3. QED BY <1>2, <2>1, <2>2
<1>7. Weighted(r, m) = name + place + rest BY <1>1, <1>2, <1>3
<1> HIDE DEF name, place, rest
<1>8. QED BY <1>4, <1>5, <1>6, <1>7

(* No score passes 1, and one with impossible dates comes to three tenths  *)
(* of that.                                                                *)
LEMMA ScoreBound ==
  ASSUME NEW r, NEW m
  PROVE  /\ Score(r, m) \in Nat /\ Score(r, m) <= One
         /\ ~Possible(m.born, m.died, r.widow) => Score(r, m) <= 27600
<1> DEFINE w == Weighted(r, m)
           p == Penalty(r, m)
<1>1. w \in Nat /\ w <= 9200 BY WeightedBound
<1>2. p = 3 \/ (p = 10 /\ Possible(m.born, m.died, r.widow)) BY DEF Penalty
<1>3. Score(r, m) = p * w BY DEF Score
<1> HIDE DEF w, p
<1>4. p = 3 => Score(r, m) \in Nat /\ Score(r, m) <= 27600 BY <1>1, <1>3
<1>5. p = 10 => Score(r, m) \in Nat /\ Score(r, m) <= 92000 BY <1>1, <1>3
<1>6. QED BY <1>2, <1>4, <1>5 DEF One

(* The bonus for each further strategy: it never lowers a score, keeps the *)
(* order, and fourteen strategies raise it by at most thirteen twentieths. *)
LEMMA ConvergedBounds ==
  ASSUME NEW s \in Nat, s <= One, NEW n \in Nat, n <= 14
  PROVE  /\ Converged(s, n) \in Nat
         /\ s <= Converged(s, n)
         /\ Converged(s, n) <= One
         /\ s <= 27600 => Converged(s, n) < Unlikely
<1>1. CASE n <= 1 BY <1>1 DEF Converged, One, Unlikely
<1>2. CASE n > 1
  <2> DEFINE x == s * (20 + n - 1)
  <2>1. x \in Nat /\ x >= 20 * s /\ x <= s * 33
    <3>1. 20 + n - 1 \in 20 .. 33 BY <1>2
    <3>2. QED BY <3>1
  <2>2. Converged(s, n) = Capped(x \div 20) BY <1>2 DEF Converged
  <2> HIDE DEF x
  <2>3. (x \div 20) \in Nat /\ x \div 20 >= s /\ 20 * (x \div 20) <= s * 33
    BY <2>1
  <2>4. QED BY <2>2, <2>3 DEF Capped, One, Unlikely
<1>3. QED BY <1>1, <1>2

LEMMA ConvergedMonotone ==
  ASSUME NEW s \in Nat, NEW t \in Nat, s <= t, t <= One,
         NEW n \in Nat, NEW k \in Nat, n <= k, k <= 14
  PROVE  Converged(s, n) <= Converged(t, k)
<1>0. One \in Nat BY DEF One
<1>3. Converged(t, k) \in Nat /\ t <= Converged(t, k) BY ConvergedBounds
<1>1. CASE n <= 1
  <2>1. Converged(s, n) = s BY <1>1 DEF Converged
  <2> DEFINE c == Converged(t, k)
  <2>2. c \in Nat /\ t <= c BY <1>3
  <2> HIDE DEF c
  <2>3. s <= c BY <2>2
  <2>4. QED BY <2>1, <2>3 DEF c
<1>2. CASE n > 1
  <2> DEFINE x == s * (20 + n - 1)
             y == t * (20 + k - 1)
  <2>1. x \in Nat /\ y \in Nat /\ x <= y
    <3> DEFINE a == 20 + n - 1
               b == 20 + k - 1
    <3>1. a \in Nat /\ b \in Nat /\ a <= b BY <1>2
    <3> HIDE DEF a, b
    <3>2. s * a <= t * a /\ s * a \in Nat BY <3>1
    <3>3. t * a <= t * b /\ t * b \in Nat BY <3>1
    <3> DEFINE sa == s * a
               ta == t * a
               tb == t * b
    <3>4. sa <= ta /\ sa \in Nat /\ ta <= tb /\ tb \in Nat /\ ta \in Nat
      BY <3>1, <3>2, <3>3
    <3>5. x = sa /\ y = tb BY DEF a, b
    <3> HIDE DEF x, y, sa, ta, tb
    <3>6. QED BY <3>4, <3>5
  <2>2. Converged(s, n) = Capped(x \div 20) /\ Converged(t, k) = Capped(y \div 20)
    BY <1>2 DEF Converged
  <2> HIDE DEF x, y
  <2>3. x \div 20 <= y \div 20 /\ x \div 20 \in Nat /\ y \div 20 \in Nat BY <2>1
  <2>4. QED BY <1>0, <2>2, <2>3 DEF Capped
<1>4. QED BY <1>1, <1>2
-----------------------------------------------------------------------------
(* Two memorials that differ in their names only.                          *)

LEMMA AlikeFields ==
  ASSUME NEW a \in Profile, NEW b \in Profile, Alike(a, b)
  PROVE  /\ a.middle = b.middle /\ a.state = b.state
         /\ a.born = b.born /\ a.died = b.died /\ a.veteran = b.veteran
         /\ a.soldiersCemetery = b.soldiersCemetery /\ a.threeNames = b.threeNames
         /\ a.nickname = b.nickname /\ a.spouseName = b.spouseName
         /\ a.unit = b.unit /\ a.linked = b.linked
BY DEF Alike, Profile

LEMMA AlikeNames ==
  ASSUME NEW a, NEW b, Alike(a, b)
  PROVE  /\ a.first \in {"other", "sound", "initial", "equal"}
         /\ b.first \in {"other", "sound", "initial", "equal"}
         /\ b.first = "equal" => a.first = "equal"
         /\ b.first = "initial" => a.first \in {"initial", "equal"}
         /\ b.first = "sound" => a.first \in {"sound", "initial", "equal"}
         /\ a.last \in {"other", "sound", "prefix", "equal"}
         /\ b.last \in {"other", "sound", "prefix", "equal"}
         /\ b.last = "equal" => a.last = "equal"
         /\ b.last = "prefix" => a.last \in {"prefix", "equal"}
         /\ b.last = "sound" => a.last \in {"sound", "prefix", "equal"}
<1>1. NotWorse(a.first, b.first, FirstOrder) /\ NotWorse(a.last, b.last, LastOrder)
  BY DEF Alike
<1>2. DOMAIN FirstOrder = 1 .. 4 /\ DOMAIN LastOrder = 1 .. 4 BY DEF FirstOrder, LastOrder
<1>3. /\ FirstOrder[1] = "other" /\ FirstOrder[2] = "sound"
      /\ FirstOrder[3] = "initial" /\ FirstOrder[4] = "equal"
  BY DEF FirstOrder
<1>4. /\ LastOrder[1] = "other" /\ LastOrder[2] = "sound"
      /\ LastOrder[3] = "prefix" /\ LastOrder[4] = "equal"
  BY DEF LastOrder
<1>5. PICK i, j \in 1 .. 4 : a.first = FirstOrder[i] /\ b.first = FirstOrder[j] /\ i >= j
  BY <1>1, <1>2 DEF NotWorse
<1>6. PICK k, l \in 1 .. 4 : a.last = LastOrder[k] /\ b.last = LastOrder[l] /\ k >= l
  BY <1>1, <1>2 DEF NotWorse
<1>7. (i = 1 \/ i = 2 \/ i = 3 \/ i = 4) /\ (j = 1 \/ j = 2 \/ j = 3 \/ j = 4)
  OBVIOUS
<1>8. (k = 1 \/ k = 2 \/ k = 3 \/ k = 4) /\ (l = 1 \/ l = 2 \/ l = 3 \/ l = 4)
  OBVIOUS
<1>9. QED BY <1>3, <1>4, <1>5, <1>6, <1>7, <1>8

(* No level of a name scores below a worse one.                            *)
LEMMA ScoreMonotone ==
  ASSUME NEW r, NEW a \in Profile, NEW b \in Profile, Alike(a, b)
  PROVE  Score(r, b) <= Score(r, a)
<1>1. LastScore(b) <= LastScore(a) BY AlikeNames DEF LastScore
<1>2. FirstScore(r, b) <= FirstScore(r, a) BY AlikeNames DEF FirstScore
<1>3. /\ MiddleScore(r, a) = MiddleScore(r, b) /\ BurialScore(a) = BurialScore(b)
      /\ StateScore(r, a) = StateScore(r, b) /\ StateBias(r, a) = StateBias(r, b)
      /\ VeteranScore(r, a) = VeteranScore(r, b) /\ DeathScore(r, a) = DeathScore(r, b)
      /\ Penalty(r, a) = Penalty(r, b)
  <2>1. MiddleScore(r, a) = MiddleScore(r, b) BY AlikeFields DEF MiddleScore
  <2>2. BurialScore(a) = BurialScore(b) BY AlikeFields DEF BurialScore
  <2>3. StateScore(r, a) = StateScore(r, b) /\ StateBias(r, a) = StateBias(r, b)
    BY AlikeFields DEF StateScore, StateBias
  <2>4. VeteranScore(r, a) = VeteranScore(r, b) BY AlikeFields DEF VeteranScore
  <2>5. DeathScore(r, a) = DeathScore(r, b)
    <3>1. a.died = b.died BY AlikeFields
    <3>2. QED BY <3>1, Zenon DEF DeathScore
  <2>6. Penalty(r, a) = Penalty(r, b) BY AlikeFields DEF Penalty
  <2>7. QED BY <2>1, <2>2, <2>3, <2>4, <2>5, <2>6
<1>4. WidowScore(r, b) <= WidowScore(r, a)
  BY <1>2, NameParts DEF WidowScore
<1>5. MaidenScore(r, b) <= MaidenScore(r, a)
  <2>1. LastScore(a) \in Int /\ LastScore(b) \in Int
        /\ FirstScore(r, a) \in Int /\ FirstScore(r, b) \in Int
    BY NameParts
  <2>2. QED BY <1>1, <1>2, <2>1, AlikeFields DEF MaidenScore
<1> DEFINE lasta == LastScore(a)          lastb == LastScore(b)
           firsta == FirstScore(r, a)     firstb == FirstScore(r, b)
           widowa == WidowScore(r, a)     widowb == WidowScore(r, b)
           maidena == MaidenScore(r, a)   maidenb == MaidenScore(r, b)
           middle == MiddleScore(r, a)
           veteran == VeteranScore(r, a)
           death == DeathScore(r, a)
           bias == StateBias(r, a)
           burial == BurialScore(a)
           state == StateScore(r, a)
<1>6. /\ lasta \in Nat /\ lastb \in Nat /\ firsta \in Nat /\ firstb \in Nat
      /\ widowa \in Nat /\ widowb \in Nat /\ maidena \in Nat /\ maidenb \in Nat
      /\ middle \in Nat /\ burial \in Nat /\ state \in Nat
      /\ veteran \in Nat /\ death \in Nat /\ bias \in Nat
  BY NameParts, OtherParts
<1>7. /\ Weighted(r, a) = 22 * lasta + 17 * firsta + 11 * middle + 15 * burial + 5 * state
             + 18 * veteran + 18 * widowa + 22 * death + 12 * maidena + bias
      /\ Weighted(r, b) = 22 * lastb + 17 * firstb + 11 * middle + 15 * burial + 5 * state
             + 18 * veteran + 18 * widowb + 22 * death + 12 * maidenb + bias
  BY <1>3 DEF Weighted
<1>8. lastb <= lasta /\ firstb <= firsta /\ widowb <= widowa /\ maidenb <= maidena
  BY <1>1, <1>2, <1>4, <1>5
<1> HIDE DEF lasta, lastb, firsta, firstb, widowa, widowb, maidena, maidenb, middle,
             veteran, death, bias, burial, state
<1>9. Weighted(r, b) <= Weighted(r, a) BY <1>6, <1>7, <1>8
<1> DEFINE p == Penalty(r, a)
           wa == Weighted(r, a)
           wb == Weighted(r, b)
<1>10. Score(r, a) = p * wa /\ Score(r, b) = p * wb BY <1>3 DEF Score
<1>11. p \in {3, 10} /\ wa \in Nat /\ wb \in Nat BY WeightedBound DEF Penalty
<1>12. wb <= wa BY <1>9
<1> HIDE DEF p, wa, wb
<1>13. QED BY <1>10, <1>11, <1>12
-----------------------------------------------------------------------------
(* The ladder.                                                             *)

(* Fourteen strategies at the most.                                        *)
LEMMA LadderSize ==
  ASSUME NEW r
  PROVE  IsFiniteSet(Ladder(r)) /\ Cardinality(Ladder(r)) <= 14
<1> DEFINE q1 == <<"B4-fuzzy-last", FuzzyLast(r)>>
           q2 == <<"F4-follow-up", FollowUp(r)>>
           q3 == <<"B1-exact", Exact(r)>>
           q4 == <<"B3-first-initial-fuzzy", FirstInitialFuzzy>>
           q5 == <<"C1-cw-context", Veteran>>
           q6 == <<"B2-middle-initial", MiddleInitial>>
           q7 == <<"B5-apostrophe", NoApostrophe>>
           q8 == <<"B10-pre1851-tight", Pre1851(r)>>
           q9 == <<"F1a-birthyear-exact", BirthYear(r)>>
           q10 == <<"F1b-deathyear", DeathYear(r)>>
           q11 == <<"F1c-year-sniper", YearSniper(r)>>
           q12 == <<"F1d-year-window", YearWindow(r)>>
           q13 == <<"F2-regiment-bio", RegimentBio>>
           q14 == <<"F3-nickname", Nickname(r)>>
           All == {q1, q2, q3, q4, q5, q6, q7, q8, q9, q10, q11, q12, q13, q14}
<1>1. Ladder(r) \subseteq All BY DEF Ladder
<1> HIDE DEF q1, q2, q3, q4, q5, q6, q7, q8, q9, q10, q11, q12, q13, q14
<1> DEFINE f == <<q1, q2, q3, q4, q5, q6, q7, q8, q9, q10, q11, q12, q13, q14>>
<1>2. DOMAIN f = 1 .. 14 /\ \A i \in 1 .. 14 : f[i] \in All OBVIOUS
<1>3. \A q \in All : \E i \in 1 .. 14 : f[i] = q
  <2>1. /\ f[1] = q1 /\ f[2] = q2 /\ f[3] = q3 /\ f[4] = q4 /\ f[5] = q5
        /\ f[6] = q6 /\ f[7] = q7 /\ f[8] = q8 /\ f[9] = q9 /\ f[10] = q10
        /\ f[11] = q11 /\ f[12] = q12 /\ f[13] = q13 /\ f[14] = q14
    OBVIOUS
  <2> HIDE DEF f
  <2>2. QED BY <2>1
<1>4. f \in [1 .. 14 -> All]
  <2>1. f = [i \in 1 .. 14 |-> f[i]] OBVIOUS
  <2> HIDE DEF f, All
  <2>2. QED BY <1>2, <2>1
<1>5. f \in Surjection(1 .. 14, All)
  <2> HIDE DEF f, All
  <2>1. QED BY <1>3, <1>4 DEF Surjection
<1> HIDE DEF f, All
<1>6. IsFiniteSet(1 .. 14) /\ Cardinality(1 .. 14) = 14
  <2>1. \A n \in Nat : n >= 1 => IsFiniteSet(1 .. n) /\ Cardinality(1 .. n) = n
    BY FS_Interval
  <2>2. 14 \in Nat /\ 14 >= 1 OBVIOUS
  <2>3. QED BY <2>1, <2>2, Zenon
<1>7. IsFiniteSet(All) /\ Cardinality(All) <= 14 BY <1>5, <1>6, FS_Surjection
<1>8. /\ IsFiniteSet(Ladder(r)) /\ Cardinality(Ladder(r)) <= Cardinality(All)
  BY <1>1, <1>7, FS_Subset
<1>9. Cardinality(Ladder(r)) \in Nat /\ Cardinality(All) \in Nat
  BY <1>7, <1>8, FS_CardinalityType
<1>10. QED BY <1>7, <1>8, <1>9

(* What a strategy of the ladder asks about the names.                     *)
LEMMA LadderQueries ==
  ASSUME NEW r, NEW s \in Ladder(r)
  PROVE  /\ s[2].first \in {"any", "exact", "initial", "nickname"}
         /\ s[2].last \in {"exact", "fuzzy", "spouse"}
         /\ DOMAIN s[2] = DOMAIN Ask
<1> USE DEF Ask, Named, Full
<1>1. /\ FuzzyLast(r).first = "any" /\ FuzzyLast(r).last = "fuzzy"
      /\ FollowUp(r).first = "any" /\ FollowUp(r).last = "exact"
  BY DEF FuzzyLast, FollowUp
<1>2. /\ Exact(r).first = "exact" /\ Exact(r).last = "exact"
      /\ FirstInitialFuzzy.first = "initial" /\ FirstInitialFuzzy.last = "fuzzy"
      /\ Veteran.first = "exact" /\ Veteran.last = "exact"
      /\ MiddleInitial.first = "exact" /\ MiddleInitial.last = "exact"
      /\ NoApostrophe.first = "exact" /\ NoApostrophe.last = "fuzzy"
  BY DEF Exact, FirstInitialFuzzy, Veteran, MiddleInitial, NoApostrophe
<1>3. /\ Pre1851(r).first = "exact" /\ Pre1851(r).last = "exact"
      /\ BirthYear(r).first = "exact" /\ BirthYear(r).last = "exact"
      /\ DeathYear(r).first = "exact" /\ DeathYear(r).last = "exact"
      /\ YearSniper(r).first = "exact" /\ YearSniper(r).last = "exact"
      /\ YearWindow(r).first = "exact" /\ YearWindow(r).last = "fuzzy"
  BY DEF Pre1851, BirthYear, DeathYear, YearSniper, YearWindow
<1>4. /\ RegimentBio.first = "exact" /\ RegimentBio.last = "exact"
      /\ Nickname(r).first \in {"exact", "nickname"}
      /\ Nickname(r).last \in {"exact", "spouse"}
  BY DEF RegimentBio, Veteran, Nickname
<1>5. s[2] \in {FuzzyLast(r), FollowUp(r), Exact(r), FirstInitialFuzzy, Veteran,
                MiddleInitial, NoApostrophe, Pre1851(r), BirthYear(r), DeathYear(r),
                YearSniper(r), YearWindow(r), RegimentBio, Nickname(r)}
  BY DEF Ladder
<1>6. DOMAIN s[2] = DOMAIN Ask
  <2>1. /\ DOMAIN FuzzyLast(r) = DOMAIN Ask /\ DOMAIN FollowUp(r) = DOMAIN Ask
        /\ DOMAIN Exact(r) = DOMAIN Ask /\ DOMAIN FirstInitialFuzzy = DOMAIN Ask
        /\ DOMAIN Veteran = DOMAIN Ask /\ DOMAIN MiddleInitial = DOMAIN Ask
        /\ DOMAIN NoApostrophe = DOMAIN Ask /\ DOMAIN RegimentBio = DOMAIN Ask
    BY DEF FuzzyLast, FollowUp, Exact, FirstInitialFuzzy, Veteran, MiddleInitial,
           NoApostrophe, RegimentBio
  <2>2. /\ DOMAIN Pre1851(r) = DOMAIN Ask /\ DOMAIN BirthYear(r) = DOMAIN Ask
        /\ DOMAIN DeathYear(r) = DOMAIN Ask /\ DOMAIN YearSniper(r) = DOMAIN Ask
        /\ DOMAIN YearWindow(r) = DOMAIN Ask /\ DOMAIN Nickname(r) = DOMAIN Ask
    BY DEF Pre1851, BirthYear, DeathYear, YearSniper, YearWindow, Nickname
  <2>3. QED BY <1>5, <2>1, <2>2
<1>7. QED BY <1>1, <1>2, <1>3, <1>4, <1>5, <1>6

LEMMA FoundBound ==
  ASSUME NEW r, NEW state, NEW working, NEW m
  PROVE  FoundBy(r, state, working, m) \in Nat /\ FoundBy(r, state, working, m) <= 14
<1> DEFINE S == {s \in Ladder(r) : s[1] \in working /\ Matches(Filtered(s[2], r, state), m)}
<1>1. S \subseteq Ladder(r) OBVIOUS
<1>2. FoundBy(r, state, working, m) = Cardinality(S) BY DEF FoundBy
<1> HIDE DEF S
<1>3. IsFiniteSet(S) /\ Cardinality(S) <= Cardinality(Ladder(r))
  BY <1>1, LadderSize, FS_Subset
<1>4. Cardinality(S) \in Nat /\ Cardinality(Ladder(r)) \in Nat
  BY <1>3, LadderSize, FS_CardinalityType
<1>5. QED BY <1>2, <1>3, <1>4, LadderSize

(* Whoever finds the worse name finds the better one.                      *)
LEMMA MatchesMonotone ==
  ASSUME NEW f, NEW a \in Profile, NEW b \in Profile, Alike(a, b), Matches(f, b),
         f.query.first \in {"any", "exact", "initial", "nickname"},
         f.query.last \in {"exact", "fuzzy", "spouse"}
  PROVE  Matches(f, a)
<1> DEFINE q == f.query
           first(m) ==
             CASE q.first = "any" -> TRUE
               [] q.first = "exact" -> m.first = "equal"
               [] q.first = "initial" -> m.first \in {"equal", "initial", "maleInitial"}
               [] q.first = "nickname" -> m.nickname
           last(m) ==
             CASE q.last = "exact" -> m.last = "equal"
               [] q.last = "fuzzy" -> m.last # "other"
               [] q.last = "spouse" -> m.spouseName
           rest(m) ==
             /\ q.middle => m.middle \in {"equal", "initial"}
             /\ q.veteran => m.veteran
             /\ q.unit => m.unit
             /\ m.born # NoYear => Within(m.born, q.born)
             /\ m.died # NoYear => Within(m.died, q.died)
             /\ f.place \in {Everywhere, m.state}
             /\ f.linked => m.linked
<1>1. \A m : Matches(f, m) <=> first(m) /\ last(m) /\ rest(m) BY DEF Matches
<1>2. first(b) => first(a) BY AlikeFields, AlikeNames
<1>3. last(b) => last(a) BY AlikeFields, AlikeNames
<1>4. rest(b) => rest(a) BY AlikeFields
<1> HIDE DEF first, last, rest
<1>5. QED BY <1>1, <1>2, <1>3, <1>4

LEMMA FoundMonotone ==
  ASSUME NEW r, NEW state, NEW working,
         NEW a \in Profile, NEW b \in Profile, Alike(a, b)
  PROVE  FoundBy(r, state, working, b) <= FoundBy(r, state, working, a)
<1> DEFINE S(m) == {s \in Ladder(r) : /\ s[1] \in working
                                      /\ Matches(Filtered(s[2], r, state), m)}
<1>1. S(b) \subseteq S(a)
  <2>1. SUFFICES ASSUME NEW s \in Ladder(r), Matches(Filtered(s[2], r, state), b)
                 PROVE  Matches(Filtered(s[2], r, state), a)
    OBVIOUS
  <2> DEFINE f == Filtered(s[2], r, state)
  <2>2. f.query.first = s[2].first /\ f.query.last = s[2].last
    <3>1. "first" \in DOMAIN s[2] /\ "last" \in DOMAIN s[2] BY LadderQueries DEF Ask
    <3>2. f.query = DateWindow(s[2]) BY DEF Filtered
    <3> HIDE DEF f
    <3>3. QED BY <3>1, <3>2 DEF DateWindow
  <2> HIDE DEF f
  <2>3. Matches(f, b) BY <2>1 DEF f
  <2>4. Matches(f, a) BY <2>2, <2>3, LadderQueries, MatchesMonotone
  <2>5. QED BY <2>4 DEF f
<1>2. S(a) \subseteq Ladder(r) OBVIOUS
<1>3. /\ FoundBy(r, state, working, a) = Cardinality(S(a))
      /\ FoundBy(r, state, working, b) = Cardinality(S(b))
  BY DEF FoundBy
<1> HIDE DEF S
<1>4. IsFiniteSet(S(a)) BY <1>2, LadderSize, FS_Subset
<1>5. Cardinality(S(b)) <= Cardinality(S(a)) BY <1>1, <1>4, FS_Subset
<1>6. QED BY <1>3, <1>5
-----------------------------------------------------------------------------
(* What the review does to scores.                                         *)

(* The discount for a name that others have.                               *)
LEMMA DiscountBounds ==
  ASSUME NEW s \in Nat, s <= One, NEW n \in 2 .. Cardinality(Memorials)
  PROVE  /\ Discounted(s, n) \in Nat
         /\ Discounted(s, n) <= Higher(s, SpouseScore)
         /\ Discounted(s, n) <= One
         /\ s < Unlikely => Discounted(s, n) < Unlikely
         /\ n <= 13 /\ s >= HisScore => Discounted(s, n) >= LowScore
<1> DEFINE u == Uniqueness(n)
           x == (s * 10000) \div u
<1>1. u \in Nat /\ 10300 <= u /\ (n <= 13 => u <= 11110)
  <2>1. Log2[n] \in Nat /\ Log2[n] >= 100000 /\ (n <= 13 => Log2[n] <= 370044)
    BY ReviewAssumption
  <2> QED BY <2>1 DEF Uniqueness
<1> HIDE DEF u
<1>2. x \in Nat /\ u * x <= s * 10000 /\ s * 10000 < u * (x + 1) BY <1>1
<1>3. Discounted(s, n) = ((x + 5) \div 10) * 10 BY DEF Discounted, u
<1> HIDE DEF x
<1>4. 10300 * x <= s * 10000
  <2>1. 10300 * x <= u * x /\ 10300 * x \in Nat /\ u * x \in Nat BY <1>1, <1>2
  <2>2. QED BY <1>2, <2>1
<1>5. n <= 13 => s * 10000 < 11110 * (x + 1)
  <2>1. n <= 13 => u * (x + 1) <= 11110 * (x + 1) /\ u * (x + 1) \in Nat BY <1>1, <1>2
  <2>2. QED BY <1>2, <2>1
<1>6. QED
  BY <1>2, <1>3, <1>4, <1>5 DEF Higher, SpouseScore, One, Unlikely, HisScore, LowScore
-----------------------------------------------------------------------------
(* What a search adds to the scores.                                       *)

LEMMA RecordFields ==
  ASSUME rec \in Records
  PROVE  /\ rec \in Record
         /\ \A state : /\ InState(state).widow = rec.widow
                       /\ InState(state).middle = rec.middle
BY ReviewAssumption DEF InState, Record

LEMMA ScoredBounds ==
  ASSUME TypeOK, NEW scope, NEW working, NEW m \in DOMAIN Scored(scope, working)
  PROVE  /\ m \in Memorials
         /\ Scored(scope, working)[m] \in Nat /\ Scored(scope, working)[m] <= One
         /\ Score(InState(ScopeState(rec, scope)), world[m]) <= Scored(scope, working)[m]
         /\ ~Possible(world[m].born, world[m].died, rec.widow)
              => Scored(scope, working)[m] < Unlikely
<1> DEFINE r == InState(ScopeState(rec, scope))
           s == Score(r, world[m])
           n == Times(scope, working, m)
<1>1. m \in Memorials /\ Scored(scope, working)[m] = Converged(s, n) BY DEF Scored
<1>2. n \in Nat /\ n <= 14 BY FoundBound DEF Times
<1>3. r.widow = rec.widow BY RecordFields DEF TypeOK
<1>4. /\ s \in Nat /\ s <= One
      /\ ~Possible(world[m].born, world[m].died, rec.widow) => s <= 27600
  BY <1>3, ScoreBound
<1> HIDE DEF s, n
<1>5. /\ Converged(s, n) \in Nat /\ s <= Converged(s, n) /\ Converged(s, n) <= One
      /\ s <= 27600 => Converged(s, n) < Unlikely
  BY <1>2, <1>4, ConvergedBounds
<1>6. QED BY <1>1, <1>4, <1>5 DEF s

LEMMA BestOf ==
  ASSUME NEW new
  PROVE  /\ DOMAIN Best(new) = DOMAIN score \cup DOMAIN new
         /\ \A m \in DOMAIN Best(new) :
              \/ m \in DOMAIN score /\ Best(new)[m] = score[m]
              \/ m \in DOMAIN new /\ Best(new)[m] = new[m]
         /\ \A m \in DOMAIN new : m \notin DOMAIN score => Best(new)[m] = new[m]
         /\ \A m \in DOMAIN score : m \notin DOMAIN new => Best(new)[m] = score[m]
         /\ \A m \in DOMAIN score \cap DOMAIN new :
              Best(new)[m] = Higher(score[m], new[m])
BY DEF Best, Higher

(* The scores after a search are numbers, and none below what they were.   *)
LEMMA BestBounds ==
  ASSUME TypeOK, NEW scope, NEW working
  PROVE  LET new == Scored(scope, working)
         IN  /\ DOMAIN Best(new) \subseteq Memorials
             /\ \A m \in DOMAIN Best(new) : Best(new)[m] \in Nat /\ Best(new)[m] <= One
             /\ \A m \in DOMAIN score : Best(new)[m] >= score[m]
             /\ \A m \in DOMAIN new : Best(new)[m] >= new[m]
<1> DEFINE new == Scored(scope, working)
<1>1. \A m \in DOMAIN new : m \in Memorials /\ new[m] \in Nat /\ new[m] <= One
  BY ScoredBounds
<1>2. \A m \in DOMAIN score : m \in Memorials /\ score[m] \in Nat /\ score[m] <= One
  <2>1. One \in Nat BY DEF One
  <2>2. QED BY <2>1 DEF TypeOK
<1> HIDE DEF new
<1>3. DOMAIN Best(new) \subseteq Memorials BY <1>1, <1>2, BestOf
<1>4. \A m \in DOMAIN Best(new) : Best(new)[m] \in Nat /\ Best(new)[m] <= One
  BY <1>1, <1>2, BestOf
<1> DEFINE best == Best(new)
<1>a. /\ \A m \in DOMAIN new : m \notin DOMAIN score => best[m] = new[m]
      /\ \A m \in DOMAIN score : m \notin DOMAIN new => best[m] = score[m]
      /\ \A m \in DOMAIN score \cap DOMAIN new : best[m] = Higher(score[m], new[m])
  BY BestOf
<1> HIDE DEF best
<1>5. \A m \in DOMAIN score : best[m] >= score[m]
  BY <1>1, <1>2, <1>a DEF Higher
<1>6. \A m \in DOMAIN new : best[m] >= new[m]
  BY <1>1, <1>2, <1>a DEF Higher
<1>7. QED BY <1>3, <1>4, <1>5, <1>6 DEF new, best
-----------------------------------------------------------------------------
(* Types.                                                                  *)

LEMMA TypeInit == Init => TypeOK /\ SearchInv
<1>1. SUFFICES ASSUME Init PROVE TypeOK /\ SearchInv OBVIOUS
<1>2. DOMAIN Nothing = {} BY DEF Nothing
<1>3. QED BY <1>1, <1>2 DEF Init, TypeOK, SearchInv

LEMMA Namesaked ==
  ASSUME TypeOK, NEW m \in DOMAIN score, Common(m)
  PROVE  Cardinality(Namesakes(m)) \in 2 .. Cardinality(Memorials)
<1>1. Namesakes(m) \subseteq Memorials BY DEF Namesakes, TypeOK
<1>2. IsFiniteSet(Memorials) /\ Cardinality(Memorials) \in Nat
  BY ReviewAssumption, FS_CardinalityType
<1>3. /\ IsFiniteSet(Namesakes(m))
      /\ Cardinality(Namesakes(m)) <= Cardinality(Memorials)
  BY <1>1, <1>2, FS_Subset
<1>4. Cardinality(Namesakes(m)) \in Nat BY <1>3, FS_CardinalityType
<1>5. Cardinality(Namesakes(m)) >= 2 BY DEF Common
<1>6. QED BY <1>2, <1>3, <1>4, <1>5

(* What each step of the review does to a score.                           *)
LEMMA Steps ==
  ASSUME TypeOK
  PROVE  /\ \A m \in DOMAIN score : score[m] \in Nat /\ score[m] <= One
         /\ \A x \in Nat : Capped(x) \in Nat /\ Capped(x) <= One
              /\ \A y \in Nat : x <= y => Capped(x) <= Capped(y)
         /\ \A x \in Nat : x <= One => Higher(x - 5000, 0) \in Nat /\ Higher(x - 5000, 0) <= One
<1>1. One \in Nat BY DEF One
<1>2. \A m \in DOMAIN score : score[m] \in Nat /\ score[m] <= One BY <1>1 DEF TypeOK
<1>3. \A x \in Nat : Capped(x) \in Nat /\ Capped(x) <= One
              /\ \A y \in Nat : x <= y => Capped(x) <= Capped(y)
  BY <1>1 DEF Capped
<1>4. \A x \in Nat : x <= One => Higher(x - 5000, 0) \in Nat /\ Higher(x - 5000, 0) <= One
  BY <1>1 DEF Higher
<1>5. QED BY <1>2, <1>3, <1>4

(* Of two verified at the top one is raised, the other lowered.            *)
Tied(a, b) ==
  /\ a \in DOMAIN strength /\ b \in DOMAIN strength /\ a # b
  /\ \A c \in DOMAIN score : score[c] <= score[a]
  /\ \A c \in DOMAIN score \ {a} : score[c] <= score[b]
  /\ score' = [c \in DOMAIN score |->
                 IF c = a THEN Capped(score[c] + 5000)
                 ELSE IF c = b THEN Higher(score[c] - 5000, 0) ELSE score[c]]

LEMMA TieStep ==
  ASSUME TypeOK, BreakTie
  PROVE  score' = score \/ \E a, b : Tied(a, b)
<1>1. PICK s \in Rankings :
       IF /\ Len(s) >= 2 /\ {s[1], s[2]} \subseteq DOMAIN strength
          /\ strength[s[1]] = "strong" /\ strength[s[2]] # "strong"
       THEN score' = [score EXCEPT ![s[1]] = Capped(@ + 5000),
                                   ![s[2]] = Higher(@ - 5000, 0)]
       ELSE UNCHANGED score
  BY DEF BreakTie
<1>2. SUFFICES ASSUME score' # score PROVE Tied(s[1], s[2]) OBVIOUS
<1> DEFINE a == s[1]
           b == s[2]
           n == Cardinality(DOMAIN score)
<1>3. /\ Len(s) >= 2 /\ a \in DOMAIN strength /\ b \in DOMAIN strength /\ a # b
      /\ score' = [score EXCEPT ![a] = Capped(@ + 5000), ![b] = Higher(@ - 5000, 0)]
  BY <1>1, <1>2
<1>4. score' = [c \in DOMAIN score |->
                 IF c = a THEN Capped(score[c] + 5000)
                 ELSE IF c = b THEN Higher(score[c] - 5000, 0) ELSE score[c]]
  <2>1. a \in DOMAIN score /\ b \in DOMAIN score BY <1>3 DEF TypeOK
  <2> HIDE DEF a, b
  <2> DEFINE x == Capped(score[a] + 5000)
             y == Higher(score[b] - 5000, 0)
             first == [score EXCEPT ![a] = x]
  <2>2. first[b] = score[b] BY <1>3, <2>1
  <2>3. score' = [first EXCEPT ![b] = y] BY <1>3, <2>2
  <2>4. /\ DOMAIN first = DOMAIN score
        /\ \A c \in DOMAIN score : first[c] = IF c = a THEN x ELSE score[c]
    OBVIOUS
  <2> HIDE DEF x, y, first
  <2>5. score' = [c \in DOMAIN first |-> IF c = b THEN y ELSE first[c]] BY <2>3
  <2>6. a # b BY <1>3
  <2>7. \A c \in DOMAIN score :
          (IF c = b THEN y ELSE first[c])
            = (IF c = a THEN x ELSE IF c = b THEN y ELSE score[c])
    BY <2>4, <2>6
  <2>8. score' = [c \in DOMAIN score |-> IF c = a THEN x ELSE IF c = b THEN y ELSE score[c]]
    BY <2>4, <2>5, <2>7
  <2>9. QED BY <2>8 DEF x, y
<1>5. /\ s \in [1 .. n -> DOMAIN score] /\ Range(s) = DOMAIN score
      /\ \A i, j \in DOMAIN s : i < j => score[s[i]] >= score[s[j]]
  BY DEF Rankings, IsRanking
<1>6. n \in Nat
  <2>1. IsFiniteSet(DOMAIN score) BY ReviewAssumption, FS_Subset DEF TypeOK
  <2>2. QED BY <2>1, FS_CardinalityType
<1> HIDE DEF n
<1>7. DOMAIN s = 1 .. n /\ Len(s) = n BY <1>5, <1>6
<1>8. 1 \in DOMAIN s /\ 2 \in DOMAIN s /\ n >= 2 BY <1>3, <1>6, <1>7
<1>9. ASSUME NEW c \in DOMAIN score PROVE score[c] <= score[a] /\ (c # a => score[c] <= score[b])
  <2>1. PICK i \in 1 .. n : s[i] = c BY <1>5, <1>7 DEF Range
  <2>2. score[c] \in Nat BY Steps
  <2>3. i = 1 \/ i = 2 \/ i > 2 OBVIOUS
  <2>4. i > 1 => score[a] >= score[s[i]] BY <1>5, <1>7, <1>8
  <2>5. i > 2 => score[b] >= score[s[i]] BY <1>5, <1>7, <1>8
  <2>6. score[a] \in Nat /\ score[b] \in Nat
    <3>1. a \in DOMAIN score /\ b \in DOMAIN score BY <1>3 DEF TypeOK
    <3>2. QED BY <3>1, Steps
  <2>7. QED BY <2>1, <2>2, <2>3, <2>4, <2>5, <2>6
<1> HIDE DEF a, b
<1>10. Tied(a, b)
  <2>1. a \in DOMAIN strength /\ b \in DOMAIN strength /\ a # b BY <1>3
  <2>2. /\ \A c \in DOMAIN score : score[c] <= score[a]
        /\ \A c \in DOMAIN score \ {a} : score[c] <= score[b]
    BY <1>9
  <2>3. QED BY <1>4, <2>1, <2>2, Zenon DEF Tied
<1>11. QED BY <1>10 DEF a, b

LEMMA TypeNext == TypeOK /\ SearchInv /\ [Next]_vars => TypeOK' /\ SearchInv'
<1>1. SUFFICES ASSUME TypeOK, SearchInv, [Next]_vars PROVE TypeOK' /\ SearchInv'
  OBVIOUS
<1>2. ASSUME NEW scope \in todo, Search(scope) PROVE TypeOK' /\ SearchInv'
  <2>1. PICK working : score' = Best(Scored(scope, working)) BY <1>2 DEF Search
  <2>2. /\ DOMAIN score' \subseteq Memorials
        /\ \A m \in DOMAIN score' : score'[m] \in Nat /\ score'[m] <= One
    BY <1>1, <2>1, BestBounds
  <2>3. DOMAIN score \subseteq DOMAIN score' BY <2>1, BestOf
  <2>4. /\ found' = score' /\ todo' = todo \ {scope}
        /\ at = "search" /\ at' = (IF todo' = {} THEN "spouse" ELSE "search")
        /\ UNCHANGED <<rec, world, tried, strength, signals, row>>
    BY <1>2 DEF Search
  <2>5. SearchInv' BY <1>1, <2>4 DEF SearchInv
  <2>6. One \in Nat BY DEF One
  <2>7. QED BY <1>1, <2>2, <2>3, <2>4, <2>5, <2>6 DEF TypeOK
<1>3. ASSUME NEW m \in Memorials, VerifySpouse(m) PROVE TypeOK' /\ SearchInv'
  <2>1. /\ at = "spouse" /\ m \in DOMAIN score /\ tried' = tried \cup {m}
        /\ UNCHANGED <<rec, world, todo, answered, found, at, signals, row>>
    BY <1>3 DEF VerifySpouse, ToVerify
  <2>2. /\ DOMAIN strength' \subseteq DOMAIN strength \cup {m}
        /\ score' = score \/ score' = [score EXCEPT ![m] = Capped(@ + SpouseBoost)]
    BY <1>3 DEF VerifySpouse
  <2>3. DOMAIN score' = DOMAIN score
        /\ \A c \in DOMAIN score : score'[c] \in {score[c], Capped(score[c] + SpouseBoost)}
    BY <2>2
  <2>4. \A c \in DOMAIN score : score[c] + SpouseBoost \in Nat
    BY <1>1, Steps DEF SpouseBoost
  <2>5. \A c \in DOMAIN score : score'[c] \in Nat /\ score'[c] <= One
    BY <1>1, <2>3, <2>4, Steps
  <2>6. One \in Nat BY DEF One
  <2>7. QED BY <1>1, <2>1, <2>2, <2>3, <2>5, <2>6 DEF TypeOK, SearchInv
<1>4. ASSUME SpousesDone PROVE TypeOK' /\ SearchInv'
  BY <1>1, <1>4 DEF SpousesDone, TypeOK, SearchInv
<1>5. ASSUME ReadSignals PROVE TypeOK' /\ SearchInv'
  <2>1. /\ at = "signals" /\ at' = "names"
        /\ UNCHANGED <<rec, world, todo, answered, found, tried, strength, row>>
    BY <1>5 DEF ReadSignals
  <2>2. \/ UNCHANGED <<signals, score>>
        \/ \E m \in DOMAIN score : /\ signals' = {m}
                                   /\ score' = [score EXCEPT ![m] = Capped(@ + 8000)]
    BY <1>5 DEF ReadSignals
  <2>3. /\ DOMAIN score' = DOMAIN score /\ signals' \subseteq DOMAIN score
        /\ \A c \in DOMAIN score : score'[c] \in {score[c], Capped(score[c] + 8000)}
    BY <1>1, <2>2 DEF TypeOK
  <2>4. \A c \in DOMAIN score : score[c] + 8000 \in Nat BY <1>1, Steps
  <2>5. \A c \in DOMAIN score : score'[c] \in Nat /\ score'[c] <= One
    BY <1>1, <2>3, <2>4, Steps
  <2>6. One \in Nat BY DEF One
  <2>7. QED BY <1>1, <2>1, <2>3, <2>5, <2>6 DEF TypeOK, SearchInv
<1>6. ASSUME DiscountNames PROVE TypeOK' /\ SearchInv'
  <2>1. /\ at = "names" /\ at' = "ties"
        /\ UNCHANGED <<rec, world, todo, answered, found, tried, strength, signals, row>>
    BY <1>6 DEF DiscountNames
  <2>2. /\ DOMAIN score' = DOMAIN score
        /\ \A m \in DOMAIN score : score'[m] =
             IF Common(m) THEN Discounted(score[m], Cardinality(Namesakes(m))) ELSE score[m]
    BY <1>6 DEF DiscountNames
  <2>3. ASSUME NEW m \in DOMAIN score PROVE score'[m] \in Nat /\ score'[m] <= One
    <3> DEFINE x == score[m]
               n == Cardinality(Namesakes(m))
    <3>1. x \in Nat /\ x <= One BY <1>1, Steps
    <3>2. Common(m) => n \in 2 .. Cardinality(Memorials) BY <1>1, Namesaked
    <3>3. score'[m] = IF Common(m) THEN Discounted(x, n) ELSE x BY <2>2
    <3> HIDE DEF x, n
    <3>4. QED BY <3>1, <3>2, <3>3, DiscountBounds
  <2>4. One \in Nat BY DEF One
  <2>5. QED BY <1>1, <2>1, <2>2, <2>3, <2>4 DEF TypeOK, SearchInv
<1>7. ASSUME BreakTie PROVE TypeOK' /\ SearchInv'
  <2>1. /\ at = "ties" /\ at' = "row"
        /\ UNCHANGED <<rec, world, todo, answered, found, tried, strength, signals, row>>
    BY <1>7 DEF BreakTie
  <2>2. /\ DOMAIN score' = DOMAIN score
        /\ \A c \in DOMAIN score :
             score'[c] \in {score[c], Capped(score[c] + 5000), Higher(score[c] - 5000, 0)}
    <3>1. CASE score' = score BY <3>1
    <3>2. CASE \E a, b : Tied(a, b) BY <3>2 DEF Tied
    <3>3. QED BY <1>1, <1>7, <3>1, <3>2, TieStep
  <2>3. \A c \in DOMAIN score : score[c] + 5000 \in Nat BY <1>1, Steps
  <2>4. \A c \in DOMAIN score : score'[c] \in Nat /\ score'[c] <= One
    BY <1>1, <2>2, <2>3, Steps
  <2>5. One \in Nat BY DEF One
  <2>6. QED BY <1>1, <2>1, <2>2, <2>4, <2>5 DEF TypeOK, SearchInv
<1>8. ASSUME BuildRow PROVE TypeOK' /\ SearchInv'
  BY <1>1, <1>8 DEF BuildRow, TypeOK, SearchInv
<1>9. ASSUME UNCHANGED vars PROVE TypeOK' /\ SearchInv'
  BY <1>1, <1>9 DEF vars, TypeOK, SearchInv
<1>10. QED BY <1>1, <1>2, <1>3, <1>4, <1>5, <1>6, <1>7, <1>8, <1>9 DEF Next
-----------------------------------------------------------------------------
(* The ranking the row is built from.                                      *)

LEMMA RankingTop ==
  ASSUME TypeOK, NEW s \in Rankings
  PROVE  /\ s \in Seq(DOMAIN score) /\ Len(s) \in Nat /\ DOMAIN s = 1 .. Len(s)
         /\ Range(s) = DOMAIN score
         /\ DOMAIN score # {} =>
              /\ Len(s) >= 1 /\ s[1] \in DOMAIN score
              /\ \A c \in DOMAIN score : score[c] <= score[s[1]]
              /\ Top(score) = score[s[1]]
<1> DEFINE n == Cardinality(DOMAIN score)
<1>1. /\ s \in [1 .. n -> DOMAIN score] /\ Range(s) = DOMAIN score
      /\ \A i, j \in DOMAIN s : i < j => score[s[i]] >= score[s[j]]
  BY DEF Rankings, IsRanking
<1>2. n \in Nat
  <2>1. IsFiniteSet(DOMAIN score) BY ReviewAssumption, FS_Subset DEF TypeOK
  <2>2. QED BY <2>1, FS_CardinalityType
<1> HIDE DEF n
<1>3. s \in Seq(DOMAIN score) /\ DOMAIN s = 1 .. n /\ Len(s) = n BY <1>1, <1>2
<1>4. ASSUME DOMAIN score # {}
      PROVE  /\ n >= 1 /\ s[1] \in DOMAIN score
             /\ \A c \in DOMAIN score : score[c] <= score[s[1]]
             /\ Top(score) = score[s[1]]
  <2>1. PICK k \in 1 .. n : TRUE BY <1>1, <1>3, <1>4 DEF Range
  <2>2. n >= 1 /\ s[1] \in DOMAIN score
    <3>1. n >= 1 /\ 1 \in 1 .. n BY <1>2, <2>1
    <3>2. QED BY <1>1, <3>1
  <2> DEFINE a == s[1]
  <2>3. ASSUME NEW c \in DOMAIN score PROVE score[c] <= score[a]
    <3>1. PICK i \in 1 .. n : s[i] = c BY <1>1, <1>3 DEF Range
    <3>2. i = 1 \/ i > 1 OBVIOUS
    <3>3. score[c] \in Nat BY Steps
    <3>4. 1 \in DOMAIN s BY <1>2, <1>3, <2>2
    <3>5. i > 1 => score[a] >= score[s[i]] BY <1>1, <1>3, <3>4
    <3>6. score[a] \in Nat BY <2>2, Steps
    <3>7. QED BY <3>1, <3>2, <3>3, <3>5, <3>6
  <2>4. Top(score) = score[a]
    <3> DEFINE S == {score[c] : c \in DOMAIN score}
    <3>1. score[a] \in S /\ S \subseteq Nat BY <2>2, Steps
    <3>2. \A y \in S : y <= score[a] BY <2>3
    <3>3. Top(score) = Max(S) BY <1>4 DEF Top
    <3> HIDE DEF S
    <3>4. Max(S) \in S /\ \A y \in S : Max(S) >= y BY <3>1, <3>2 DEF Max
    <3> DEFINE x == Max(S)
               y == score[a]
    <3>5. x \in Nat /\ y \in Nat /\ x <= y /\ x >= y BY <3>1, <3>2, <3>4
    <3> HIDE DEF x, y
    <3>6. x = y BY <3>5
    <3>7. QED BY <3>3, <3>6 DEF x, y
  <2>5. QED BY <2>2, <2>3, <2>4
<1>5. QED BY <1>1, <1>2, <1>3, <1>4

(* What classify says of the best score.                                   *)
LEMMA StatusTop ==
  ASSUME NEW r, NEW s, Top(s) \in Nat
  PROVE  /\ Classify(r, s, FALSE) = "auto_accept" =>
              DOMAIN s # {} /\ Top(s) >= Unlikely
         /\ DOMAIN s # {} /\ Top(s) >= LowScore =>
              Classify(r, s, FALSE) \in {"auto_accept", "needs_review"}
<1> DEFINE top == Top(s)
           near == Cardinality(DOMAIN s) = 1 \/ top - Second(s) >= Gap
<1>1. Threshold(r) \in {60000, 70000}
  BY DEF Threshold, AutoAccept, AutoAcceptNoDeath
<1> DEFINE status == Classify(r, s, FALSE)
<1>2. /\ DOMAIN s = {} => status = "no_candidates"
      /\ DOMAIN s # {} /\ top < LowScore => status = "low_score"
      /\ DOMAIN s # {} /\ ~(top < LowScore) =>
           status = IF top >= LowScore /\ top >= Threshold(r) /\ near
                    THEN "auto_accept" ELSE "needs_review"
  <2>1. DOMAIN s = {} => status = "no_candidates" BY DEF Classify
  <2>2. DOMAIN s # {} /\ top < LowScore => status = "low_score" BY DEF Classify, LowScore
  <2>3. ASSUME DOMAIN s # {}, ~(top < LowScore)
        PROVE  status = IF top >= LowScore /\ top >= Threshold(r) /\ near
                        THEN "auto_accept" ELSE "needs_review"
    BY <2>3 DEF Classify
  <2>4. QED BY <2>1, <2>2, <2>3
<1>3. top \in Nat OBVIOUS
<1> HIDE DEF top, near, status
<1>4. status = "auto_accept" => DOMAIN s # {} /\ top >= Unlikely
  <2>1. status = "auto_accept" => DOMAIN s # {} /\ top >= Threshold(r) BY <1>2
  <2>2. QED BY <1>1, <1>3, <2>1 DEF Unlikely
<1>5. DOMAIN s # {} /\ top >= LowScore => status \in {"auto_accept", "needs_review"}
  BY <1>2, <1>3 DEF LowScore
<1>6. QED BY <1>4, <1>5 DEF top, status

(* Nobody changes the record or a memorial.                                *)
LEMMA WorldStays == [Next]_vars => rec' = rec /\ world' = world
<1>1. ASSUME NEW scope, Search(scope) PROVE UNCHANGED <<rec, world>> BY <1>1 DEF Search
<1>2. ASSUME NEW m, VerifySpouse(m) PROVE UNCHANGED <<rec, world>>
  BY <1>2 DEF VerifySpouse
<1>3. SpousesDone => UNCHANGED <<rec, world>> BY DEF SpousesDone
<1>4. ReadSignals => UNCHANGED <<rec, world>> BY DEF ReadSignals
<1>5. DiscountNames => UNCHANGED <<rec, world>> BY DEF DiscountNames
<1>6. BreakTie => UNCHANGED <<rec, world>> BY DEF BreakTie
<1>7. BuildRow => UNCHANGED <<rec, world>> BY DEF BuildRow
<1>8. UNCHANGED vars => UNCHANGED <<rec, world>> BY DEF vars
<1>9. QED BY <1>1, <1>2, <1>3, <1>4, <1>5, <1>6, <1>7, <1>8 DEF Next
-----------------------------------------------------------------------------
(* Impossible dates.                                                       *)

LEMMA ImpossibleNext ==
  TypeOK /\ SearchInv /\ ImpossibleInv /\ [Next]_vars => ImpossibleInv'
<1> DEFINE Bad(m) == ~Possible(world[m].born, world[m].died, rec.widow)
<1>1. SUFFICES ASSUME TypeOK, SearchInv, ImpossibleInv, [Next]_vars PROVE ImpossibleInv'
  OBVIOUS
<1>2. \A m \in DOMAIN score : Bad(m) => score[m] < Unlikely /\ m \notin DOMAIN strength
  BY <1>1 DEF ImpossibleInv
<1>3. SUFFICES /\ rec' = rec /\ world' = world
               /\ \A m \in DOMAIN score' :
                    Bad(m) => score'[m] < Unlikely /\ m \notin DOMAIN strength'
  BY DEF ImpossibleInv
<1>4. rec' = rec /\ world' = world BY <1>1, WorldStays
<1> DEFINE Goal == \A m \in DOMAIN score' :
                     Bad(m) => score'[m] < Unlikely /\ m \notin DOMAIN strength'
<1>5. \A m \in DOMAIN score : score[m] \in Nat /\ score[m] <= One BY <1>1, Steps
<1> HIDE DEF Bad
<1>6. ASSUME NEW scope \in todo, Search(scope) PROVE Goal
  <2>1. PICK working : score' = Best(Scored(scope, working)) BY <1>6 DEF Search
  <2> DEFINE new == Scored(scope, working)
  <2>2. \A m \in DOMAIN new : Bad(m) => new[m] < Unlikely BY <1>1, ScoredBounds DEF Bad
  <2>3. strength' = Nothing /\ DOMAIN Nothing = {}
    BY <1>1, <1>6 DEF Search, SearchInv, Nothing
  <2> HIDE DEF new
  <2>4. \A m \in DOMAIN score' : \/ m \in DOMAIN score /\ score'[m] = score[m]
                                 \/ m \in DOMAIN new /\ score'[m] = new[m]
    <3>1. score' = Best(new) BY <2>1 DEF new
    <3>2. \A m \in DOMAIN Best(new) : \/ m \in DOMAIN score /\ Best(new)[m] = score[m]
                                      \/ m \in DOMAIN new /\ Best(new)[m] = new[m]
      BY BestOf
    <3>3. QED BY <3>1, <3>2
  <2>5. QED BY <1>2, <2>2, <2>3, <2>4
<1>7. ASSUME NEW m \in Memorials, VerifySpouse(m) PROVE Goal
  <2>1. m \in DOMAIN score /\ score[m] >= SpouseScore BY <1>7 DEF VerifySpouse, ToVerify
  <2>2. ~Bad(m) BY <1>2, <1>5, <2>1 DEF SpouseScore, Unlikely
  <2>3. /\ DOMAIN strength' \subseteq DOMAIN strength \cup {m}
        /\ DOMAIN score' = DOMAIN score
        /\ \A c \in DOMAIN score : c # m => score'[c] = score[c]
    BY <1>7 DEF VerifySpouse
  <2>4. QED BY <1>2, <2>2, <2>3
<1>8. ASSUME SpousesDone PROVE Goal BY <1>2, <1>8 DEF SpousesDone
<1>9. ASSUME ReadSignals PROVE Goal
  <2>1. strength' = strength BY <1>9 DEF ReadSignals
  <2>2. CASE score' = score BY <1>2, <2>1, <2>2
  <2>3. CASE score' # score
    <3>1. PICK m \in DOMAIN score : /\ score[m] = Top(score) /\ 50000 <= Top(score)
                                    /\ score' = [score EXCEPT ![m] = Capped(@ + 8000)]
      BY <1>9, <2>3 DEF ReadSignals
    <3>2. ~Bad(m) BY <1>2, <1>5, <3>1 DEF Unlikely
    <3>3. DOMAIN score' = DOMAIN score
          /\ \A c \in DOMAIN score : c # m => score'[c] = score[c]
      BY <3>1
    <3>4. QED BY <1>2, <2>1, <3>2, <3>3
  <2>4. QED BY <2>2, <2>3
<1>10. ASSUME DiscountNames PROVE Goal
  <2>1. /\ strength' = strength /\ DOMAIN score' = DOMAIN score
        /\ \A m \in DOMAIN score : score'[m] =
             IF Common(m) THEN Discounted(score[m], Cardinality(Namesakes(m))) ELSE score[m]
    BY <1>10 DEF DiscountNames
  <2>2. ASSUME NEW m \in DOMAIN score, Bad(m) PROVE score'[m] < Unlikely
    <3> DEFINE x == score[m]
               n == Cardinality(Namesakes(m))
    <3>1. x \in Nat /\ x <= One /\ x < Unlikely BY <1>2, <1>5, <2>2
    <3>2. Common(m) => n \in 2 .. Cardinality(Memorials) BY <1>1, Namesaked
    <3>3. score'[m] = IF Common(m) THEN Discounted(x, n) ELSE x BY <2>1
    <3> HIDE DEF x, n
    <3>4. QED BY <3>1, <3>2, <3>3, DiscountBounds
  <2>3. QED BY <1>2, <2>1, <2>2
<1>11. ASSUME BreakTie PROVE Goal
  <2>1. strength' = strength BY <1>11 DEF BreakTie
  <2>2. CASE score' = score BY <1>2, <2>1, <2>2
  <2>3. ASSUME NEW a, NEW b, Tied(a, b) PROVE Goal
    <3>1. /\ a \in DOMAIN strength /\ b \in DOMAIN strength /\ DOMAIN score' = DOMAIN score
          /\ \A c \in DOMAIN score : c \notin {a, b} => score'[c] = score[c]
      BY <2>3 DEF Tied
    <3>2. QED BY <1>2, <2>1, <3>1
  <2>4. QED BY <1>1, <1>11, <2>2, <2>3, TieStep
<1>12. ASSUME BuildRow PROVE Goal BY <1>2, <1>12 DEF BuildRow
<1>13. ASSUME UNCHANGED vars PROVE Goal BY <1>2, <1>13 DEF vars
<1>14. Goal
  BY <1>1, <1>6, <1>7, <1>8, <1>9, <1>10, <1>11, <1>12, <1>13 DEF Next
<1>15. QED BY <1>4, <1>14
-----------------------------------------------------------------------------
(* Verified candidates.                                                    *)

(* found is of the type of the scores.                                     *)
FoundType == \A m \in DOMAIN found : found[m] \in Nat /\ found[m] <= One

LEMMA FoundNext == TypeOK /\ FoundType /\ [Next]_vars => FoundType'
<1>1. SUFFICES ASSUME TypeOK, FoundType, [Next]_vars PROVE FoundType' OBVIOUS
<1>2. ASSUME NEW scope \in todo, Search(scope) PROVE FoundType'
  <2>1. PICK working : score' = Best(Scored(scope, working)) BY <1>2 DEF Search
  <2>2. found' = score' BY <1>2 DEF Search
  <2>3. \A m \in DOMAIN score' : score'[m] \in Nat /\ score'[m] <= One
    BY <1>1, <2>1, BestBounds
  <2>4. QED BY <2>2, <2>3 DEF FoundType
<1>3. ASSUME NEW m, VerifySpouse(m) PROVE found' = found BY <1>3 DEF VerifySpouse
<1>4. SpousesDone => found' = found BY DEF SpousesDone
<1>5. ReadSignals => found' = found BY DEF ReadSignals
<1>6. DiscountNames => found' = found BY DEF DiscountNames
<1>7. BreakTie => found' = found BY DEF BreakTie
<1>8. BuildRow => found' = found BY DEF BuildRow
<1>9. UNCHANGED vars => found' = found BY DEF vars
<1>10. found' = found => FoundType' BY <1>1 DEF FoundType
<1>11. QED
  BY <1>1, <1>2, <1>3, <1>4, <1>5, <1>6, <1>7, <1>8, <1>9, <1>10 DEF Next

LEMMA BarBounds ==
  ASSUME TypeOK, FoundType
  PROVE  /\ \A m \in DOMAIN score : score[m] \in Nat /\ score[m] <= One
         /\ \A m \in DOMAIN score : found[m] \in Nat /\ Bar(m) \in Nat
                                    /\ Bar(m) >= SpouseScore /\ Bar(m) >= found[m]
         /\ DOMAIN strength \subseteq DOMAIN score /\ DOMAIN found = DOMAIN score
<1>1. \A m \in DOMAIN score : score[m] \in Nat /\ score[m] <= One BY Steps
<1>2. DOMAIN strength \subseteq DOMAIN score /\ DOMAIN found = DOMAIN score
  BY DEF TypeOK
<1>3. \A m \in DOMAIN score : found[m] \in Nat BY <1>2 DEF FoundType
<1>4. QED BY <1>1, <1>2, <1>3 DEF Bar, Higher, SpouseScore

LEMMA VerifiedNext ==
  TypeOK /\ FoundType /\ SearchInv /\ VerifiedInv /\ [Next]_vars => VerifiedInv'
<1>1. SUFFICES ASSUME TypeOK, FoundType, SearchInv, VerifiedInv, [Next]_vars
               PROVE  VerifiedInv'
  OBVIOUS
<1>2. /\ \A m \in DOMAIN score : score[m] \in Nat /\ score[m] <= One
      /\ \A m \in DOMAIN score : found[m] \in Nat /\ Bar(m) \in Nat
                                 /\ Bar(m) >= SpouseScore /\ Bar(m) >= found[m]
      /\ DOMAIN strength \subseteq DOMAIN score /\ DOMAIN found = DOMAIN score
  BY <1>1, BarBounds
<1>3. ASSUME NEW scope \in todo, Search(scope) PROVE VerifiedInv'
  <2>1. /\ found' = score' /\ strength' = strength /\ signals' = signals
        /\ at = "search" /\ at' \in {"search", "spouse"}
    BY <1>3 DEF Search
  <2>2. DOMAIN strength = {} /\ signals = {} BY <1>1, <2>1 DEF SearchInv, Nothing
  <2>3. QED BY <2>1, <2>2 DEF VerifiedInv
<1>4. ASSUME NEW m \in Memorials, VerifySpouse(m) PROVE VerifiedInv'
  <2>1. /\ at = "spouse" /\ at' = "spouse" /\ found' = found /\ signals' = signals
        /\ m \in DOMAIN score \ tried /\ score[m] >= SpouseScore
    BY <1>4 DEF VerifySpouse, ToVerify
  <2>2. m \notin DOMAIN strength BY <1>1, <2>1 DEF TypeOK
  <2>3. /\ signals = {}
        /\ \A v \in DOMAIN strength : score[v] >= Bar(v)
        /\ \A c \in DOMAIN score \ DOMAIN strength : score[c] = found[c]
    BY <1>1, <2>1 DEF VerifiedInv
  <2>4. score[m] = found[m] /\ score[m] >= Bar(m)
    <3>1. score[m] = found[m] BY <2>1, <2>2, <2>3
    <3>2. QED BY <1>2, <2>1, <3>1 DEF Bar, Higher
  <2>5. CASE UNCHANGED <<strength, score>>
    BY <2>1, <2>3, <2>5 DEF VerifiedInv, Bar
  <2>6. CASE ~(UNCHANGED <<strength, score>>)
    <3>1. /\ DOMAIN strength' = DOMAIN strength \cup {m}
          /\ score' = [score EXCEPT ![m] = Capped(@ + SpouseBoost)]
      BY <1>4, <2>6 DEF VerifySpouse
    <3>2. Capped(score[m] + SpouseBoost) >= score[m]
      BY <1>2, <2>1 DEF Capped, SpouseBoost, One
    <3>3. /\ DOMAIN score' = DOMAIN score
          /\ score'[m] = Capped(score[m] + SpouseBoost)
          /\ \A c \in DOMAIN score : c # m => score'[c] = score[c]
      BY <2>1, <3>1
    <3>4. \A c : Bar(c)' = Bar(c) BY <2>1 DEF Bar
    <3>5. \A v \in DOMAIN strength' : score'[v] >= Bar(v)
      <4>1. score'[m] >= Bar(m)
        <5>1. Capped(score[m] + SpouseBoost) \in Nat
          BY <1>2, <2>1, Steps, <1>1 DEF SpouseBoost
        <5>2. QED BY <1>2, <2>1, <2>4, <3>2, <3>3, <5>1
      <4>2. QED BY <1>2, <2>3, <3>1, <3>3, <4>1
    <3>6. \A c \in DOMAIN score' \ DOMAIN strength' : score'[c] = found'[c]
      BY <2>1, <2>3, <3>1, <3>3
    <3>7. \A v \in DOMAIN strength' :
            score'[v] >= (IF at' \in {"row", "done"} THEN SpouseScore - 5000 ELSE Bar(v)')
      BY <2>1, <3>4, <3>5
    <3>8. QED BY <2>1, <2>3, <3>6, <3>7 DEF VerifiedInv
  <2>7. QED BY <2>5, <2>6
<1>5. ASSUME SpousesDone PROVE VerifiedInv'
  <2>1. /\ at = "spouse" /\ at' = "signals"
        /\ UNCHANGED <<score, found, strength, signals>>
    BY <1>5 DEF SpousesDone
  <2>2. /\ signals = {}
        /\ \A v \in DOMAIN strength : score[v] >= Bar(v)
        /\ \A c \in DOMAIN score \ DOMAIN strength : score[c] <= Bar(c)
    BY <1>1, <1>2, <2>1 DEF VerifiedInv
  <2>3. \A c : Bar(c)' = Bar(c) BY <2>1 DEF Bar
  <2>4. QED BY <2>1, <2>2, <2>3 DEF VerifiedInv
<1>6. ASSUME ReadSignals PROVE VerifiedInv'
  <2>1. at = "signals" /\ at' = "names" /\ found' = found /\ strength' = strength
    BY <1>6 DEF ReadSignals
  <2>2. CASE DOMAIN strength = {} BY <2>1, <2>2 DEF VerifiedInv
  <2>3. CASE DOMAIN strength # {}
    <3>1. UNCHANGED <<signals, score>> BY <1>6, <2>3 DEF ReadSignals
    <3>2. \A c : Bar(c)' = Bar(c) BY <2>1 DEF Bar
    <3>3. QED BY <1>1, <2>1, <3>1, <3>2 DEF VerifiedInv
  <2>4. QED BY <2>2, <2>3
<1>7. ASSUME DiscountNames PROVE VerifiedInv'
  <2>1. /\ at = "names" /\ at' = "ties" /\ DOMAIN score' = DOMAIN score
        /\ UNCHANGED <<found, strength, signals>>
        /\ \A m \in DOMAIN score : score'[m] =
             IF Common(m) THEN Discounted(score[m], Cardinality(Namesakes(m))) ELSE score[m]
    BY <1>7 DEF DiscountNames
  <2>2. \A v \in DOMAIN strength : score'[v] = score[v] /\ score[v] >= Bar(v)
    BY <1>1, <1>2, <2>1 DEF Common, VerifiedInv
  <2>3. \A c : Bar(c)' = Bar(c) BY <2>1 DEF Bar
  <2>4. ASSUME DOMAIN strength # {}, NEW c \in DOMAIN score \ DOMAIN strength
        PROVE  score'[c] <= Bar(c)
    <3> DEFINE x == score[c]
               n == Cardinality(Namesakes(c))
               bar == Bar(c)
    <3>1. x \in Nat /\ x <= One /\ bar \in Nat /\ SpouseScore <= bar /\ SpouseScore \in Nat
      BY <1>2 DEF SpouseScore
    <3>2. x <= bar BY <1>1, <2>1, <2>4 DEF VerifiedInv
    <3>3. Common(c) => n \in 2 .. Cardinality(Memorials) BY <1>1, Namesaked
    <3>4. score'[c] = IF Common(c) THEN Discounted(x, n) ELSE x BY <2>1
    <3> HIDE DEF x, n, bar
    <3>5. Common(c) => Discounted(x, n) \in Nat /\ Discounted(x, n) <= Higher(x, SpouseScore)
      BY <3>1, <3>3, DiscountBounds
    <3>6. Higher(x, SpouseScore) <= bar /\ Higher(x, SpouseScore) \in Nat
      BY <3>1, <3>2 DEF Higher
    <3>7. score'[c] <= bar BY <3>1, <3>2, <3>4, <3>5, <3>6
    <3>8. QED BY <3>7 DEF bar
  <2>5. DOMAIN strength # {} => signals = {} BY <1>1, <2>1 DEF VerifiedInv
  <2>6. QED BY <2>1, <2>2, <2>3, <2>4, <2>5 DEF VerifiedInv
<1>8. ASSUME BreakTie PROVE VerifiedInv'
  <2>1. at = "ties" /\ at' = "row" /\ UNCHANGED <<found, strength, signals>>
    BY <1>8 DEF BreakTie
  <2>2. \A v \in DOMAIN strength : score[v] >= Bar(v) /\ score[v] \in Nat /\ score[v] >= 65000
    BY <1>1, <1>2, <2>1 DEF VerifiedInv, SpouseScore
  <2>3. DOMAIN strength # {} => signals = {} BY <1>1, <2>1 DEF VerifiedInv
  <2>4. SUFFICES \A v \in DOMAIN strength : score'[v] >= 60000
    BY <2>1, <2>3 DEF VerifiedInv, SpouseScore
  <2>5. CASE score' = score BY <2>2, <2>5
  <2>6. ASSUME NEW a, NEW b, Tied(a, b) PROVE \A v \in DOMAIN strength : score'[v] >= 60000
    <3>1. \A v \in DOMAIN strength :
            score'[v] = IF v = a THEN Capped(score[v] + 5000)
                        ELSE IF v = b THEN Higher(score[v] - 5000, 0) ELSE score[v]
      BY <1>2, <2>6 DEF Tied
    <3>2. \A x \in Nat : x >= 65000 =>
            Capped(x + 5000) >= 60000 /\ Higher(x - 5000, 0) >= 60000
      BY DEF Capped, Higher, One
    <3>3. QED BY <2>2, <3>1, <3>2
  <2>7. QED BY <1>1, <1>8, <2>5, <2>6, TieStep
<1>9. ASSUME BuildRow PROVE VerifiedInv'
  <2>1. at = "row" /\ at' = "done" /\ UNCHANGED <<score, found, strength, signals>>
    BY <1>9 DEF BuildRow
  <2>2. QED BY <1>1, <2>1 DEF VerifiedInv
<1>10. ASSUME UNCHANGED vars PROVE VerifiedInv'
  <2>1. UNCHANGED <<at, score, found, strength, signals>> BY <1>10 DEF vars
  <2>2. \A c : Bar(c)' = Bar(c) BY <2>1 DEF Bar
  <2>3. QED BY <1>1, <2>1, <2>2 DEF VerifiedInv
<1>11. QED
  BY <1>1, <1>3, <1>4, <1>5, <1>6, <1>7, <1>8, <1>9, <1>10 DEF Next
-----------------------------------------------------------------------------
(* The memorial of the veteran on record.                                  *)

(* The one strategy without a first name or a year, in the whole country.  *)
LEMMA HeIsFound ==
  ASSUME TypeOK, ~rec.widow, NEW m \in Memorials, IsHis(m)
  PROVE  m \in DOMAIN Scored(Everywhere, Strategies)
<1> DEFINE q == FuzzyLast(rec)
           p == world[m]
           f == Filtered(q, rec, NoState)
           S == {s \in Ladder(rec) : /\ s[1] \in Strategies
                                     /\ Matches(Filtered(s[2], rec, NoState), world[m])}
<1>1. /\ q.first = "any" /\ q.last = "fuzzy" /\ (q.middle => rec.middle # NoMiddle)
      /\ q.veteran = FALSE /\ q.unit = FALSE /\ q.born = Ever /\ q.died = Ever
      /\ DOMAIN q = DOMAIN Ask
  BY DEF FuzzyLast, Ask
<1>2. /\ p.last = "equal" /\ (rec.middle = NoMiddle \/ p.middle = "equal")
      /\ Possible(p.born, p.died, FALSE) /\ (rec.spouse => p.linked)
  BY DEF IsHis
<1>3. /\ f.query = DateWindow(q) /\ f.place = PlaceOf(NoState) /\ f.linked = rec.spouse
  BY DEF Filtered
<1>4. PlaceOf(NoState) = Everywhere BY DEF PlaceOf, States, NoState
<1>5. /\ DateWindow(q).first = "any" /\ DateWindow(q).last = "fuzzy"
      /\ (DateWindow(q).middle => rec.middle # NoMiddle)
      /\ DateWindow(q).veteran = FALSE /\ DateWindow(q).unit = FALSE
      /\ DateWindow(q).born = <<1810, 9999>> /\ DateWindow(q).died = <<0, 1955>>
  <2>1. {"first", "last", "middle", "veteran", "unit", "born", "died"} = DOMAIN q
    BY <1>1 DEF Ask
  <2>2. q.born = Ever /\ q.died = Ever BY <1>1
  <2> DEFINE w == DateWindow(q)
  <2> HIDE DEF q
  <2>3. /\ w.first = q.first /\ w.last = q.last /\ w.middle = q.middle
        /\ w.veteran = q.veteran /\ w.unit = q.unit
    BY <2>1 DEF DateWindow
  <2>4. w.born = <<1810, 9999>> BY <2>1, <2>2 DEF DateWindow
  <2>5. w.died = <<0, 1955>> BY <2>1, <2>2 DEF DateWindow
  <2> HIDE DEF w
  <2>6. QED BY <1>1, <2>3, <2>4, <2>5 DEF w
<1>6. /\ p.born # NoYear => 1810 <= p.born /\ p.born <= 9999
      /\ p.died # NoYear => 0 <= p.died /\ p.died <= 1955
  <2>1. p \in Profile BY ReviewAssumption DEF TypeOK
  <2>2. p.born \in Int /\ p.died \in Int BY <2>1 DEF Profile
  <2>3. Possible(p.born, p.died, FALSE) BY <1>2
  <2> HIDE DEF p
  <2>4. /\ p.born # NoYear => 1810 <= p.born /\ p.born <= 9999
        /\ p.died # NoYear => 0 <= p.died /\ p.died <= 1955
    <3> DEFINE b == p.born
               d == p.died
    <3>1. b \in Int /\ d \in Int /\ Possible(b, d, FALSE) BY <2>2, <2>3
    <3> HIDE DEF b, d
    <3>2. /\ b # NoYear => 1810 <= b /\ b <= 9999
          /\ d # NoYear => 0 <= d /\ d <= 1955
      BY <3>1 DEF Possible
    <3>3. QED BY <3>2 DEF b, d
  <2>5. QED BY <2>4
<1>7. Matches(f, p)
  <2> HIDE DEF q, p, f
  <2>1. p.born # NoYear => Within(p.born, <<1810, 9999>>) BY <1>6 DEF Within
  <2>2. p.died # NoYear => Within(p.died, <<0, 1955>>) BY <1>6 DEF Within
  <2> DEFINE d == DateWindow(q)
             first ==
               CASE d.first = "any" -> TRUE
                 [] d.first = "exact" -> p.first = "equal"
                 [] d.first = "initial" -> p.first \in {"equal", "initial", "maleInitial"}
                 [] d.first = "nickname" -> p.nickname
             last ==
               CASE d.last = "exact" -> p.last = "equal"
                 [] d.last = "fuzzy" -> p.last # "other"
                 [] d.last = "spouse" -> p.spouseName
  <2>3. Matches(f, p) <=>
          /\ first /\ last /\ (d.middle => p.middle \in {"equal", "initial"})
          /\ (d.veteran => p.veteran) /\ (d.unit => p.unit)
          /\ (p.born # NoYear => Within(p.born, d.born))
          /\ (p.died # NoYear => Within(p.died, d.died))
          /\ f.place \in {Everywhere, p.state} /\ (f.linked => p.linked)
    BY <1>3 DEF Matches
  <2>4. first /\ last BY <1>2, <1>5
  <2> HIDE DEF first, last
  <2>5. d.middle => p.middle \in {"equal", "initial"}
    <3>1. d.middle => rec.middle # NoMiddle BY <1>5
    <3>2. CASE p.middle = "equal" BY <3>2
    <3>3. QED BY <1>2, <3>1, <3>2
  <2>6. ~d.veteran /\ ~d.unit BY <1>5
  <2>7. f.linked => p.linked BY <1>2, <1>3
  <2>8. f.place \in {Everywhere, p.state} BY <1>3, <1>4
  <2>9. /\ p.born # NoYear => Within(p.born, d.born)
        /\ p.died # NoYear => Within(p.died, d.died)
    BY <1>5, <2>1, <2>2
  <2> HIDE DEF d
  <2>10. QED BY <2>3, <2>4, <2>5, <2>6, <2>7, <2>8, <2>9, Zenon
<1>8. <<"B4-fuzzy-last", q>> \in Ladder(rec) BY DEF Ladder
<1>9. "B4-fuzzy-last" \in Strategies BY <1>8 DEF Strategies
<1>10. <<"B4-fuzzy-last", q>> \in S BY <1>7, <1>8, <1>9
<1>11. S \subseteq Ladder(rec) OBVIOUS
<1>12. ScopeState(rec, Everywhere) = NoState BY DEF ScopeState, Everywhere
<1>13. Times(Everywhere, Strategies, m) = Cardinality(S) BY <1>12 DEF Times, FoundBy
<1> HIDE DEF S
<1>14. IsFiniteSet(S) BY <1>11, LadderSize, FS_Subset
<1>15. Cardinality(S) \in Nat /\ Cardinality(S) # 0
  BY <1>10, <1>14, FS_CardinalityType, FS_EmptySet
<1>16. QED BY <1>13, <1>15 DEF Scored

LEMMA HisScoreBound ==
  ASSUME NEW r, NEW m, m.first = "equal", m.last = "equal",
         r.middle = NoMiddle \/ m.middle = "equal", Possible(m.born, m.died, FALSE),
         r.widow = FALSE
  PROVE  Score(r, m) >= HisScore
<1> DEFINE middle == MiddleScore(r, m)
           burial == BurialScore(m)
           state == StateScore(r, m)
           veteran == VeteranScore(r, m)
           widow == WidowScore(r, m)
           death == DeathScore(r, m)
           maiden == MaidenScore(r, m)
           bias == StateBias(r, m)
<1>1. LastScore(m) = 100 /\ FirstScore(r, m) = 100 BY DEF LastScore, FirstScore
<1>2. middle \in {50, 100} BY DEF MiddleScore
<1>3. /\ burial \in Nat /\ state \in Nat /\ veteran \in Nat /\ widow \in Nat
      /\ death \in Nat /\ maiden \in Nat /\ bias \in Nat
  <2>1. widow \in Nat /\ maiden \in Nat BY NameParts
  <2>2. burial \in Nat /\ state \in Nat /\ veteran \in Nat /\ death \in Nat /\ bias \in Nat
    BY OtherParts
  <2>3. QED BY <2>1, <2>2
<1>4. Weighted(r, m) = 22 * 100 + 17 * 100 + 11 * middle + 15 * burial + 5 * state
                        + 18 * veteran + 18 * widow + 22 * death + 12 * maiden + bias
  BY <1>1 DEF Weighted
<1> HIDE DEF middle, burial, state, veteran, widow, death, maiden, bias
<1> DEFINE w == Weighted(r, m)
           x == Score(r, m)
<1>5. w = 22 * 100 + 17 * 100 + 11 * middle + 15 * burial + 5 * state
            + 18 * veteran + 18 * widow + 22 * death + 12 * maiden + bias
  BY <1>4
<1>6. Penalty(r, m) = 10 BY DEF Penalty
<1>7. x = 10 * w BY <1>6 DEF Score
<1> HIDE DEF w, x
<1>8. middle \in Nat /\ middle >= 50 BY <1>2
<1>9. w >= 4450 /\ w \in Nat BY <1>3, <1>5, <1>8
<1>10. x >= 44500 BY <1>7, <1>9
<1>11. QED BY <1>10 DEF HisScore, x

LEMMA SeenNext ==
  TypeOK /\ FoundType /\ SearchInv /\ VerifiedInv /\ SeenInv /\ [Next]_vars => SeenInv'
<1>1. SUFFICES ASSUME TypeOK, FoundType, SearchInv, VerifiedInv, SeenInv, [Next]_vars,
                      answered', ~rec'.widow, Everywhere \notin todo',
                      NEW m \in Memorials, IsHis(m)'
               PROVE  Seen(m)'
  BY DEF SeenInv
<1>2. rec' = rec /\ world' = world BY <1>1, WorldStays
<1>3. IsHis(m) /\ ~rec.widow BY <1>1, <1>2 DEF IsHis
<1> DEFINE Before == answered /\ todo' = todo
<1>4. Before => Seen(m) BY <1>1, <1>3 DEF SeenInv
<1>5. \A c \in DOMAIN score : score[c] \in Nat /\ score[c] <= One BY <1>1, Steps
<1>6. ASSUME NEW scope \in todo, Search(scope) PROVE Seen(m)'
  <2>1. PICK working : /\ score' = Best(Scored(scope, working))
                       /\ answered' = (answered /\ working = Strategies)
    BY <1>6 DEF Search
  <2>2. /\ at = "search" /\ at' \in {"search", "spouse"} /\ todo' = todo \ {scope}
    BY <1>6 DEF Search
  <2>3. answered /\ working = Strategies BY <1>1, <2>1
  <2> DEFINE new == Scored(scope, working)
             best == Best(new)
  <2>4. /\ DOMAIN best = DOMAIN score \cup DOMAIN new
        /\ \A c \in DOMAIN score : best[c] >= score[c]
        /\ \A c \in DOMAIN new : best[c] >= new[c]
        /\ \A c \in DOMAIN best : best[c] \in Nat
    <3>1. DOMAIN best = DOMAIN score \cup DOMAIN new BY BestOf
    <3>2. QED BY <1>1, <3>1, BestBounds
  <2>5. m \in DOMAIN best /\ best[m] >= HisScore
    <3>1. CASE scope = Everywhere
      <4>1. m \in DOMAIN new BY <1>1, <1>3, <2>3, <3>1, HeIsFound
      <4> DEFINE r == InState(ScopeState(rec, scope))
                 s == Score(r, world[m])
                 x == new[m]
                 y == best[m]
      <4>2. x \in Nat /\ s <= x BY <1>1, <4>1, ScoredBounds
      <4>3. rec.widow = FALSE
        <5>1. rec \in Record BY <1>1, RecordFields DEF TypeOK
        <5>2. QED BY <1>3, <5>1 DEF Record
      <4>4. r.widow = FALSE /\ r.middle = rec.middle
        BY <1>1, <4>3, RecordFields DEF TypeOK
      <4>5. s >= HisScore
        <5>1. /\ world[m].first = "equal" /\ world[m].last = "equal"
              /\ rec.middle = NoMiddle \/ world[m].middle = "equal"
              /\ Possible(world[m].born, world[m].died, FALSE)
          BY <1>3 DEF IsHis
        <5> HIDE DEF r
        <5>2. QED BY <4>4, <5>1, HisScoreBound
      <4>6. s \in Nat BY ScoreBound
      <4>7. y \in Nat /\ x <= y BY <2>4, <4>1
      <4> HIDE DEF s, x, y, new, best
      <4>8. y >= HisScore BY <4>2, <4>5, <4>6, <4>7 DEF HisScore
      <4>9. QED BY <2>4, <4>1, <4>8 DEF y
    <3>2. CASE scope # Everywhere
      <4>1. Everywhere \notin todo BY <1>1, <2>2, <3>2
      <4>2. Seen(m) BY <1>1, <1>3, <2>3, <4>1 DEF SeenInv
      <4>3. m \in DOMAIN score /\ score[m] >= HisScore BY <2>2, <4>2 DEF Seen
      <4> HIDE DEF best
      <4>4. QED BY <1>5, <2>4, <4>3 DEF HisScore
    <3>3. QED BY <3>1, <3>2
  <2> HIDE DEF best
  <2>6. score' = best BY <2>1 DEF best
  <2>7. QED BY <2>2, <2>5, <2>6 DEF Seen
<1>7. ASSUME NEW c \in Memorials, VerifySpouse(c) PROVE Seen(m)'
  <2>1. at = "spouse" /\ at' = "spouse" /\ Before /\ c \in DOMAIN score
    BY <1>1, <1>7 DEF VerifySpouse, ToVerify
  <2>2. m \in DOMAIN score /\ score[m] >= HisScore BY <1>4, <2>1 DEF Seen
  <2>3. DOMAIN score' = DOMAIN score
        /\ score'[m] \in {score[m], Capped(score[m] + SpouseBoost)}
    BY <1>7, <2>2 DEF VerifySpouse
  <2>4. Capped(score[m] + SpouseBoost) >= HisScore
    BY <1>5, <2>2 DEF Capped, SpouseBoost, HisScore, One
  <2>5. QED BY <2>1, <2>2, <2>3, <2>4 DEF Seen
<1>8. ASSUME SpousesDone PROVE Seen(m)'
  <2>1. at = "spouse" /\ at' = "signals" /\ Before /\ score' = score
    BY <1>1, <1>8 DEF SpousesDone
  <2>2. QED BY <1>4, <2>1 DEF Seen
<1>9. ASSUME ReadSignals PROVE Seen(m)'
  <2>1. at = "signals" /\ at' = "names" /\ Before BY <1>1, <1>9 DEF ReadSignals
  <2>2. m \in DOMAIN score /\ score[m] >= HisScore BY <1>4, <2>1 DEF Seen
  <2>3. DOMAIN score' = DOMAIN score
        /\ score'[m] \in {score[m], Capped(score[m] + 8000)}
    BY <1>9, <2>2 DEF ReadSignals
  <2>4. Capped(score[m] + 8000) >= HisScore
    BY <1>5, <2>2 DEF Capped, HisScore, One
  <2>5. QED BY <2>1, <2>2, <2>3, <2>4 DEF Seen
<1>10. ASSUME DiscountNames PROVE Seen(m)'
  <2>1. /\ at = "names" /\ at' = "ties" /\ Before /\ DOMAIN score' = DOMAIN score
        /\ \A c \in DOMAIN score : score'[c] =
             IF Common(c) THEN Discounted(score[c], Cardinality(Namesakes(c))) ELSE score[c]
    BY <1>1, <1>10 DEF DiscountNames
  <2>2. m \in DOMAIN score /\ score[m] >= HisScore BY <1>4, <2>1 DEF Seen
  <2> DEFINE x == score[m]
             n == Cardinality(Namesakes(m))
  <2>3. x \in Nat /\ x <= One /\ x >= HisScore BY <1>5, <2>2
  <2>4. Common(m) => n \in 2 .. Cardinality(Memorials) BY <1>1, <2>2, Namesaked
  <2>5. score'[m] = IF Common(m) THEN Discounted(x, n) ELSE x BY <2>1, <2>2
  <2> HIDE DEF x, n
  <2>6. Common(m) /\ n <= 13 => Discounted(x, n) >= LowScore BY <2>3, <2>4, DiscountBounds
  <2>7. x >= LowScore BY <2>3 DEF HisScore, LowScore
  <2>8. Few(m)' => n <= 13 BY <1>2, <2>1 DEF Few, Namesakes, n
  <2>9. QED BY <2>1, <2>2, <2>5, <2>6, <2>7, <2>8 DEF Seen
<1>11. ASSUME BreakTie PROVE Seen(m)'
  <2>1. at = "ties" /\ at' = "row" /\ Before /\ UNCHANGED <<strength, found>>
    BY <1>1, <1>11 DEF BreakTie
  <2>2. m \in DOMAIN score /\ (Few(m) => score[m] >= LowScore) BY <1>4, <2>1 DEF Seen
  <2>3. DOMAIN score' = DOMAIN score /\ (Few(m)' <=> Few(m))
    <3>1. DOMAIN score' = DOMAIN score
      <4>1. ASSUME NEW a, NEW b, Tied(a, b) PROVE DOMAIN score' = DOMAIN score
        BY <4>1 DEF Tied
      <4> QED BY <1>1, <1>11, <4>1, TieStep
    <3>2. Namesakes(m)' = Namesakes(m) BY <1>2, <3>1 DEF Namesakes
    <3> QED BY <3>1, <3>2 DEF Few
  <2>4. CASE ~Few(m) BY <2>1, <2>2, <2>3, <2>4 DEF Seen
  <2>5. CASE Few(m)
    <3>1. m \in DOMAIN score /\ score[m] >= LowScore BY <2>5, <2>2
    <3>2. CASE score' = score BY <2>1, <3>1, <3>2 DEF Seen
    <3>3. ASSUME NEW a, NEW b, Tied(a, b) PROVE Seen(m)'
      <4>1. b \in DOMAIN strength /\ b \in DOMAIN score BY <1>1, <3>3 DEF Tied, TypeOK
      <4>2. score[b] >= 65000
        <5>1. score[b] >= Bar(b) BY <1>1, <2>1, <4>1 DEF VerifiedInv
        <5>2. Bar(b) \in Nat /\ Bar(b) >= 65000 BY <1>1, <4>1, BarBounds DEF SpouseScore
        <5>3. QED BY <1>5, <4>1, <5>1, <5>2
      <4>3. /\ DOMAIN score' = DOMAIN score
            /\ score'[m] = IF m = a THEN Capped(score[m] + 5000)
                           ELSE IF m = b THEN Higher(score[m] - 5000, 0) ELSE score[m]
        BY <3>1, <3>3 DEF Tied
      <4> DEFINE x == score[m]
      <4>4. x \in Nat /\ x >= LowScore /\ (m = b => x >= 65000) BY <1>5, <3>1, <4>2
      <4> HIDE DEF x
      <4>5. Capped(x + 5000) >= LowScore BY <4>4 DEF Capped, One, LowScore
      <4>6. m = b => Higher(x - 5000, 0) >= LowScore BY <4>4 DEF Higher, LowScore
      <4>7. score'[m] >= LowScore BY <4>3, <4>4, <4>5, <4>6 DEF x
      <4>8. QED BY <2>1, <2>3, <3>1, <4>3, <4>7 DEF Seen
    <3>4. QED BY <1>1, <1>11, <3>2, <3>3, TieStep
  <2>6. QED BY <2>5, <2>4
<1>12. ASSUME BuildRow PROVE Seen(m)'
  <2>1. at = "row" /\ at' = "done" /\ Before /\ score' = score
    BY <1>1, <1>12 DEF BuildRow
  <2>2. QED BY <1>2, <1>4, <2>1 DEF Seen, Few, Namesakes
<1>13. ASSUME UNCHANGED vars PROVE Seen(m)'
  <2>1. at' = at /\ Before /\ score' = score BY <1>1, <1>13 DEF vars
  <2>2. QED BY <1>2, <1>4, <2>1 DEF Seen, Few, Namesakes
<1>14. QED
  BY <1>1, <1>6, <1>7, <1>8, <1>9, <1>10, <1>11, <1>12, <1>13 DEF Next
-----------------------------------------------------------------------------
(* The order of what is known.                                             *)

(* A search finds the better name wherever it finds the worse one, and     *)
(* scores it no lower.                                                     *)
LEMMA ScoredMonotone ==
  ASSUME TypeOK, NEW scope, NEW working, NEW a \in Memorials,
         NEW b \in DOMAIN Scored(scope, working), Alike(world[a], world[b])
  PROVE  /\ a \in DOMAIN Scored(scope, working)
         /\ Scored(scope, working)[a] >= Scored(scope, working)[b]
<1> DEFINE r == InState(ScopeState(rec, scope))
           s == Score(r, world[a])
           t == Score(r, world[b])
           k == Times(scope, working, a)
           n == Times(scope, working, b)
           new == Scored(scope, working)
<1>1. b \in Memorials /\ n > 0 /\ new[b] = Converged(t, n) BY DEF Scored
<1>2. world[a] \in Profile /\ world[b] \in Profile
  BY <1>1, ReviewAssumption DEF TypeOK
<1>3. s \in Nat /\ t \in Nat /\ s <= One /\ t <= One BY ScoreBound
<1>4. t <= s BY <1>2, ScoreMonotone
<1>5. k \in Nat /\ n \in Nat /\ k <= 14 /\ n <= 14 BY FoundBound DEF Times
<1>6. n <= k BY <1>2, FoundMonotone DEF Times
<1>7. k > 0 BY <1>1, <1>5, <1>6
<1>8. a \in DOMAIN new /\ new[a] = Converged(s, k) BY <1>7 DEF Scored
<1> HIDE DEF s, t, k, n, new
<1>9. Converged(t, n) <= Converged(s, k) BY <1>3, <1>4, <1>5, <1>6, ConvergedMonotone
<1>10. Converged(t, n) \in Nat /\ Converged(s, k) \in Nat
  BY <1>3, <1>5, ConvergedBounds
<1>11. new[a] >= new[b] BY <1>1, <1>8, <1>9, <1>10
<1>12. QED BY <1>8, <1>11 DEF new

LEMMA OrderNext == TypeOK /\ SearchInv /\ OrderInv /\ [Next]_vars => OrderInv'
<1>1. SUFFICES ASSUME TypeOK, SearchInv, OrderInv, [Next]_vars, answered',
                      NEW a \in Memorials, NEW b \in Memorials,
                      Alike(world'[a], world'[b]), b \in DOMAIN found'
               PROVE  a \in DOMAIN found' /\ found'[a] >= found'[b]
  BY DEF OrderInv
<1>2. rec' = rec /\ world' = world BY <1>1, WorldStays
<1> DEFINE Goal == a \in DOMAIN found' /\ found'[a] >= found'[b]
<1>3. ASSUME NEW scope \in todo, Search(scope) PROVE Goal
  <2>1. PICK working : /\ score' = Best(Scored(scope, working))
                       /\ answered' = (answered /\ working = Strategies)
    BY <1>3 DEF Search
  <2>2. at = "search" /\ found' = score' BY <1>3 DEF Search
  <2>3. found = score /\ answered BY <1>1, <2>1, <2>2 DEF SearchInv
  <2> DEFINE new == Scored(scope, working)
             best == Best(new)
  <2>4. /\ DOMAIN best = DOMAIN score \cup DOMAIN new
        /\ \A c \in DOMAIN best : \/ c \in DOMAIN score /\ best[c] = score[c]
                                  \/ c \in DOMAIN new /\ best[c] = new[c]
    BY BestOf
  <2>5. /\ \A c \in DOMAIN score : best[c] >= score[c] /\ score[c] \in Nat
        /\ \A c \in DOMAIN new : best[c] >= new[c] /\ new[c] \in Nat
        /\ \A c \in DOMAIN best : best[c] \in Nat
    BY <1>1, BestBounds, ScoredBounds, Steps
  <2>6. b \in DOMAIN score => a \in DOMAIN score /\ score[a] >= score[b]
    BY <1>1, <1>2, <2>3 DEF OrderInv
  <2>7. b \in DOMAIN new => a \in DOMAIN new /\ new[a] >= new[b]
    BY <1>1, <1>2, ScoredMonotone
  <2> HIDE DEF new, best
  <2>8. found' = best BY <2>1, <2>2 DEF best, new
  <2>9. CASE b \in DOMAIN score /\ best[b] = score[b] BY <2>4, <2>5, <2>6, <2>8, <2>9
  <2>10. CASE b \in DOMAIN new /\ best[b] = new[b] BY <2>4, <2>5, <2>7, <2>8, <2>10
  <2>11. QED BY <1>1, <2>4, <2>8, <2>9, <2>10
<1>4. ASSUME UNCHANGED <<found, answered>> PROVE Goal
  BY <1>1, <1>2, <1>4 DEF OrderInv
<1>5. ASSUME NEW m, VerifySpouse(m) PROVE UNCHANGED <<found, answered>>
  BY <1>5 DEF VerifySpouse
<1>6. SpousesDone => UNCHANGED <<found, answered>> BY DEF SpousesDone
<1>7. ReadSignals => UNCHANGED <<found, answered>> BY DEF ReadSignals
<1>8. DiscountNames => UNCHANGED <<found, answered>> BY DEF DiscountNames
<1>9. BreakTie => UNCHANGED <<found, answered>> BY DEF BreakTie
<1>10. BuildRow => UNCHANGED <<found, answered>> BY DEF BuildRow
<1>11. UNCHANGED vars => UNCHANGED <<found, answered>> BY DEF vars
<1>12. QED
  BY <1>1, <1>3, <1>4, <1>5, <1>6, <1>7, <1>8, <1>9, <1>10, <1>11 DEF Next
-----------------------------------------------------------------------------
(* The verified at the top, and the row.                                   *)

LEMMA LeadNext ==
  TypeOK /\ FoundType /\ VerifiedInv /\ LeadInv /\ [Next]_vars => LeadInv'
<1>1. SUFFICES ASSUME TypeOK, FoundType, VerifiedInv, LeadInv, [Next]_vars
               PROVE  LeadInv'
  OBVIOUS
<1>2. ASSUME NEW scope, Search(scope) PROVE at' \in {"search", "spouse"}
  BY <1>2 DEF Search
<1>3. ASSUME NEW m, VerifySpouse(m) PROVE at' = "spouse" BY <1>3 DEF VerifySpouse
<1>4. SpousesDone => at' = "signals" BY DEF SpousesDone
<1>5. ReadSignals => at' = "names" BY DEF ReadSignals
<1>6. DiscountNames => at' = "ties" BY DEF DiscountNames
<1>7. at' \notin {"row", "done"} => LeadInv' BY DEF LeadInv
<1>8. ASSUME BreakTie PROVE LeadInv'
  <2>1. at = "ties" /\ at' = "row" /\ found' = found /\ strength' = strength
    BY <1>8 DEF BreakTie
  <2>2. SUFFICES ASSUME NEW v \in DOMAIN strength, \A c \in DOMAIN found : found[c] <= found[v]
                 PROVE  \E w \in DOMAIN strength : \A c \in DOMAIN score' : score'[c] <= score'[w]
    BY <2>1 DEF LeadInv
  <2>3. /\ \A m \in DOMAIN score : score[m] \in Nat /\ score[m] <= One
        /\ \A m \in DOMAIN score : found[m] \in Nat /\ Bar(m) \in Nat
        /\ DOMAIN strength \subseteq DOMAIN score /\ DOMAIN found = DOMAIN score
    BY <1>1, BarBounds
  <2>4. score[v] >= Bar(v) BY <1>1, <2>1, <2>2 DEF VerifiedInv
  <2>5. \A c \in DOMAIN score \ DOMAIN strength : score[c] <= score[v]
    <3>1. TAKE c \in DOMAIN score \ DOMAIN strength
    <3>2. score[c] <= Bar(c) BY <1>1, <2>1, <2>2 DEF VerifiedInv
    <3>3. Bar(c) <= Bar(v) BY <2>2, <2>3 DEF Bar, Higher, SpouseScore
    <3>4. QED BY <2>2, <2>3, <2>4, <3>2, <3>3
  <2>6. CASE score' = score
    <3>1. PICK s \in Rankings : TRUE BY <1>8 DEF BreakTie
    <3> DEFINE a == s[1]
    <3>2. a \in DOMAIN score /\ \A c \in DOMAIN score : score[c] <= score[a]
      BY <1>1, <2>2, <2>3, RankingTop
    <3> HIDE DEF a
    <3>3. CASE a \in DOMAIN strength BY <2>6, <3>2, <3>3
    <3>4. CASE a \notin DOMAIN strength
      <4>1. score[a] <= score[v] BY <2>5, <3>2, <3>4
      <4>2. \A c \in DOMAIN score : score[c] <= score[v] BY <2>2, <2>3, <3>2, <4>1
      <4>3. QED BY <2>2, <2>6, <4>2
    <3>5. QED BY <3>3, <3>4
  <2>7. ASSUME NEW a, NEW b, Tied(a, b)
        PROVE  \E w \in DOMAIN strength : \A c \in DOMAIN score' : score'[c] <= score'[w]
    <3>1. /\ a \in DOMAIN strength /\ \A c \in DOMAIN score : score[c] <= score[a]
          /\ DOMAIN score' = DOMAIN score
          /\ \A c \in DOMAIN score : score'[c] =
                 IF c = a THEN Capped(score[c] + 5000)
                 ELSE IF c = b THEN Higher(score[c] - 5000, 0) ELSE score[c]
      BY <2>7 DEF Tied
    <3>2. ASSUME NEW c \in DOMAIN score PROVE score'[c] <= score'[a]
      <4> DEFINE x == score[c]
                 y == score[a]
      <4>1. x \in Nat /\ y \in Nat /\ x <= y /\ y <= One BY <2>3, <3>1
      <4>2. score'[a] = Capped(y + 5000) BY <2>3, <3>1
      <4>3. c # a => score'[c] \in {x, Higher(x - 5000, 0)} BY <3>1
      <4> HIDE DEF x, y
      <4>4. /\ x <= Capped(y + 5000) /\ Higher(x - 5000, 0) <= Capped(y + 5000)
            /\ Capped(y + 5000) \in Nat
        BY <4>1 DEF Capped, Higher, One
      <4>5. QED BY <4>2, <4>3, <4>4
    <3>3. QED BY <3>1, <3>2
  <2>8. QED BY <1>1, <1>8, <2>6, <2>7, TieStep
<1>9. ASSUME BuildRow PROVE LeadInv'
  <2>1. at = "row" /\ UNCHANGED <<score, found, strength>> BY <1>9 DEF BuildRow
  <2>2. QED BY <1>1, <2>1 DEF LeadInv
<1>10. ASSUME UNCHANGED vars PROVE LeadInv'
  <2>1. UNCHANGED <<at, score, found, strength>> BY <1>10 DEF vars
  <2>2. QED BY <1>1, <2>1 DEF LeadInv
<1>11. QED
  BY <1>1, <1>2, <1>3, <1>4, <1>5, <1>6, <1>7, <1>8, <1>9, <1>10 DEF Next

(* The row as it is built.                                                 *)
LEMMA RowBuilt ==
  ASSUME TypeOK, SearchInv, ImpossibleInv, SeenInv, LeadInv, BuildRow
  PROVE  ImpossibleIsNotAccepted' /\ RecordedManIsSeen' /\ VerifiedStaysAhead'
<1>1. PICK s \in Rankings :
        row' = [status |-> Classify(rec, score, FALSE), best |-> Top(score),
                ranked |-> IF Len(s) > MaxCandidates THEN SubSeq(s, 1, MaxCandidates) ELSE s,
                spouse |-> DOMAIN strength # {}]
  BY DEF BuildRow
<1>2. /\ at = "row" /\ at' = "done"
      /\ UNCHANGED <<rec, world, todo, answered, score, found, tried, strength, signals>>
  BY DEF BuildRow
<1> DEFINE kept == IF Len(s) > MaxCandidates THEN SubSeq(s, 1, MaxCandidates) ELSE s
<1>3. /\ row'.status = Classify(rec, score, FALSE) /\ row'.best = Top(score)
      /\ row'.ranked = kept
  BY <1>1
<1>4. /\ s \in Seq(DOMAIN score) /\ Len(s) \in Nat /\ DOMAIN s = 1 .. Len(s)
      /\ Range(s) = DOMAIN score
      /\ DOMAIN score # {} =>
           /\ Len(s) >= 1 /\ s[1] \in DOMAIN score
           /\ \A c \in DOMAIN score : score[c] <= score[s[1]]
           /\ Top(score) = score[s[1]]
  BY RankingTop
<1>5. MaxCandidates \in Nat /\ MaxCandidates >= 1 BY ReviewAssumption
<1>6. /\ kept \in Seq(DOMAIN score)
      /\ Len(s) >= 1 => kept[1] = s[1]
      /\ kept = s \/ Len(kept) = MaxCandidates
  <2>1. CASE Len(s) > MaxCandidates
    <3>1. SubSeq(s, 1, MaxCandidates) \in Seq(DOMAIN score)
          /\ Len(SubSeq(s, 1, MaxCandidates)) = MaxCandidates
          /\ SubSeq(s, 1, MaxCandidates)[1] = s[1]
      BY <1>4, <1>5, <2>1
    <3>2. QED BY <2>1, <3>1
  <2>2. CASE ~(Len(s) > MaxCandidates) BY <1>4, <2>2
  <2>3. QED BY <2>1, <2>2
<1> HIDE DEF kept
<1>7. \A c \in DOMAIN score : score[c] \in Nat BY Steps
<1>8. Top(score) \in Nat
  <2>1. CASE DOMAIN score = {} BY <2>1 DEF Top
  <2>2. CASE DOMAIN score # {} BY <1>4, <1>7, <2>2
  <2>3. QED BY <2>1, <2>2
<1>9. ImpossibleIsNotAccepted'
  <2>1. SUFFICES ASSUME row'.status = "auto_accept"
                 PROVE  LET m == row'.ranked[1]
                        IN  Possible(world[m].born, world[m].died, rec.widow)
    BY <1>2 DEF ImpossibleIsNotAccepted
  <2>2. DOMAIN score # {} /\ Top(score) >= Unlikely BY <1>3, <1>8, <2>1, StatusTop
  <2> DEFINE m == s[1]
  <2>3. m \in DOMAIN score /\ score[m] >= Unlikely BY <1>4, <2>2
  <2>4. row'.ranked[1] = m BY <1>3, <1>4, <1>6, <2>2
  <2> HIDE DEF m
  <2>5. ~(score[m] < Unlikely) BY <1>7, <2>3 DEF Unlikely
  <2>6. Possible(world[m].born, world[m].died, rec.widow)
    BY <2>3, <2>5 DEF ImpossibleInv
  <2>7. QED BY <2>4, <2>6
<1>10. RecordedManIsSeen'
  <2>1. SUFFICES ASSUME answered, ~rec.widow, NEW m \in Memorials, IsHis(m)
                 PROVE  /\ m \in Range(kept) \/ Len(kept) = MaxCandidates
                        /\ Few(m) => row'.status \in {"auto_accept", "needs_review"}
    <3>1. \A m : (IsHis(m)' <=> IsHis(m)) /\ Namesakes(m)' = Namesakes(m)
      BY <1>2 DEF IsHis, Namesakes
    <3>2. QED BY <1>2, <1>3, <3>1 DEF RecordedManIsSeen, Few
  <2>2. Seen(m)
    <3>1. todo = {} BY <1>2 DEF SearchInv
    <3>2. QED BY <2>1, <3>1 DEF SeenInv
  <2>3. m \in DOMAIN score /\ (Few(m) => score[m] >= LowScore) BY <1>2, <2>2 DEF Seen
  <2>4. m \in Range(kept) \/ Len(kept) = MaxCandidates BY <1>4, <1>6, <2>3
  <2>5. Few(m) => Top(score) >= LowScore
    <3> SUFFICES ASSUME Few(m) PROVE Top(score) >= LowScore OBVIOUS
    <3> DEFINE x == score[m]
               y == Top(score)
    <3>1. x \in Nat /\ y \in Nat /\ x <= y /\ x >= LowScore BY <1>4, <1>7, <1>8, <2>3
    <3> HIDE DEF x, y
    <3>2. y >= LowScore BY <3>1 DEF LowScore
    <3>3. QED BY <3>2 DEF y
  <2>6. Few(m) => row'.status \in {"auto_accept", "needs_review"}
    BY <1>3, <1>8, <2>3, <2>5, StatusTop
  <2>7. QED BY <2>4, <2>6
<1>11. VerifiedStaysAhead'
  <2>1. SUFFICES ASSUME NEW v \in DOMAIN strength, \A c \in DOMAIN found : found[c] <= found[v]
                 PROVE  \E w \in DOMAIN strength : score[w] = Top(score)
    BY <1>2, <1>3 DEF VerifiedStaysAhead
  <2>2. PICK w \in DOMAIN strength : \A c \in DOMAIN score : score[c] <= score[w]
    BY <1>2, <2>1 DEF LeadInv
  <2>3. w \in DOMAIN score BY <2>2 DEF TypeOK
  <2> DEFINE x == score[w]
             y == score[s[1]]
  <2>4. x \in Nat /\ y \in Nat /\ x <= y /\ y <= x /\ Top(score) = y
    BY <1>4, <1>7, <2>2, <2>3
  <2> HIDE DEF x, y
  <2>5. x = y BY <2>4
  <2>6. QED BY <2>2, <2>4, <2>5 DEF x
<1>12. QED BY <1>9, <1>10, <1>11

LEMMA RowNext ==
  /\ TypeOK /\ SearchInv /\ ImpossibleInv /\ SeenInv /\ LeadInv /\ RowInv /\ [Next]_vars
  => RowInv'
<1>1. SUFFICES ASSUME TypeOK, SearchInv, ImpossibleInv, SeenInv, LeadInv, RowInv, [Next]_vars
               PROVE  RowInv'
  OBVIOUS
<1> DEFINE Goal == at # "done" /\ at' # "done" /\ row' = row
<1>2. ASSUME NEW scope, Search(scope) PROVE Goal BY <1>2 DEF Search
<1>3. ASSUME NEW m, VerifySpouse(m) PROVE Goal BY <1>3 DEF VerifySpouse
<1>4. SpousesDone => Goal BY DEF SpousesDone
<1>5. ReadSignals => Goal BY DEF ReadSignals
<1>6. DiscountNames => Goal BY DEF DiscountNames
<1>7. BreakTie => Goal BY DEF BreakTie
<1>8. Goal => RowInv' BY <1>1 DEF RowInv
<1>9. ASSUME BuildRow PROVE RowInv'
  <2>1. at' = "done" BY <1>9 DEF BuildRow
  <2>2. QED BY <1>1, <1>9, <2>1, RowBuilt DEF RowInv
<1>10. ASSUME UNCHANGED vars PROVE RowInv'
  BY <1>1, <1>10 DEF vars, RowInv, ImpossibleIsNotAccepted, RecordedManIsSeen,
                     VerifiedStaysAhead, IsHis, Namesakes
<1>11. QED
  BY <1>1, <1>2, <1>3, <1>4, <1>5, <1>6, <1>7, <1>8, <1>9, <1>10 DEF Next
-----------------------------------------------------------------------------
Inv ==
  /\ TypeOK /\ FoundType /\ SearchInv /\ ImpossibleInv /\ VerifiedInv
  /\ SeenInv /\ OrderInv /\ LeadInv /\ RowInv

LEMMA InvInit == Init => Inv
<1>1. SUFFICES ASSUME Init PROVE Inv OBVIOUS
<1>2. TypeOK /\ SearchInv BY <1>1, TypeInit
<1>3. DOMAIN score = {} /\ DOMAIN found = {} /\ DOMAIN strength = {} /\ at = "search"
      /\ row = NoRow
  BY <1>1 DEF Init, Nothing
<1>4. Everywhere \in todo BY <1>1 DEF Init, Scopes, Everywhere
<1>5. FoundType /\ ImpossibleInv /\ VerifiedInv /\ LeadInv
  BY <1>3 DEF FoundType, ImpossibleInv, VerifiedInv, LeadInv
<1>6. SeenInv BY <1>4 DEF SeenInv
<1>7. OrderInv BY <1>3 DEF OrderInv
<1>8. RowInv BY <1>3 DEF RowInv
<1>9. QED BY <1>2, <1>5, <1>6, <1>7, <1>8 DEF Inv

LEMMA InvNext == Inv /\ [Next]_vars => Inv'
<1>1. SUFFICES ASSUME Inv, [Next]_vars PROVE Inv' OBVIOUS
<1>2. TypeOK' /\ SearchInv' BY <1>1, TypeNext DEF Inv
<1>3. FoundType' BY <1>1, FoundNext DEF Inv
<1>4. ImpossibleInv' BY <1>1, ImpossibleNext DEF Inv
<1>5. VerifiedInv' BY <1>1, VerifiedNext DEF Inv
<1>6. SeenInv' BY <1>1, SeenNext DEF Inv
<1>7. OrderInv' BY <1>1, OrderNext DEF Inv
<1>8. LeadInv' BY <1>1, LeadNext DEF Inv
<1>9. RowInv' BY <1>1, RowNext DEF Inv
<1>10. QED BY <1>2, <1>3, <1>4, <1>5, <1>6, <1>7, <1>8, <1>9 DEF Inv

LEMMA InvHolds == Spec => []Inv
BY InvInit, InvNext, PTL DEF Spec

(* Every variable of the review keeps its type, for any records, memorials *)
(* and outages: no score leaves 0 .. 1 (the weights of scoring.py, the     *)
(* bonus of fourteen strategies, the boosts and the discounts together).   *)
THEOREM ReviewTypes == Spec => []TypeOK
<1>1. Inv => TypeOK BY DEF Inv
<1>2. QED BY <1>1, InvHolds, PTL

(* No memorial with dates no veteran of the war (or widow of one) can have *)
(* is accepted unseen, whatever finds it and whatever its page says.       *)
THEOREM ImpossibleNeverAccepted == Spec => []ImpossibleIsNotAccepted
<1>1. Inv => ImpossibleIsNotAccepted BY DEF Inv, RowInv, ImpossibleIsNotAccepted, NoRow
<1>2. QED BY <1>1, InvHolds, PTL

(* If all searches were answered, the memorial of a veteran on record is   *)
(* in the row unless that is full, and the row is looked at or accepted    *)
(* unless fourteen or more have his name.                                  *)
THEOREM HisMemorialIsSeen == Spec => []RecordedManIsSeen
<1>1. Inv => RecordedManIsSeen BY DEF Inv, RowInv, RecordedManIsSeen
<1>2. QED BY <1>1, InvHolds, PTL

(* The better name has at least the score, and no candidate without a      *)
(* verified spouse is put above the best of those found, if that one has.  *)
THEOREM ScoreOrders == Spec => []ScoreKeepsTheOrder
<1>1. Inv => VerifiedStaysAhead BY DEF Inv, RowInv, VerifiedStaysAhead
<1>2. ASSUME Inv PROVE BetterNameScoresHigher
  <2>1. DOMAIN found \subseteq Memorials BY <1>2 DEF Inv, TypeOK
  <2>2. SUFFICES ASSUME answered, NEW a \in DOMAIN found, NEW b \in DOMAIN found,
                        Alike(world[a], world[b])
                 PROVE  found[a] >= found[b]
    BY DEF BetterNameScoresHigher, Alike
  <2>3. QED BY <1>2, <2>1, <2>2 DEF Inv, OrderInv
<1>3. Inv => ScoreKeepsTheOrder BY <1>1, <1>2 DEF ScoreKeepsTheOrder
<1>4. QED BY <1>3, InvHolds, PTL
-----------------------------------------------------------------------------
(* Learning: what a pass writes comes to the trainer.                      *)

(* The operators of the library mean the same in Learning.                 *)
LEMMA LibraryOfLearning ==
  /\ \A S : L!IsFiniteSet(S) = IsFiniteSet(S)
  /\ \A S : L!Cardinality(S) = Cardinality(S)
  /\ \A S : L!Min(S) = Min(S)
  /\ \A S : L!Max(S) = Max(S)
<1>1. \A S : L!IsFiniteSet(S) = IsFiniteSet(S)
  BY DEF L!IsFiniteSet, IsFiniteSet
<1>2. \A S : L!Cardinality(S) = Cardinality(S)
  BY Zenon DEF L!Cardinality, Cardinality
<1>3. \A S : L!Min(S) = Min(S)
  BY Zenon DEF L!Min, Min
<1>4. \A S : L!Max(S) = Max(S)
  BY Zenon DEF L!Max, Max
<1> QED BY <1>1, <1>2, <1>3, <1>4

LEMMA LeastOf ==
  ASSUME NEW S \in SUBSET Nat, S # {}
  PROVE  Min(S) \in S /\ \A y \in S : Min(S) <= y
<1>1. PICK x \in S : \A y \in S : ~(<<y, x>> \in OpToRel(<, Nat))
  BY WFMin, NatLessThanWellFounded
<1>2. \A y \in S : ~(y < x) BY <1>1 DEF OpToRel
<1>3. \A y \in S : x <= y BY <1>2
<1>4. QED BY <1>3 DEF Min

LEMMA MostOf ==
  ASSUME NEW n \in Nat, NEW S \in SUBSET (0 .. n), S # {}
  PROVE  Max(S) \in S /\ \A y \in S : y <= Max(S)
<1> DEFINE T == {k \in 0 .. n : n - k \in S}
<1>1. T \in SUBSET Nat /\ T # {}
  <2>1. PICK x \in S : TRUE OBVIOUS
  <2>2. x \in 0 .. n /\ n - x \in 0 .. n /\ n - (n - x) = x OBVIOUS
  <2>3. n - x \in T BY <2>2
  <2>4. \A y \in T : y \in Nat OBVIOUS
  <2> HIDE DEF T
  <2> QED BY <2>3, <2>4
<1> DEFINE m == Min(T)
<1>2. m \in T /\ \A y \in T : m <= y BY <1>1, LeastOf
<1> HIDE DEF m
<1>3. n - m \in S BY <1>2
<1>4. ASSUME NEW y \in S PROVE y <= n - m
  <2>1. n - y \in T /\ y \in 0 .. n OBVIOUS
  <2> QED BY <1>2, <2>1
<1> QED BY <1>3, <1>4 DEF Max

Newest == L!Newest
Decided == L!Decided(Newest)
Lines == L!Labels \cup {Broken}

LabelType ==
  /\ sidecars \in Seq(L!Sidecars) /\ lines \in Seq(Lines) /\ own \in Own
  /\ unwritten \in SUBSET DOMAIN Folk /\ kills \in Nat /\ passes \in 0 .. MaxPasses
  /\ tail # "line" => lines # <<>> /\ kills > 0
  /\ pass \in {"no", "runs", "through"} /\ (pass # "runs" => unwritten = {})
  /\ pass # "no" => /\ sidecars # <<>> /\ Newest # Broken /\ Decided # {}
                    /\ unwritten \subseteq Decided

(* The last label of his the trainer reads is the newest decision.         *)
Arrived(i) ==
  \E k \in DOMAIN lines :
    /\ lines[k] = L!LabelOf(Newest, i)
    /\ \A l \in DOMAIN lines : l > k /\ lines[l] # Broken => lines[l].who # Folk[i]

(* What the pass has written has arrived, but for the first label where it *)
(* was put behind a torn line.                                             *)
CopyInv ==
  pass # "no" =>
    /\ \A i \in Decided \ unwritten : \A j \in unwritten : i < j
    /\ \A i \in Decided \ unwritten : Arrived(i) \/ (kills > 0 /\ i = Min(Decided))
    /\ unwritten # Decided => tail = "line"

LEMMA LearningConstants ==
  /\ Folk \in Seq(L!ToSet(Folk)) /\ \A i, j \in DOMAIN Folk : Folk[i] = Folk[j] => i = j
  /\ Broken \notin L!Labels /\ Broken \notin [L!ToSet(Folk) -> L!Decisions]
  /\ MaxPasses \in Nat /\ MaxKills \in Nat /\ MaxSidecars \in Nat
  /\ DOMAIN Folk = 1 .. Len(Folk) /\ Len(Folk) \in Nat /\ DOMAIN Folk \in SUBSET Nat
<1>1. Folk \in Seq(L!ToSet(Folk)) BY ReviewingAssumption DEF L!LearningAssumption
<1>2. DOMAIN Folk = 1 .. Len(Folk) /\ Len(Folk) \in Nat BY <1>1
<1> QED BY <1>1, <1>2, ReviewingAssumption DEF L!LearningAssumption

(* The newest sidecar is decisions where it is no broken one, and a label  *)
(* of one of them is a label.                                              *)
LEMMA NewestIs ==
  ASSUME LabelType, sidecars # <<>>, Newest # Broken
  PROVE  /\ Newest \in [L!ToSet(Folk) -> L!Decisions]
         /\ \A i \in DOMAIN Folk :
              /\ L!LabelOf(Newest, i) \in L!Labels
              /\ L!LabelOf(Newest, i).who = Folk[i]
              /\ L!LabelOf(Newest, i).says = L!Review(Newest[Folk[i]])
         /\ Decided \subseteq DOMAIN Folk /\ Decided \in SUBSET Nat
<1>1. Newest \in L!Sidecars
  <2>1. Len(sidecars) \in Nat /\ Len(sidecars) # 0 /\ DOMAIN sidecars = 1 .. Len(sidecars)
    BY DEF LabelType
  <2> QED BY <2>1 DEF LabelType, Newest, L!Newest, L!Last
<1>2. Newest \in [L!ToSet(Folk) -> L!Decisions] BY <1>1 DEF L!Sidecars
<1>3. ASSUME NEW i \in DOMAIN Folk
      PROVE  /\ L!LabelOf(Newest, i) \in L!Labels
             /\ L!LabelOf(Newest, i).who = Folk[i]
             /\ L!LabelOf(Newest, i).says = L!Review(Newest[Folk[i]])
  <2>1. Folk[i] \in L!ToSet(Folk) BY DEF L!ToSet
  <2>2. Newest[Folk[i]] \in L!Decisions BY <1>2, <2>1
  <2>3. L!Review(Newest[Folk[i]]) \in {"accepted", "ambiguous", "rejected", "unreviewed"}
    BY <2>2 DEF L!Review, L!Decisions
  <2> QED BY <2>1, <2>3 DEF L!LabelOf, L!Labels
<1>4. Decided \subseteq DOMAIN Folk BY DEF Decided, L!Decided
<1> QED BY <1>2, <1>3, <1>4, LearningConstants

LEMMA PutType ==
  ASSUME LabelType, NEW l \in Lines
  PROVE  L!Put(lines, l) \in Seq(Lines) /\ L!Put(lines, l) # <<>>
<1>1. CASE tail = "line"
  BY <1>1 DEF LabelType, L!Put
<1>2. CASE tail # "line"
  <2>1. lines \in Seq(Lines) /\ lines # <<>> BY <1>2 DEF LabelType
  <2>2. L!Front(lines) \in Seq(Lines)
    <3>1. Len(lines) \in Nat /\ Len(lines) # 0 BY <2>1
    <3> QED BY <2>1, <3>1 DEF L!Front
  <2>3. Broken \in Lines BY DEF Lines
  <2> QED BY <1>2, <2>2, <2>3 DEF L!Put
<1> QED BY <1>1, <1>2

LEMMA LabelsStart == ASSUME L!Init PROVE LabelType /\ CopyInv
<1>1. passes \in 0 .. MaxPasses BY DEF L!Init
<1> QED BY <1>1 DEF L!Init, LabelType, CopyInv

LEMMA SameLabels ==
  ASSUME LabelType, CopyInv,
         UNCHANGED <<sidecars, lines, tail, unwritten, pass, own, passes, kills>>
  PROVE  LabelType' /\ CopyInv'
<1>1. Newest' = Newest /\ Decided' = Decided
  BY DEF Newest, L!Newest, Decided, L!Decided
<1> QED BY <1>1 DEF LabelType, CopyInv, Arrived

LEMMA BeginLabels ==
  ASSUME LabelType, CopyInv, L!BeginPass PROVE LabelType' /\ CopyInv'
<1>1. Newest' = Newest /\ Decided' = Decided
  BY DEF L!BeginPass, Newest, L!Newest, Decided, L!Decided
<1>2. /\ sidecars # <<>> /\ Newest # Broken /\ Decided # {}
      /\ unwritten' = Decided /\ pass' = "runs" /\ passes < MaxPasses /\ passes' = passes + 1
      /\ UNCHANGED <<sidecars, lines, tail, own, kills>>
  BY DEF L!BeginPass, Newest, Decided
<1>3. Decided \subseteq DOMAIN Folk BY DEF Decided, L!Decided
<1>4. passes' \in 0 .. MaxPasses BY <1>2, LearningConstants DEF LabelType
<1> QED BY <1>1, <1>2, <1>3, <1>4 DEF LabelType, CopyInv

LEMMA WriteLabels ==
  ASSUME LabelType, CopyInv, L!WriteLabel PROVE LabelType' /\ CopyInv'
<1> DEFINE m == Min(unwritten)
           l == L!LabelOf(Newest, m)
<1>1. Newest' = Newest /\ Decided' = Decided
  BY DEF L!WriteLabel, Newest, L!Newest, Decided, L!Decided
<1>2. /\ pass = "runs" /\ unwritten # {} /\ lines' = L!Put(lines, l) /\ tail' = "line"
      /\ unwritten' = unwritten \ {m}
      /\ UNCHANGED <<sidecars, pass, own, passes, kills>>
  BY LibraryOfLearning DEF L!WriteLabel, L!NextLabel, Newest
<1>3. /\ sidecars # <<>> /\ Newest # Broken /\ unwritten \subseteq Decided /\ Decided # {}
      /\ unwritten \in SUBSET Nat /\ unwritten \subseteq DOMAIN Folk
  BY <1>2, LearningConstants DEF LabelType
<1>4. m \in unwritten /\ \A j \in unwritten : m <= j BY <1>2, <1>3, LeastOf
<1>5. l \in L!Labels /\ l.who = Folk[m] /\ l # Broken
  BY <1>3, <1>4, NewestIs, LearningConstants
<1> HIDE DEF m
<1>6. Decided \in SUBSET Nat /\ Decided \subseteq DOMAIN Folk BY <1>3, NewestIs
<1> HIDE DEF l
<1>7. lines' \in Seq(Lines) /\ lines' # <<>> BY <1>2, <1>5, PutType DEF Lines
<1>8. LabelType'
  BY <1>1, <1>2, <1>3, <1>7 DEF LabelType
<1>9. \A i \in Decided \ unwritten' : \A j \in unwritten' : i < j
  <2> SUFFICES ASSUME NEW i \in Decided \ unwritten', NEW j \in unwritten' PROVE i < j
    OBVIOUS
  <2>1. j \in unwritten /\ j # m /\ m < j /\ j \in Nat BY <1>2, <1>3, <1>4
  <2>2. CASE i = m BY <2>1, <2>2
  <2>3. CASE i # m BY <2>1, <2>3, <1>2 DEF CopyInv
  <2> QED BY <2>2, <2>3
<1>10. lines \in Seq(Lines) BY DEF LabelType
<1>11. ASSUME NEW i, i = m, tail = "line" PROVE Arrived(i)'
  <2>1. lines' = Append(lines, l) BY <1>2, <1>11 DEF L!Put
  <2>2. /\ DOMAIN lines' = 1 .. Len(lines) + 1 /\ lines'[Len(lines) + 1] = l
    BY <1>10, <2>1
  <2>3. L!LabelOf(Newest, i)' = l BY <1>1, <1>11 DEF l, L!LabelOf
  <2> QED BY <2>2, <2>3, <1>10 DEF Arrived
<1>12. ASSUME NEW i \in Decided \ unwritten PROVE (Arrived(i) \/ (kills > 0 /\ i = Min(Decided)))'
  <2>1. tail = "line" BY <1>12, <1>2 DEF CopyInv
  <2>2. lines' = Append(lines, l) BY <1>2, <2>1 DEF L!Put
  <2>3. /\ DOMAIN lines' = 1 .. Len(lines) + 1 /\ lines'[Len(lines) + 1] = l
        /\ DOMAIN lines = 1 .. Len(lines) /\ Len(lines) \in Nat
        /\ \A k \in DOMAIN lines : lines'[k] = lines[k]
    BY <1>10, <2>2
  <2>4. Folk[m] # Folk[i]
    <3>1. m \in DOMAIN Folk /\ i \in DOMAIN Folk /\ m # i BY <1>3, <1>4, <1>6
    <3> QED BY <3>1, LearningConstants
  <2>5. CASE Arrived(i)
    <3>1. PICK k \in DOMAIN lines :
            /\ lines[k] = L!LabelOf(Newest, i)
            /\ \A n \in DOMAIN lines : n > k /\ lines[n] # Broken => lines[n].who # Folk[i]
      BY <2>5 DEF Arrived
    <3>2. k \in DOMAIN lines' /\ lines'[k] = lines[k] BY <2>3
    <3>3. L!LabelOf(Newest, i)' = L!LabelOf(Newest, i) BY <1>1 DEF L!LabelOf
    <3>4. \A n \in DOMAIN lines' : n > k /\ lines'[n] # Broken => lines'[n].who # Folk[i]
      BY <2>3, <2>4, <3>1, <1>5
    <3> QED BY <3>1, <3>2, <3>3, <3>4 DEF Arrived
  <2>6. CASE ~Arrived(i)
    <3>1. kills > 0 /\ i = Min(Decided) BY <1>2, <1>12, <2>6 DEF CopyInv
    <3> QED BY <1>1, <1>2, <3>1
  <2> QED BY <2>5, <2>6
<1>13. ASSUME NEW i, i = m PROVE (Arrived(i) \/ (kills > 0 /\ i = Min(Decided)))'
  <2>1. CASE tail = "line" BY <1>11, <1>13, <2>1
  <2>2. CASE tail # "line"
    <3>1. unwritten = Decided BY <1>2, <2>2 DEF CopyInv
    <3>2. i = Min(Decided) BY <1>13, <3>1 DEF m
    <3> QED BY <1>1, <1>2, <2>2, <3>2 DEF LabelType
  <2> QED BY <2>1, <2>2
<1>14. CopyInv'
  <2>1. \A i \in Decided \ unwritten' : (Arrived(i) \/ (kills > 0 /\ i = Min(Decided)))'
    <3> SUFFICES ASSUME NEW i \in Decided \ unwritten'
                 PROVE (Arrived(i) \/ (kills > 0 /\ i = Min(Decided)))'
      OBVIOUS
    <3>1. CASE i = m BY <1>13, <3>1
    <3>2. CASE i # m BY <1>12, <3>2, <1>2
    <3> QED BY <3>1, <3>2
  <2> QED BY <1>1, <1>2, <1>9, <2>1 DEF CopyInv
<1> QED BY <1>8, <1>14

LEMMA KilledLabels ==
  ASSUME LabelType, L!Killed PROVE LabelType' /\ CopyInv'
<1>1. /\ unwritten' = {} /\ pass' = "no" /\ kills' = kills + 1 /\ pass = "runs"
      /\ UNCHANGED <<sidecars, own, passes>>
      /\ \/ UNCHANGED <<lines, tail>>
         \/ unwritten # {} /\ tail' = "cut" /\ lines' = L!Put(lines, Broken)
         \/ /\ unwritten # {} /\ tail' = "whole"
            /\ lines' = L!Put(lines, L!LabelOf(Newest, Min(unwritten)))
  BY LibraryOfLearning DEF L!Killed, L!NextLabel, Newest
<1>2. kills \in Nat /\ kills' > 0 BY <1>1 DEF LabelType
<1>3. lines' \in Seq(Lines) /\ (tail' # "line" => lines' # <<>>)
  <2>1. CASE UNCHANGED <<lines, tail>> BY <2>1 DEF LabelType
  <2>2. CASE unwritten # {} /\ lines' = L!Put(lines, Broken)
    BY <2>2, PutType DEF Lines
  <2>3. CASE unwritten # {} /\ lines' = L!Put(lines, L!LabelOf(Newest, Min(unwritten)))
    <3>1. unwritten \in SUBSET Nat /\ unwritten \subseteq DOMAIN Folk
      BY LearningConstants DEF LabelType
    <3>2. Min(unwritten) \in DOMAIN Folk BY <2>3, <3>1, LeastOf
    <3>3. sidecars # <<>> /\ Newest # Broken BY <1>1 DEF LabelType
    <3>4. L!LabelOf(Newest, Min(unwritten)) \in Lines BY <3>2, <3>3, NewestIs DEF Lines
    <3> QED BY <2>3, <3>4, PutType
  <2> QED BY <1>1, <2>1, <2>2, <2>3
<1> QED BY <1>1, <1>2, <1>3 DEF LabelType, CopyInv

LEMMA LabelStep ==
  ASSUME LabelType, CopyInv, [L!Next]_L!labelVars PROVE LabelType' /\ CopyInv'
<1>1. ASSUME NEW side \in L!Sidecars, L!Save(side) PROVE LabelType' /\ CopyInv'
  <2>1. /\ sidecars' = Append(sidecars, side) /\ pass' = "no" /\ pass # "runs"
        /\ UNCHANGED <<lines, tail, unwritten, own, passes, kills>>
    BY <1>1 DEF L!Save
  <2>2. sidecars' \in Seq(L!Sidecars) BY <2>1 DEF LabelType
  <2> QED BY <2>1, <2>2 DEF LabelType, CopyInv
<1>2. CASE L!EndPass
  <2>1. Newest' = Newest /\ Decided' = Decided
    BY <1>2 DEF L!EndPass, Newest, L!Newest, Decided, L!Decided
  <2>2. /\ pass = "runs" /\ pass' = "through" /\ unwritten = {}
        /\ UNCHANGED <<sidecars, lines, tail, unwritten, own, passes, kills>>
    BY <1>2 DEF L!EndPass
  <2> QED BY <2>1, <2>2 DEF LabelType, CopyInv, Arrived
<1>3. CASE L!Train BY <1>3, SameLabels DEF L!Train
<1>4. CASE \E plans \in PlanLists, budget \in Budgets : L!Rank(plans, budget)
  BY <1>4, SameLabels DEF L!Rank
<1>5. CASE \E picks \in PickLists : L!Learn(picks) BY <1>5, SameLabels DEF L!Learn
<1>6. CASE UNCHANGED L!labelVars BY <1>6, SameLabels DEF L!labelVars
<1> QED BY <1>1, <1>2, <1>3, <1>4, <1>5, <1>6, BeginLabels, WriteLabels, KilledLabels DEF L!Next

(* What has arrived is what the trainer reads last.                        *)
LEMMA ReadsLast ==
  ASSUME LabelType, pass # "no", NEW i \in Decided, Arrived(i)
  PROVE  L!LastLabelOf(Folk[i]) = L!Review(Newest[Folk[i]])
<1>1. PICK k \in DOMAIN lines :
        /\ lines[k] = L!LabelOf(Newest, i)
        /\ \A l \in DOMAIN lines : l > k /\ lines[l] # Broken => lines[l].who # Folk[i]
  BY DEF Arrived
<1> DEFINE his == {n \in L!Readable : lines[n].who = Folk[i]}
<1>2. sidecars # <<>> /\ Newest # Broken /\ i \in DOMAIN Folk
  BY DEF LabelType, Decided, L!Decided
<1>3. /\ lines[k] \in L!Labels /\ lines[k].who = Folk[i]
      /\ lines[k].says = L!Review(Newest[Folk[i]]) /\ lines[k] # Broken
  BY <1>1, <1>2, NewestIs, LearningConstants
<1>4. k \in his BY <1>3 DEF L!Readable
<1>5. DOMAIN lines = 1 .. Len(lines) /\ Len(lines) \in Nat BY DEF LabelType
<1>6. his \in SUBSET (0 .. Len(lines)) BY <1>5 DEF L!Readable
<1>7. \A l \in his : l <= k BY <1>1, <1>5 DEF L!Readable
<1> DEFINE top == Max(his)
<1> HIDE DEF his
<1>8. top \in his /\ \A y \in his : y <= top BY <1>4, <1>5, <1>6, MostOf
<1>9. top = k BY <1>4, <1>5, <1>6, <1>7, <1>8
<1>10. L!LastLabelOf(Folk[i]) = lines[top].says
  <2>1. his # {} BY <1>4
  <2> QED BY <2>1, LibraryOfLearning DEF L!LastLabelOf, his
<1> QED BY <1>3, <1>9, <1>10

LEMMA TrainerReads ==
  ASSUME LabelType, CopyInv PROVE LabelsReachTheTrainer
<1> DEFINE wrong == {i \in Decided :
                    \/ L!LastLabelOf(Folk[i]) = "none"
                    \/ (L!LastLabelOf(Folk[i]) = "accepted") # (Newest[Folk[i]] = "picked")}
<1> SUFFICES ASSUME pass = "through", Newest # Broken
             PROVE  wrong = {} \/ (kills > 0 /\ wrong = {Min(Decided)})
  BY LibraryOfLearning DEF LabelsReachTheTrainer, L!LabelsReachTheTrainer, Newest, L!Newest, Decided
<1>1. unwritten = {} /\ sidecars # <<>> BY DEF LabelType
<1>2. ASSUME NEW i \in Decided, Arrived(i) PROVE i \notin wrong
  <2>1. L!LastLabelOf(Folk[i]) = L!Review(Newest[Folk[i]]) BY <1>2, ReadsLast
  <2>2. Newest[Folk[i]] \in L!Decisions
    <3>1. i \in DOMAIN Folk BY DEF Decided, L!Decided
    <3>2. Folk[i] \in L!ToSet(Folk) BY <3>1 DEF L!ToSet
    <3> QED BY <3>2, <1>1, NewestIs
  <2>3. /\ L!Review(Newest[Folk[i]]) # "none"
        /\ (L!Review(Newest[Folk[i]]) = "accepted") <=> (Newest[Folk[i]] = "picked")
    BY <2>2 DEF L!Review, L!Decisions
  <2> QED BY <2>1, <2>3
<1>3. \A i \in wrong : kills > 0 /\ i = Min(Decided)
  BY <1>1, <1>2 DEF CopyInv
<1> HIDE DEF wrong
<1> QED BY <1>3

(* Whatever is saved, run and killed, the trainer reads the newest         *)
(* decisions.                                                              *)
THEOREM DecisionsArrive == L!Spec => []LabelsReachTheTrainer
<1>1. L!Init => LabelType /\ CopyInv BY LabelsStart
<1>2. LabelType /\ CopyInv /\ [L!Next]_L!labelVars => LabelType' /\ CopyInv' BY LabelStep
<1>3. LabelType /\ CopyInv => LabelsReachTheTrainer BY TrainerReads
<1> QED BY <1>1, <1>2, <1>3, PTL DEF L!Spec
-----------------------------------------------------------------------------
(* Orders and sums.                                                        *)

(* A relation that puts the members of S one behind the other.             *)
IsOrder(S, R) ==
  /\ \A x \in S : <<x, x>> \notin R
  /\ \A x, y \in S : x # y => <<x, y>> \in R \/ <<y, x>> \in R
  /\ \A x, y, z \in S : <<x, y>> \in R /\ <<y, z>> \in R => <<x, z>> \in R

(* InOrder has each member once, and has them in order.                    *)
LEMMA OrderIs ==
  ASSUME NEW S, IsFiniteSet(S), NEW R, IsOrder(S, R)
  PROVE  /\ DOMAIN L!InOrder(S, R) = 1 .. Cardinality(S)
         /\ \A i \in 1 .. Cardinality(S) : L!InOrder(S, R)[i] \in S
         /\ \A k \in S : \E i \in 1 .. Cardinality(S) : L!InOrder(S, R)[i] = k
         /\ \A i, j \in 1 .. Cardinality(S) :
              i < j => <<L!InOrder(S, R)[i], L!InOrder(S, R)[j]>> \in R
<1> DEFINE Before(k) == {j \in S : <<j, k>> \in R}
           rank(k) == Cardinality(Before(k))
           s == L!InOrder(S, R)
           K == Cardinality(S)
<1>1. K \in Nat BY FS_CardinalityType
<1>2. \A k \in S : IsFiniteSet(Before(k)) /\ rank(k) \in Nat /\ rank(k) <= K - 1
  <2> SUFFICES ASSUME NEW k \in S
               PROVE  IsFiniteSet(Before(k)) /\ rank(k) \in Nat /\ rank(k) <= K - 1
    OBVIOUS
  <2>1. IsFiniteSet(S \ {k}) /\ Cardinality(S \ {k}) = K - 1 BY FS_RemoveElement
  <2>2. Before(k) \in SUBSET (S \ {k}) BY DEF IsOrder
  <2>3. IsFiniteSet(Before(k)) /\ Cardinality(Before(k)) <= Cardinality(S \ {k})
    BY <2>1, <2>2, FS_Subset
  <2> QED BY <2>1, <2>3, FS_CardinalityType
<1>3. \A x, y \in S : <<x, y>> \in R => rank(x) < rank(y)
  <2> SUFFICES ASSUME NEW x \in S, NEW y \in S, <<x, y>> \in R PROVE rank(x) < rank(y)
    OBVIOUS
  <2>1. IsFiniteSet(Before(x)) /\ IsFiniteSet(Before(y)) /\ rank(x) \in Nat /\ rank(y) \in Nat
    BY <1>2
  <2>2. x \notin Before(x) BY DEF IsOrder
  <2>3. (Before(x) \cup {x}) \in SUBSET Before(y) BY DEF IsOrder
  <2> HIDE DEF Before
  <2>4. Cardinality(Before(x) \cup {x}) = Cardinality(Before(x)) + 1
    BY <2>1, <2>2, FS_AddElement
  <2>5. Cardinality(Before(x) \cup {x}) <= Cardinality(Before(y)) BY <2>1, <2>3, FS_Subset
  <2> QED BY <2>1, <2>4, <2>5
<1>4. s = [n \in 1 .. K |-> CHOOSE k \in S : rank(k) = n - 1]
  BY Zenon DEF L!InOrder, L!Cardinality, Cardinality
<1> HIDE DEF rank, Before, s
<1>5. \A x, y \in S : rank(x) = rank(y) => x = y
  <2> SUFFICES ASSUME NEW x \in S, NEW y \in S, rank(x) = rank(y), x # y PROVE FALSE
    OBVIOUS
  <2>1. <<x, y>> \in R \/ <<y, x>> \in R BY DEF IsOrder
  <2> QED BY <1>2, <1>3, <2>1
<1> DEFINE r == [k \in S |-> rank(k) + 1]
<1>6. r \in Injection(S, 1 .. K) 
  <2>1. r \in [S -> 1 .. K] BY <1>1, <1>2
  <2>2. \A x, y \in S : r[x] = r[y] => x = y BY <1>2, <1>5
  <2> HIDE DEF r
  <2> QED BY <2>1, <2>2 DEF Injection, IsInjective
<1>7. IsFiniteSet(1 .. K) /\ Cardinality(1 .. K) = K
  <2>1. 1 \in Int /\ K \in Int BY <1>1
  <2> QED BY <1>1, <2>1, FS_Interval
<1>8. r \in Surjection(S, 1 .. K) 
  <2> HIDE DEF r
  <2> QED BY <1>6, <1>7, FS_Injection
<1>9. \A n \in 1 .. K : \E k \in S : rank(k) = n - 1
  <2> SUFFICES ASSUME NEW n \in 1 .. K PROVE \E k \in S : rank(k) = n - 1 OBVIOUS
  <2>1. PICK k \in S : r[k] = n
    <3> HIDE DEF r
    <3> QED BY <1>8 DEF Surjection
  <2> QED BY <2>1, <1>2
<1>10. \A n \in 1 .. K : s[n] \in S /\ rank(s[n]) = n - 1
  BY <1>4, <1>9, Zenon
<1>11. DOMAIN s = 1 .. K BY <1>4
<1>12. \A k \in S : \E i \in 1 .. K : s[i] = k
  <2> SUFFICES ASSUME NEW k \in S PROVE \E i \in 1 .. K : s[i] = k OBVIOUS
  <2>1. rank(k) + 1 \in 1 .. K BY <1>1, <1>2
  <2>2. rank(s[rank(k) + 1]) = rank(k) /\ s[rank(k) + 1] \in S BY <1>10, <1>2, <2>1
  <2> QED BY <1>5, <2>1, <2>2
<1>13. \A i, j \in 1 .. K : i < j => <<s[i], s[j]>> \in R
  <2> SUFFICES ASSUME NEW i \in 1 .. K, NEW j \in 1 .. K, i < j PROVE <<s[i], s[j]>> \in R
    OBVIOUS
  <2>1. s[i] \in S /\ s[j] \in S /\ rank(s[i]) = i - 1 /\ rank(s[j]) = j - 1 BY <1>10
  <2>2. s[i] # s[j] BY <2>1
  <2>3. <<s[i], s[j]>> \in R \/ <<s[j], s[i]>> \in R BY <2>1, <2>2 DEF IsOrder
  <2>4. <<s[j], s[i]>> \notin R BY <1>3, <2>1
  <2> QED BY <2>3, <2>4
<1> QED BY <1>10, <1>11, <1>12, <1>13 DEF s

(* The units of a sum.                                                     *)
Units(S, f) == UNION {{k} \X (1 .. f[k]) : k \in S}

LEMMA SumIs ==
  ASSUME NEW S, NEW f PROVE L!SumOver(S, f) = Cardinality(Units(S, f))
BY LibraryOfLearning DEF L!SumOver, Units

(* A sum of numbers between lo and hi.                                     *)
LEMMA SumBounds ==
  ASSUME NEW S, IsFiniteSet(S), NEW f, NEW lo \in Nat, NEW hi \in Nat,
         \A k \in S : f[k] \in lo .. hi
  PROVE  /\ IsFiniteSet(Units(S, f)) /\ L!SumOver(S, f) \in Nat
         /\ Cardinality(S) * lo <= L!SumOver(S, f)
         /\ L!SumOver(S, f) <= Cardinality(S) * hi
<1>1. ASSUME NEW n \in Nat
      PROVE  IsFiniteSet(S \X (1 .. n)) /\ Cardinality(S \X (1 .. n)) = Cardinality(S) * n
  <2>1. 1 \in Int /\ n \in Int OBVIOUS
  <2>2. IsFiniteSet(1 .. n) /\ Cardinality(1 .. n) = n BY <2>1, FS_Interval
  <2> QED BY <2>2, FS_Product
<1>2. Units(S, f) \in SUBSET (S \X (1 .. hi))
  <2> SUFFICES ASSUME NEW k \in S, NEW x \in {k} \X (1 .. f[k]) PROVE x \in S \X (1 .. hi)
    BY DEF Units
  <2> QED OBVIOUS
<1>3. S \X (1 .. lo) \in SUBSET Units(S, f)
  <2> SUFFICES ASSUME NEW k \in S, NEW n \in 1 .. lo PROVE <<k, n>> \in Units(S, f)
    OBVIOUS
  <2>1. <<k, n>> \in {k} \X (1 .. f[k]) OBVIOUS
  <2> QED BY <2>1 DEF Units
<1>4. IsFiniteSet(Units(S, f)) /\ Cardinality(Units(S, f)) <= Cardinality(S) * hi
  <2>1. IsFiniteSet(S \X (1 .. hi)) /\ Cardinality(S \X (1 .. hi)) = Cardinality(S) * hi
    BY <1>1
  <2> QED BY <1>2, <2>1, FS_Subset
<1>5. Cardinality(S) * lo <= Cardinality(Units(S, f))
  <2>1. Cardinality(S \X (1 .. lo)) = Cardinality(S) * lo BY <1>1
  <2> QED BY <1>3, <1>4, <2>1, FS_Subset
<1> QED BY <1>4, <1>5, SumIs, FS_CardinalityType

(* A sum over two sets without a common member.                            *)
LEMMA SumOfTwo ==
  ASSUME NEW S, NEW T, S \cap T = {}, NEW f,
         IsFiniteSet(Units(S, f)), IsFiniteSet(Units(T, f))
  PROVE  L!SumOver(S \cup T, f) = L!SumOver(S, f) + L!SumOver(T, f)
<1>1. Units(S \cup T, f) = Units(S, f) \cup Units(T, f) BY DEF Units
<1>2. Units(S, f) \cap Units(T, f) = {} BY DEF Units
<1>3. Cardinality({}) = 0 BY FS_EmptySet
<1>4. /\ Cardinality(Units(S, f)) \in Nat /\ Cardinality(Units(T, f)) \in Nat
  BY FS_CardinalityType
<1>5. Cardinality(Units(S, f) \cup Units(T, f))
        = Cardinality(Units(S, f)) + Cardinality(Units(T, f)) - 0
  BY <1>2, <1>3, FS_Union
<1>6. L!SumOver(S \cup T, f) = Cardinality(Units(S, f) \cup Units(T, f)) BY <1>1, SumIs
<1>7. /\ L!SumOver(S, f) = Cardinality(Units(S, f))
      /\ L!SumOver(T, f) = Cardinality(Units(T, f))
  BY SumIs
<1> QED BY <1>4, <1>5, <1>6, <1>7

(* The set T falls in parts, each counted m times.                         *)
Falls(I, T, part, m, f) ==
  /\ IsFiniteSet(T) /\ m \in Nat
  /\ \A i \in I : part[i] \in SUBSET T
  /\ \A t \in T : \E i \in I : t \in part[i]
  /\ \A i, j \in I : i # j => part[i] \cap part[j] = {}
  /\ \A i \in I : f[i] = m * Cardinality(part[i])

LEMMA SumOfParts ==
  ASSUME NEW I, NEW T, NEW part, NEW m, NEW f, Falls(I, T, part, m, f)
  PROVE  L!SumOver(I, f) = m * Cardinality(T)
<1>0. /\ IsFiniteSet(T) /\ m \in Nat
      /\ \A i \in I : part[i] \in SUBSET T
      /\ \A t \in T : \E i \in I : t \in part[i]
      /\ \A i, j \in I : i # j => part[i] \cap part[j] = {}
      /\ \A i \in I : f[i] = m * Cardinality(part[i])
  BY DEF Falls
<1> DEFINE whole == T \X (1 .. m)
           piece(i) == part[i] \X (1 .. m)
<1>1. IsFiniteSet(1 .. m) /\ Cardinality(1 .. m) = m
  <2>1. 1 \in Int /\ m \in Int BY <1>0
  <2> QED BY <1>0, <2>1, FS_Interval
<1>2. Cardinality(T) \in Nat BY <1>0, FS_CardinalityType
<1>3. IsFiniteSet(whole) /\ Cardinality(whole) = m * Cardinality(T)
  <2>1. IsFiniteSet(whole) /\ Cardinality(whole) = Cardinality(T) * m
    BY <1>0, <1>1, FS_Product
  <2> QED BY <1>0, <1>2, <2>1
<1>4. \A i \in I : IsFiniteSet(piece(i)) /\ Cardinality(piece(i)) = f[i] /\ f[i] \in Nat
  <2> SUFFICES ASSUME NEW i \in I
               PROVE  IsFiniteSet(piece(i)) /\ Cardinality(piece(i)) = f[i] /\ f[i] \in Nat
    OBVIOUS
  <2>1. IsFiniteSet(part[i]) /\ Cardinality(part[i]) \in Nat 
    BY <1>0, FS_Subset, FS_CardinalityType
  <2>2. IsFiniteSet(piece(i)) /\ Cardinality(piece(i)) = Cardinality(part[i]) * m
    BY <1>1, <2>1, FS_Product
  <2> QED BY <1>0, <2>1, <2>2
<1> HIDE DEF piece
<1>5. \A i \in I : \E b : b \in Bijection(1 .. f[i], piece(i))
  BY <1>4, FS_CardinalityType DEF ExistsBijection
<1> DEFINE b(i) == CHOOSE g : g \in Bijection(1 .. f[i], piece(i))
           to == [x \in Units(I, f) |-> b(x[1])[x[2]]]
<1>6. \A i \in I : b(i) \in Bijection(1 .. f[i], piece(i)) BY <1>5
<1> HIDE DEF b
<1>7. \A i \in I : /\ \A n \in 1 .. f[i] : b(i)[n] \in piece(i)
                   /\ \A n, k \in 1 .. f[i] : b(i)[n] = b(i)[k] => n = k
                   /\ \A y \in piece(i) : \E n \in 1 .. f[i] : b(i)[n] = y
  <2> SUFFICES ASSUME NEW i \in I
               PROVE  /\ \A n \in 1 .. f[i] : b(i)[n] \in piece(i)
                      /\ \A n, k \in 1 .. f[i] : b(i)[n] = b(i)[k] => n = k
                      /\ \A y \in piece(i) : \E n \in 1 .. f[i] : b(i)[n] = y
    OBVIOUS
  <2>1. b(i) \in Bijection(1 .. f[i], piece(i)) BY <1>6
  <2> QED BY <2>1 DEF Bijection, Injection, Surjection, IsInjective
<1>8. \A x \in Units(I, f) : x[1] \in I /\ x[2] \in 1 .. f[x[1]] /\ x = <<x[1], x[2]>>
  BY DEF Units
<1>9. \A i \in I : \A n \in 1 .. f[i] : <<i, n>> \in Units(I, f)
  <2> SUFFICES ASSUME NEW i \in I, NEW n \in 1 .. f[i] PROVE <<i, n>> \in Units(I, f) OBVIOUS
  <2>1. <<i, n>> \in {i} \X (1 .. f[i]) OBVIOUS
  <2> QED BY <2>1 DEF Units
<1>10. to \in [Units(I, f) -> whole]
  <2> SUFFICES ASSUME NEW x \in Units(I, f) PROVE b(x[1])[x[2]] \in whole OBVIOUS
  <2>1. b(x[1])[x[2]] \in piece(x[1]) BY <1>7, <1>8
  <2> QED BY <1>0, <1>8, <2>1 DEF piece
<1>11. \A x, y \in Units(I, f) : to[x] = to[y] => x = y
  <2> SUFFICES ASSUME NEW x \in Units(I, f), NEW y \in Units(I, f),
                      b(x[1])[x[2]] = b(y[1])[y[2]]
               PROVE  x = y
    OBVIOUS
  <2>1. x[1] = y[1]
    <3>1. b(x[1])[x[2]] \in piece(x[1]) /\ b(y[1])[y[2]] \in piece(y[1]) BY <1>7, <1>8
    <3>2. PICK t, u : b(x[1])[x[2]] = <<t, u>> /\ t \in part[x[1]] /\ t \in part[y[1]]
      BY <3>1 DEF piece
    <3> QED BY <1>0, <1>8, <3>2
  <2>2. x[2] = y[2] BY <1>7, <1>8, <2>1
  <2> QED BY <1>8, <2>1, <2>2
<1>12. \A y \in whole : \E x \in Units(I, f) : to[x] = y
  <2> SUFFICES ASSUME NEW t \in T, NEW n \in 1 .. m
               PROVE  \E x \in Units(I, f) : to[x] = <<t, n>>
    OBVIOUS
  <2>1. PICK i \in I : t \in part[i] BY <1>0
  <2>2. <<t, n>> \in piece(i) BY <2>1 DEF piece
  <2>3. PICK k \in 1 .. f[i] : b(i)[k] = <<t, n>> BY <1>7, <2>2
  <2>4. <<i, k>> \in Units(I, f) BY <1>9
  <2> QED BY <2>3, <2>4
<1> HIDE DEF to, whole
<1>13. to \in Bijection(Units(I, f), whole)
  BY <1>10, <1>11, <1>12 DEF Bijection, Injection, Surjection, IsInjective
<1>14. ExistsBijection(whole, Units(I, f))
  BY <1>13, Fun_ExistsBijSymmetric DEF ExistsBijection
<1>15. Cardinality(Units(I, f)) = Cardinality(whole) BY <1>3, <1>14, FS_Bijection
<1> QED BY <1>3, <1>15, SumIs
-----------------------------------------------------------------------------
(* The labels in their order, cut in parts.                                *)

LEMMA FitConstants ==
  Highest \in Nat /\ Highest > 0 /\ Unit \in Nat /\ Unit > 0 /\ Bins \in Nat /\ Bins > 0
<1>1. {Highest, Unit, Bins, Halvings} \subseteq Nat \ {0}
  BY ReviewingAssumption DEF L!LearningAssumption
<1> QED BY <1>1

LEMMA OwnLabels ==
  \A b \in Own :
    /\ b \in Seq([accepted : BOOLEAN, score : 0 .. Highest])
    /\ \A k \in 1 .. (Len(b) + MaxPasses * Len(Folk)) \div Bins + 1 : Unit % k = 0
BY ReviewingAssumption, Zenon DEF L!LearningAssumption

LEMMA Quotient ==
  ASSUME NEW a \in Int, NEW d \in Nat, d > 0
  PROVE  a \div d \in Int /\ d * (a \div d) <= a /\ a < d * (a \div d + 1)
OBVIOUS

LEMMA QuotientIs ==
  ASSUME NEW a \in Int, NEW d \in Nat, d > 0, NEW q \in Int, d * q <= a
  PROVE  q <= a \div d
<1>1. a \div d \in Int /\ a < d * (a \div d + 1) BY Quotient
<1> DEFINE p == a \div d
<1> HIDE DEF p
<1>2. d * q < d * (p + 1) BY <1>1 DEF p
<1>3. q < p + 1
  <2> SUFFICES ASSUME q >= p + 1 PROVE FALSE BY <1>1 DEF p
  <2>1. d * q >= d * (p + 1) BY <1>1 DEF p
  <2> QED BY <1>1, <1>2, <2>1 DEF p
<1> QED BY <1>1, <1>3 DEF p

LEMMA QuotientGrows ==
  ASSUME NEW a \in Int, NEW b \in Int, a <= b, NEW d \in Nat, d > 0
  PROVE  a \div d <= b \div d
<1>1. a \div d \in Int /\ d * (a \div d) <= a BY Quotient
<1>2. d * (a \div d) <= b BY <1>1
<1> QED BY <1>1, <1>2, QuotientIs

Cut(n, i) == (i * n) \div Bins

LEMMA Cuts ==
  ASSUME NEW n \in Nat
  PROVE  /\ \A i \in 0 .. Bins : Cut(n, i) \in 0 .. n
         /\ Cut(n, 0) = 0 /\ Cut(n, Bins) = n
         /\ \A i, j \in 0 .. Bins : i <= j => Cut(n, i) <= Cut(n, j)
         /\ \A i \in 1 .. Bins : Cut(n, i) - Cut(n, i - 1) <= n \div Bins + 1
<1> USE FitConstants
<1>1. ASSUME NEW i \in 0 .. Bins, NEW j \in 0 .. Bins, i <= j PROVE Cut(n, i) <= Cut(n, j)
  <2>1. i * n <= j * n /\ i * n \in Int /\ j * n \in Int BY <1>1
  <2> QED BY <2>1, QuotientGrows DEF Cut
<1>2. Cut(n, 0) = 0
  <2>1. 0 * n = 0 OBVIOUS
  <2> QED BY <2>1 DEF Cut
<1>3. Cut(n, Bins) = n
  <2> DEFINE q == (Bins * n) \div Bins
  <2>1. Bins * n \in Int OBVIOUS
  <2>2. q \in Int /\ Bins * q <= Bins * n BY <2>1, Quotient
  <2>3. n <= q BY <2>1, QuotientIs
  <2> HIDE DEF q
  <2>4. q <= n
    <3> SUFFICES ASSUME q >= n + 1 PROVE FALSE BY <2>2
    <3>1. Bins * q >= Bins * (n + 1) BY <2>2
    <3>2. Bins * (n + 1) = Bins * n + Bins OBVIOUS
    <3> QED BY <2>1, <2>2, <3>1, <3>2
  <2> QED BY <2>2, <2>3, <2>4 DEF q, Cut
<1>4. \A i \in 0 .. Bins : Cut(n, i) \in 0 .. n
  <2> SUFFICES ASSUME NEW i \in 0 .. Bins PROVE Cut(n, i) \in 0 .. n OBVIOUS
  <2>1. i * n \in Int OBVIOUS
  <2>2. Cut(n, i) \in Int BY <2>1, Quotient DEF Cut
  <2>3. 0 \in 0 .. Bins /\ Bins \in 0 .. Bins /\ 0 <= i /\ i <= Bins OBVIOUS
  <2> QED BY <1>1, <1>2, <1>3, <2>2, <2>3
<1>5. \A i \in 1 .. Bins : Cut(n, i) - Cut(n, i - 1) <= n \div Bins + 1
  <2> SUFFICES ASSUME NEW i \in 1 .. Bins PROVE Cut(n, i) - Cut(n, i - 1) <= n \div Bins + 1
    OBVIOUS
  <2> DEFINE c == Cut(n, i)  e == Cut(n, i - 1)
  <2>1. i * n \in Int /\ (i - 1) * n \in Int /\ i * n = (i - 1) * n + n OBVIOUS
  <2>2. c \in Int /\ Bins * c <= i * n BY <2>1, Quotient DEF Cut
  <2>3. e \in Int /\ (i - 1) * n < Bins * (e + 1) BY <2>1, Quotient DEF Cut
  <2> HIDE DEF c, e
  <2>4. Bins * (c - e - 1) <= n
    <3>1. Bins * (c - e - 1) = Bins * c - Bins * (e + 1) BY <2>2, <2>3
    <3>2. Bins * c \in Int /\ Bins * (e + 1) \in Int BY <2>2, <2>3
    <3> QED BY <2>1, <2>2, <2>3, <3>1, <3>2
  <2>5. c - e - 1 <= n \div Bins BY <2>2, <2>3, <2>4, QuotientIs
  <2>6. n \div Bins \in Int BY Quotient
  <2> QED BY <2>2, <2>3, <2>5, <2>6 DEF c, e
<1> QED BY <1>1, <1>2, <1>3, <1>4, <1>5

(* Each place lies between two cuts.                                       *)
LEMMA CutsCover ==
  ASSUME NEW n \in Nat, NEW r \in 1 .. n
  PROVE  \E i \in 1 .. Bins : Cut(n, i - 1) < r /\ r <= Cut(n, i)
<1> DEFINE S == {i \in 0 .. Bins : r <= Cut(n, i)}
<1> USE FitConstants
<1>1. Bins \in S BY Cuts
<1>2. S \in SUBSET Nat OBVIOUS
<1>3. Min(S) \in S /\ \A y \in S : Min(S) <= y BY <1>1, <1>2, LeastOf
<1> DEFINE i == Min(S)
<1> HIDE DEF S
<1>4. i \in 0 .. Bins /\ r <= Cut(n, i) /\ i # 0 BY <1>3, Cuts DEF S
<1>5. i - 1 \notin S BY <1>3, <1>4
<1>6. i - 1 \in 0 .. Bins /\ Cut(n, i - 1) \in 0 .. n
  <2>1. i - 1 \in 0 .. Bins BY <1>4
  <2> QED BY <2>1, Cuts
<1>7. Cut(n, i - 1) < r BY <1>5, <1>6 DEF S
<1> QED BY <1>4, <1>7
(* What labels are.                                                        *)
Are(labels) ==
  /\ IsFiniteSet(DOMAIN labels) /\ DOMAIN labels \in SUBSET Nat
  /\ \A k \in DOMAIN labels :
       labels[k].accepted \in BOOLEAN /\ labels[k].score \in 0 .. Highest

LEMMA SortedIs ==
  ASSUME NEW labels, Are(labels)
  PROVE  /\ IsOrder(DOMAIN labels, L!Sorted(labels))
         /\ \A x, y \in DOMAIN labels :
              <<x, y>> \in L!Sorted(labels) => ~L!Less(labels[y], labels[x])
<1> USE FitConstants
<1> DEFINE S == DOMAIN labels
           Lt(x, y) == L!Less(labels[x], labels[y])
<1>1. \A x, y \in S :
        <<x, y>> \in L!Sorted(labels) <=> Lt(x, y) \/ (~Lt(y, x) /\ x < y)
  BY DEF L!Sorted
<1>2. S \in SUBSET Nat BY DEF Are
<1>3. \A x, y \in S : Lt(x, y) <=>
        \/ labels[x].score < labels[y].score
        \/ labels[x].score = labels[y].score /\ ~labels[x].accepted /\ labels[y].accepted
  BY DEF L!Less
<1>4. \A x \in S : labels[x].accepted \in BOOLEAN /\ labels[x].score \in Nat
  BY DEF Are
<1>5. \A x, y \in S : Lt(x, y) => ~Lt(y, x) BY <1>3, <1>4
<1>6. \A x, y, z \in S : Lt(x, y) /\ ~Lt(z, y) => Lt(x, z) BY <1>3, <1>4
<1>7. \A x, y, z \in S : ~Lt(y, x) /\ Lt(y, z) => Lt(x, z) BY <1>3, <1>4
<1>8. \A x, y, z \in S : ~Lt(y, x) /\ ~Lt(z, y) => ~Lt(z, x) BY <1>3, <1>4
<1> HIDE DEF Lt
<1>9. \A x, y, z \in S : <<x, y>> \in L!Sorted(labels) /\ <<y, z>> \in L!Sorted(labels)
                           => <<x, z>> \in L!Sorted(labels)
  BY <1>1, <1>2, <1>5, <1>6, <1>7, <1>8
<1>10. \A x, y \in S : x # y => <<x, y>> \in L!Sorted(labels) \/ <<y, x>> \in L!Sorted(labels)
  BY <1>1, <1>2
<1>11. \A x \in S : <<x, x>> \notin L!Sorted(labels) BY <1>1, <1>2, <1>5
<1>12. IsOrder(S, L!Sorted(labels)) BY <1>9, <1>10, <1>11 DEF IsOrder
<1> QED BY <1>1, <1>5, <1>12 DEF Lt

Order(labels) == L!InOrder(DOMAIN labels, L!Sorted(labels))
Part(labels, i) ==
  LET n == Cardinality(DOMAIN labels)
  IN  {Order(labels)[r] : r \in Cut(n, i - 1) + 1 .. Cut(n, i)}

(* The parts have the labels in order, each in one of them.                *)
LEMMA PartFacts ==
  ASSUME NEW labels, Are(labels), NEW n, n = Cardinality(DOMAIN labels)
  PROVE  /\ \A i \in 1 .. Bins :
              /\ Part(labels, i) \in SUBSET DOMAIN labels
              /\ Cardinality(Part(labels, i)) = Cut(n, i) - Cut(n, i - 1)
         /\ \A k \in DOMAIN labels : \E i \in 1 .. Bins : k \in Part(labels, i)
         /\ \A i, j \in 1 .. Bins : i < j =>
              \A x \in Part(labels, i), y \in Part(labels, j) :
                x # y /\ ~L!Less(labels[y], labels[x])
<1> DEFINE S == DOMAIN labels
           s == Order(labels)
           R == L!Sorted(labels)
<1>1. IsFiniteSet(S) /\ IsOrder(S, R) BY SortedIs DEF Are
<1>2. n \in Nat BY <1>1, FS_CardinalityType
<1>3. /\ \A i \in 1 .. n : s[i] \in S
      /\ \A k \in S : \E i \in 1 .. n : s[i] = k
      /\ \A i, j \in 1 .. n : i < j => <<s[i], s[j]>> \in R
  BY <1>1, OrderIs DEF Order
<1>4. \A i, j \in 1 .. n : i < j => s[i] # s[j] /\ ~L!Less(labels[s[j]], labels[s[i]])
  BY <1>1, <1>3, SortedIs DEF IsOrder
<1>5. \A i \in 1 .. Bins :
        /\ Part(labels, i) = {s[r] : r \in Cut(n, i - 1) + 1 .. Cut(n, i)}
        /\ Cut(n, i - 1) \in 0 .. n /\ Cut(n, i) \in 0 .. n /\ Cut(n, i - 1) <= Cut(n, i)
  <2> SUFFICES ASSUME NEW i \in 1 .. Bins
               PROVE  /\ Part(labels, i) = {s[r] : r \in Cut(n, i - 1) + 1 .. Cut(n, i)}
                      /\ Cut(n, i - 1) \in 0 .. n /\ Cut(n, i) \in 0 .. n
                      /\ Cut(n, i - 1) <= Cut(n, i)
    OBVIOUS
  <2>1. i \in 0 .. Bins /\ i - 1 \in 0 .. Bins /\ i - 1 <= i BY FitConstants
  <2> QED BY <1>2, <2>1, Cuts DEF Part
<1> HIDE DEF s
<1>6. ASSUME NEW i \in 1 .. Bins
      PROVE  /\ Part(labels, i) \in SUBSET S
             /\ Cardinality(Part(labels, i)) = Cut(n, i) - Cut(n, i - 1)
  <2> DEFINE a == Cut(n, i - 1) + 1  b == Cut(n, i)
             g == [r \in a .. b |-> s[r]]
  <2>1. a \in Int /\ b \in Int /\ a >= 1 /\ b <= n /\ a <= b + 1 BY <1>2, <1>5
  <2> HIDE DEF a, b
  <2>2. a .. b \in SUBSET (1 .. n) BY <1>2, <2>1
  <2>3. Part(labels, i) = {s[r] : r \in a .. b} BY <1>5 DEF a, b
  <2>4. Part(labels, i) \in SUBSET S BY <1>3, <2>2, <2>3
  <2>5. \A x, y \in a .. b : g[x] = g[y] => x = y
    <3> SUFFICES ASSUME NEW x \in a .. b, NEW y \in a .. b, s[x] = s[y], x # y PROVE FALSE
      OBVIOUS
    <3>1. x \in 1 .. n /\ y \in 1 .. n /\ (x < y \/ y < x) BY <2>1, <2>2
    <3> QED BY <1>4, <3>1
  <2>6. g \in [a .. b -> Part(labels, i)] BY <2>3
  <2>7. \A t \in Part(labels, i) : \E x \in a .. b : g[x] = t BY <2>3
  <2> HIDE DEF g
  <2>8. g \in Bijection(a .. b, Part(labels, i))
    BY <2>5, <2>6, <2>7 DEF Bijection, Injection, Surjection, IsInjective
  <2>9. IsFiniteSet(a .. b) /\ Cardinality(a .. b) = b - a + 1
    <3>1. IsFiniteSet(a .. b) /\ Cardinality(a .. b) = IF a > b THEN 0 ELSE b - a + 1
      BY <2>1, FS_Interval
    <3> QED BY <2>1, <3>1
  <2>10. Cardinality(Part(labels, i)) = b - a + 1
    <3>1. ExistsBijection(a .. b, Part(labels, i)) BY <2>8 DEF ExistsBijection
    <3> QED BY <2>9, <3>1, FS_Bijection
  <2>11. b - a + 1 = Cut(n, i) - Cut(n, i - 1) BY <1>5 DEF a, b
  <2> QED BY <2>4, <2>10, <2>11
<1>7. ASSUME NEW k \in S PROVE \E i \in 1 .. Bins : k \in Part(labels, i)
  <2>1. PICK r \in 1 .. n : s[r] = k BY <1>3
  <2>2. PICK i \in 1 .. Bins : Cut(n, i - 1) < r /\ r <= Cut(n, i) BY <1>2, CutsCover
  <2>3. r \in Cut(n, i - 1) + 1 .. Cut(n, i) BY <1>5, <2>2
  <2> QED BY <1>5, <2>1, <2>3
<1>8. ASSUME NEW i \in 1 .. Bins, NEW j \in 1 .. Bins, i < j,
             NEW x \in Part(labels, i), NEW y \in Part(labels, j)
      PROVE  x # y /\ ~L!Less(labels[y], labels[x])
  <2>1. PICK p \in Cut(n, i - 1) + 1 .. Cut(n, i) : x = s[p] BY <1>5
  <2>2. PICK q \in Cut(n, j - 1) + 1 .. Cut(n, j) : y = s[q] BY <1>5
  <2>3. Cut(n, i) <= Cut(n, j - 1)
    <3>1. i \in 0 .. Bins /\ j - 1 \in 0 .. Bins /\ i <= j - 1 BY <1>8, FitConstants
    <3> QED BY <1>2, <3>1, Cuts
  <2>4. p \in 1 .. n /\ q \in 1 .. n /\ p < q BY <1>2, <1>5, <2>3
  <2> QED BY <1>4, <2>1, <2>2, <2>4
<1> QED BY <1>6, <1>7, <1>8

Size(labels, i) ==
  Cut(Cardinality(DOMAIN labels), i) - Cut(Cardinality(DOMAIN labels), i - 1)

LEMMA PointsAre ==
  ASSUME NEW labels
  PROVE  LET n == Cardinality(DOMAIN labels)
             P == L!Points(labels)
         IN  /\ DOMAIN P = {b \in 1 .. Bins : Cut(n, b - 1) < Cut(n, b)}
             /\ \A i \in DOMAIN P :
                  /\ P[i].at = (Unit * L!Scores(labels, Part(labels, i))) \div Size(labels, i)
                  /\ P[i].size = Size(labels, i)
                  /\ P[i].p = (Unit * L!Accepted(labels, Part(labels, i))) \div Size(labels, i)
<1> DEFINE n == Cardinality(DOMAIN labels)
<1>1. L!Points(labels) =
        [i \in {b \in 1 .. Bins : Cut(n, b - 1) < Cut(n, b)} |->
           [at |-> (Unit * L!Scores(labels, Part(labels, i))) \div Size(labels, i),
            size |-> Size(labels, i),
            p |-> (Unit * L!Accepted(labels, Part(labels, i))) \div Size(labels, i)]]
  BY Zenon DEF L!Points, Part, Order, Cut, Size, L!Cardinality, Cardinality
<1> QED BY <1>1

LEMMA ScoresAre ==
  ASSUME NEW labels, Are(labels), NEW S \in SUBSET DOMAIN labels,
         NEW lo \in Nat, NEW hi \in Nat, \A k \in S : labels[k].score \in lo .. hi
  PROVE  /\ L!Scores(labels, S) \in Nat
         /\ Cardinality(S) * lo <= L!Scores(labels, S)
         /\ L!Scores(labels, S) <= Cardinality(S) * hi
<1> DEFINE f == [k \in S |-> labels[k].score]
<1>1. IsFiniteSet(S) BY FS_Subset DEF Are
<1>2. \A k \in S : f[k] \in lo .. hi OBVIOUS
<1>3. L!Scores(labels, S) = L!SumOver(S, f) BY DEF L!Scores
<1> HIDE DEF f
<1> QED BY <1>1, <1>2, <1>3, SumBounds

LEMMA AcceptedAre ==
  ASSUME NEW labels, Are(labels), NEW S \in SUBSET DOMAIN labels
  PROVE  /\ IsFiniteSet(S) /\ Cardinality(S) \in Nat
         /\ L!Accepted(labels, S) = Cardinality({k \in S : labels[k].accepted})
         /\ L!Accepted(labels, S) \in 0 .. Cardinality(S)
         /\ (\A k \in S : labels[k].accepted) => L!Accepted(labels, S) = Cardinality(S)
         /\ (\A k \in S : ~labels[k].accepted) => L!Accepted(labels, S) = 0
<1> DEFINE A == {k \in S : labels[k].accepted}
<1>1. IsFiniteSet(S) /\ Cardinality(S) \in Nat BY FS_Subset, FS_CardinalityType DEF Are
<1>2. L!Accepted(labels, S) = Cardinality(A) BY LibraryOfLearning DEF L!Accepted
<1>3. A \in SUBSET S OBVIOUS
<1>4. Cardinality(A) \in Nat /\ Cardinality(A) <= Cardinality(S)
  <2> HIDE DEF A
  <2> QED BY <1>1, <1>3, FS_Subset, FS_CardinalityType
<1>5. (\A k \in S : labels[k].accepted) => A = S OBVIOUS
<1>6. (\A k \in S : ~labels[k].accepted) => A = {} OBVIOUS
<1>7. Cardinality({}) = 0 BY FS_EmptySet
<1> HIDE DEF A
<1>8. /\ L!Accepted(labels, S) \in 0 .. Cardinality(S)
      /\ A = S => L!Accepted(labels, S) = Cardinality(S)
      /\ A = {} => L!Accepted(labels, S) = 0
  BY <1>1, <1>2, <1>4, <1>7
<1>9. L!Accepted(labels, S) = Cardinality({k \in S : labels[k].accepted}) BY <1>2 DEF A
<1> QED BY <1>1, <1>5, <1>6, <1>8, <1>9

(* An average lies between what it is the average of.                      *)
LEMMA Average ==
  ASSUME NEW u \in Nat, NEW s \in Nat, NEW z \in Nat, z > 0, NEW t \in Nat
  PROVE  /\ (u * s) \div z \in Nat
         /\ s <= z * t => (u * s) \div z <= u * t
         /\ z * t <= s => u * t <= (u * s) \div z
<1> DEFINE a == u * s  q == a \div z
<1>1. a \in Nat OBVIOUS
<1>2. q \in Int /\ z * q <= a /\ a < z * (q + 1) BY <1>1, Quotient
<1>3. 0 <= q
  <2>1. z * 0 <= a BY <1>1
  <2> QED BY <1>1, <2>1, QuotientIs
<1>4. ASSUME z * t <= s PROVE u * t <= q
  <2>1. u * (z * t) <= u * s /\ u * (z * t) = z * (u * t) /\ u * t \in Int BY <1>4
  <2>2. z * (u * t) <= a BY <2>1
  <2> QED BY <1>1, <2>1, <2>2, QuotientIs
<1>5. ASSUME s <= z * t PROVE q <= u * t
  <2>1. a <= u * (z * t) /\ u * (z * t) = z * (u * t) /\ u * t \in Int BY <1>5
  <2> DEFINE w == u * t
  <2> HIDE DEF a, q, w
  <2>2. z * q <= z * w /\ w \in Int BY <1>1, <1>2, <2>1 DEF w
  <2>3. q <= w
    <3> SUFFICES ASSUME q >= w + 1 PROVE FALSE BY <1>2, <2>2
    <3>1. z * q >= z * (w + 1) /\ z * (w + 1) = z * w + z BY <1>2, <2>2
    <3> QED BY <1>2, <2>2, <3>1
  <2> QED BY <2>3 DEF w
<1> QED BY <1>2, <1>3, <1>4, <1>5

Grows(P) ==
  /\ DOMAIN P \in SUBSET (1 .. Bins)
  /\ \A i \in DOMAIN P : P[i].at \in Nat /\ P[i].p \in Nat
  /\ \A i, j \in DOMAIN P : i < j => P[i].at <= P[j].at /\ P[i].p <= P[j].p

(* The points have their averages in order; those of acceptance if the     *)
(* accepted labels have the best scores.                                   *)
LEMMA PointsGrow ==
  ASSUME NEW labels, Are(labels), L!Clear(labels)
  PROVE  Grows(L!Points(labels))
<1> DEFINE n == Cardinality(DOMAIN labels)
           P == L!Points(labels)
           sc(k) == labels[k].score
<1> USE FitConstants
<1>1. /\ DOMAIN P = {b \in 1 .. Bins : Cut(n, b - 1) < Cut(n, b)}
      /\ \A i \in DOMAIN P :
           /\ P[i].at = (Unit * L!Scores(labels, Part(labels, i))) \div Size(labels, i)
           /\ P[i].p = (Unit * L!Accepted(labels, Part(labels, i))) \div Size(labels, i)
  BY PointsAre
<1>2. n \in Nat BY FS_CardinalityType DEF Are
<1> HIDE DEF P
<1>3. ASSUME NEW i \in DOMAIN P
      PROVE  /\ i \in 1 .. Bins /\ Part(labels, i) \in SUBSET DOMAIN labels
             /\ Cardinality(Part(labels, i)) = Size(labels, i)
             /\ Size(labels, i) \in Nat /\ Size(labels, i) > 0
             /\ Part(labels, i) # {}
             /\ \A k \in Part(labels, i) : sc(k) \in 0 .. Highest
             /\ L!Scores(labels, Part(labels, i)) \in Nat
  <2>1. i \in 1 .. Bins /\ Cut(n, i - 1) < Cut(n, i) BY <1>1
  <2>2. i \in 0 .. Bins /\ i - 1 \in 0 .. Bins BY <2>1
  <2>3. Cut(n, i) \in 0 .. n /\ Cut(n, i - 1) \in 0 .. n BY <1>2, <2>2, Cuts
  <2>4. Size(labels, i) \in Nat /\ Size(labels, i) > 0 BY <1>2, <2>1, <2>3 DEF Size
  <2>5. /\ Part(labels, i) \in SUBSET DOMAIN labels
        /\ Cardinality(Part(labels, i)) = Size(labels, i)
    BY <2>1, PartFacts DEF Size
  <2>6. Part(labels, i) # {}
    <3> SUFFICES ASSUME Part(labels, i) = {} PROVE FALSE OBVIOUS
    <3>1. Cardinality({}) = 0 BY FS_EmptySet
    <3> QED BY <2>4, <2>5, <3>1
  <2>7. \A k \in Part(labels, i) : sc(k) \in 0 .. Highest BY <2>5 DEF Are
  <2>8. L!Scores(labels, Part(labels, i)) \in Nat
    <3>1. 0 \in Nat OBVIOUS
    <3> QED BY <2>5, <2>7, <3>1, ScoresAre
  <2> QED BY <2>1, <2>4, <2>5, <2>6, <2>7, <2>8
<1>4. ASSUME NEW i \in DOMAIN P PROVE P[i].at \in Nat /\ P[i].p \in Nat
  <2>1. P[i].at \in Nat
    <3> DEFINE s == L!Scores(labels, Part(labels, i))  z == Size(labels, i)
    <3>1. s \in Nat /\ z \in Nat /\ z > 0 BY <1>3
    <3>2. P[i].at = (Unit * s) \div z BY <1>1
    <3> HIDE DEF s, z
    <3> QED BY <3>1, <3>2, Average
  <2>2. P[i].p \in Nat
    <3> DEFINE s == L!Accepted(labels, Part(labels, i))  z == Size(labels, i)
    <3>1. z \in Nat /\ z > 0 BY <1>3
    <3>2. s \in Nat
      <4>1. Part(labels, i) \in SUBSET DOMAIN labels BY <1>3
      <4>2. /\ s \in 0 .. Cardinality(Part(labels, i))
            /\ Cardinality(Part(labels, i)) \in Nat
        BY <4>1, AcceptedAre
      <4> QED BY <4>2
    <3>3. P[i].p = (Unit * s) \div z BY <1>1
    <3> HIDE DEF s, z
    <3> QED BY <3>1, <3>2, <3>3, Average
  <2> QED BY <2>1, <2>2
<1>5. ASSUME NEW i \in DOMAIN P, NEW t \in Nat
      PROVE  /\ (\A k \in Part(labels, i) : sc(k) <= t) => P[i].at <= Unit * t
             /\ (\A k \in Part(labels, i) : sc(k) >= t) => Unit * t <= P[i].at
  <2> DEFINE s == L!Scores(labels, Part(labels, i))  z == Size(labels, i)
  <2>1. s \in Nat /\ z \in Nat /\ z > 0 BY <1>3
  <2>2. P[i].at = (Unit * s) \div z BY <1>1
  <2>3. ASSUME \A k \in Part(labels, i) : sc(k) <= t PROVE s <= z * t
    <3>1. \A k \in Part(labels, i) : sc(k) \in 0 .. t BY <1>3, <2>3
    <3>2. 0 \in Nat OBVIOUS
    <3>3. s <= Cardinality(Part(labels, i)) * t BY <1>3, <3>1, <3>2, ScoresAre
    <3> QED BY <1>3, <3>3
  <2>4. ASSUME \A k \in Part(labels, i) : sc(k) >= t PROVE z * t <= s
    <3>1. \A k \in Part(labels, i) : sc(k) \in t .. Highest BY <1>3, <2>4
    <3>2. Cardinality(Part(labels, i)) * t <= s BY <1>3, <3>1, ScoresAre
    <3> QED BY <1>3, <3>2
  <2> HIDE DEF s, z
  <2>5. /\ s <= z * t => (Unit * s) \div z <= Unit * t
        /\ z * t <= s => Unit * t <= (Unit * s) \div z
    BY <2>1, Average, Zenon
  <2>6. /\ s <= z * t => P[i].at <= Unit * t
        /\ z * t <= s => Unit * t <= P[i].at
    BY <2>2, <2>5, Zenon
  <2> QED BY <2>3, <2>4, <2>6
<1>6. ASSUME NEW i \in DOMAIN P, NEW j \in DOMAIN P, i < j,
             NEW x \in Part(labels, i), NEW y \in Part(labels, j)
      PROVE  /\ sc(x) <= sc(y)
             /\ labels[x].accepted => labels[y].accepted
  <2>1. ~L!Less(labels[y], labels[x]) BY <1>3, <1>6, PartFacts
  <2>2. x \in DOMAIN labels /\ y \in DOMAIN labels BY <1>3
  <2>3. sc(x) \in Nat /\ sc(y) \in Nat BY <2>2 DEF Are
  <2>4. sc(x) <= sc(y) BY <2>1, <2>3 DEF L!Less
  <2>5. labels[x].accepted /\ ~labels[y].accepted => sc(x) > sc(y)
    BY <2>2 DEF L!Clear
  <2> QED BY <2>3, <2>4, <2>5
<1>7. ASSUME NEW i \in DOMAIN P, NEW j \in DOMAIN P, i < j PROVE P[i].at <= P[j].at
  <2> DEFINE U == {sc(k) : k \in Part(labels, i)}
  <2>1. U \in SUBSET (0 .. Highest) /\ U # {} BY <1>3
  <2> DEFINE t == Max(U)
  <2>2. t \in U /\ \A y \in U : y <= t
    <3> HIDE DEF U
    <3> QED BY <2>1, MostOf
  <2>3. t \in Nat BY <2>1, <2>2
  <2>4. \A k \in Part(labels, i) : sc(k) <= t BY <2>2
  <2>5. \A k \in Part(labels, j) : sc(k) >= t
    <3>1. PICK x \in Part(labels, i) : sc(x) = t BY <2>2
    <3> SUFFICES ASSUME NEW k \in Part(labels, j) PROVE sc(k) >= t OBVIOUS
    <3>2. sc(x) <= sc(k) BY <1>6, <1>7
    <3>3. sc(k) \in Nat BY <1>3
    <3> QED BY <2>3, <3>1, <3>2, <3>3
  <2> HIDE DEF t, sc
  <2>6. P[i].at <= Unit * t BY <1>5, <2>3, <2>4
  <2>7. Unit * t <= P[j].at BY <1>5, <2>3, <2>5
  <2> QED BY <1>4, <2>3, <2>6, <2>7
<1>8. ASSUME NEW i \in DOMAIN P, NEW j \in DOMAIN P, i < j PROVE P[i].p <= P[j].p
  <2> DEFINE si == L!Accepted(labels, Part(labels, i))  zi == Size(labels, i)
             sj == L!Accepted(labels, Part(labels, j))  zj == Size(labels, j)
  <2>1. /\ zi \in Nat /\ zi > 0 /\ zj \in Nat /\ zj > 0
        /\ si \in 0 .. zi /\ sj \in 0 .. zj
    BY <1>3, AcceptedAre
  <2>2. P[i].p = (Unit * si) \div zi /\ P[j].p = (Unit * sj) \div zj BY <1>1
  <2>3. si = 0 \/ sj = zj
    <3>1. CASE \E x \in Part(labels, i) : labels[x].accepted
      <4>1. \A y \in Part(labels, j) : labels[y].accepted BY <1>6, <1>8, <3>1
      <4> QED BY <1>3, <4>1, AcceptedAre
    <3>2. CASE \A x \in Part(labels, i) : ~labels[x].accepted
      BY <1>3, <3>2, AcceptedAre
    <3> QED BY <3>1, <3>2
  <2> HIDE DEF si, sj, zi, zj
  <2>4. CASE si = 0
    <3>1. si \in Nat /\ si <= zi * 0 /\ 0 \in Nat BY <2>1, <2>4
    <3>2. P[i].p <= Unit * 0 BY <2>1, <2>2, <3>1, Average
    <3> QED BY <1>4, <3>2
  <2>5. CASE sj = zj
    <3>1. si \in Nat /\ sj \in Nat /\ si <= zi * 1 /\ zj * 1 <= sj /\ 1 \in Nat
      BY <2>1, <2>5
    <3>2. P[i].p <= Unit * 1 BY <2>1, <2>2, <3>1, Average
    <3>3. Unit * 1 <= P[j].p BY <2>1, <2>2, <3>1, Average
    <3> QED BY <1>4, <3>2, <3>3
  <2> QED BY <2>3, <2>4, <2>5
<1>9. DOMAIN P \in SUBSET (1 .. Bins) BY <1>1
<1> QED BY <1>4, <1>7, <1>8, <1>9 DEF Grows, P
-----------------------------------------------------------------------------
(* The probability of a score.                                             *)

(* A line between two points stays between them, and does not fall.        *)
LEMMA BetweenFacts ==
  ASSUME NEW a, NEW b, a.at \in Nat, b.at \in Nat, a.p \in Nat, b.p \in Nat,
         a.at <= b.at, a.p <= b.p,
         NEW s \in Int, NEW t \in Int, a.at < s, s <= t, t <= b.at
  PROVE  /\ L!Between(a, b, s) \in Int
         /\ a.p <= L!Between(a, b, s) /\ L!Between(a, b, s) <= b.p
         /\ L!Between(a, b, s) <= L!Between(a, b, t)
<1> DEFINE d == b.at - a.at  h == b.p - a.p
           q(x) == ((x - a.at) * h) \div d
<1>1. d \in Nat /\ d > 0 /\ h \in Nat /\ a.at # b.at OBVIOUS
<1>2. \A x \in Int : L!Between(a, b, x) = a.p + q(x) BY <1>1 DEF L!Between
<1>3. \A x \in Int : (x - a.at) * h \in Int BY <1>1
<1>4. \A x \in Int : q(x) \in Int BY <1>1, <1>3, Quotient
<1>5. 0 <= q(s)
  <2> DEFINE w == (s - a.at) * h
  <2>1. w \in Int /\ d * 0 <= w BY <1>1
  <2> HIDE DEF w, d
  <2> QED BY <1>1, <2>1, QuotientIs DEF w
<1>6. (s - a.at) * h <= d * h BY <1>1
<1>7. q(s) <= h
  <2>1. d * q(s) <= (s - a.at) * h BY <1>1, <1>3, Quotient
  <2> DEFINE r == q(s)  w == (s - a.at) * h
  <2>2. r \in Int /\ d * r <= w /\ w <= d * h /\ w \in Int BY <1>3, <1>4, <1>6, <2>1
  <2> HIDE DEF r, w, d, h
  <2>3. d * r <= d * h /\ d * h \in Int BY <1>1, <2>2
  <2>4. r <= h
    <3> SUFFICES ASSUME r >= h + 1 PROVE FALSE BY <1>1, <2>2
    <3>1. d * r >= d * (h + 1) BY <1>1, <2>2
    <3>2. d * (h + 1) = d * h + d BY <1>1
    <3> QED BY <1>1, <2>2, <2>3, <3>1, <3>2
  <2> QED BY <2>4 DEF r
<1>8. q(s) <= q(t)
  <2>1. (s - a.at) * h <= (t - a.at) * h BY <1>1
  <2> QED BY <1>1, <1>3, <2>1, QuotientGrows
<1>9. q(s) \in Int /\ q(t) \in Int BY <1>4
<1>10. L!Between(a, b, s) = a.p + q(s) /\ L!Between(a, b, t) = a.p + q(t) BY <1>2
<1> HIDE DEF q
<1> QED BY <1>5, <1>7, <1>8, <1>9, <1>10

Above(P, s) == {k \in DOMAIN P : s <= P[k].at}
Below(P, k) == {j \in DOMAIN P : j < k}

(* What is read from growing points: it is theirs at the ends, and between *)
(* the two points around elsewhere.                                        *)
LEMMA MatchIs ==
  ASSUME NEW P, Grows(P), DOMAIN P # {}, NEW s \in Int
  PROVE  LET m == L!MatchProbability(P, s)
             top == Max(DOMAIN P)
             v == Min(Above(P, s))
             w == Max(Below(P, v))
         IN  /\ top \in DOMAIN P /\ \A k \in DOMAIN P : k <= top
             /\ Above(P, s) = {} => m = P[top].p
             /\ Above(P, s) # {} =>
                  /\ v \in Above(P, s) /\ \A k \in Above(P, s) : v <= k
                  /\ Below(P, v) = {} => m = P[v].p
                  /\ Below(P, v) # {} =>
                       /\ w \in Below(P, v) /\ \A k \in Below(P, v) : k <= w
                       /\ P[w].at < s /\ m = L!Between(P[w], P[v], s)
<1> DEFINE top == Max(DOMAIN P)
           v == Min(Above(P, s))
           w == Max(Below(P, v))
           m == L!MatchProbability(P, s)
<1>1. Bins \in Nat /\ DOMAIN P \in SUBSET (0 .. Bins) BY FitConstants DEF Grows
<1>2. top \in DOMAIN P /\ \A k \in DOMAIN P : k <= top BY <1>1, MostOf
<1>3. Above(P, s) # {} => v \in Above(P, s) /\ \A k \in Above(P, s) : v <= k
  <2>1. Above(P, s) \in SUBSET Nat BY <1>1 DEF Above
  <2> QED BY <2>1, LeastOf
<1>4. Below(P, v) # {} => w \in Below(P, v) /\ \A k \in Below(P, v) : k <= w
  <2>1. Below(P, v) \in SUBSET (0 .. Bins) BY <1>1 DEF Below
  <2> HIDE DEF v
  <2> QED BY <1>1, <2>1, MostOf
<1>5. m = CASE Above(P, s) = {} -> P[top].p
            [] Above(P, s) # {} /\ Below(P, v) = {} -> P[v].p
            [] OTHER -> L!Between(P[w], P[v], s)
  BY LibraryOfLearning DEF L!MatchProbability, Above, Below
<1>6. Above(P, s) # {} /\ Below(P, v) # {} => P[w].at < s
  <2> SUFFICES ASSUME Above(P, s) # {}, Below(P, v) # {} PROVE P[w].at < s OBVIOUS
  <2> HIDE DEF w, v
  <2>1. w \in DOMAIN P /\ w < v BY <1>4 DEF Below
  <2>2. w \notin Above(P, s)
    <3>1. w \in Nat /\ v \in Nat BY <1>1, <1>3, <2>1 DEF Above
    <3> QED BY <1>3, <2>1, <3>1
  <2>3. P[w].at \in Nat BY <2>1 DEF Grows
  <2> QED BY <2>1, <2>2, <2>3 DEF Above
<1> HIDE DEF top, v, w, m
<1>7. /\ Above(P, s) = {} => m = P[top].p
      /\ Above(P, s) # {} /\ Below(P, v) = {} => m = P[v].p
      /\ Above(P, s) # {} /\ Below(P, v) # {} => m = L!Between(P[w], P[v], s)
  BY <1>5
<1> QED BY <1>2, <1>3, <1>4, <1>6, <1>7 DEF top, v, w, m

LEMMA MatchBounds ==
  ASSUME NEW P, Grows(P), DOMAIN P # {}, NEW s \in Int,
         Above(P, s) # {}
  PROVE  LET m == L!MatchProbability(P, s)
             v == Min(Above(P, s))
         IN  /\ v \in Above(P, s) /\ m \in Int /\ m <= P[v].p
             /\ \A u \in DOMAIN P : u < v => P[u].p <= m
<1> DEFINE v == Min(Above(P, s))
           w == Max(Below(P, v))
           m == L!MatchProbability(P, s)
<1>1. /\ v \in Above(P, s) /\ v \in DOMAIN P /\ s <= P[v].at BY MatchIs DEF Above
<1>2. /\ Below(P, v) = {} => m = P[v].p
      /\ Below(P, v) # {} =>
           /\ w \in Below(P, v) /\ \A k \in Below(P, v) : k <= w
           /\ P[w].at < s /\ m = L!Between(P[w], P[v], s)
  BY MatchIs
<1> HIDE DEF v, w, m
<1>3. CASE Below(P, v) = {}
  <2>1. m = P[v].p /\ P[v].p \in Nat /\ \A u \in DOMAIN P : ~(u < v)
    BY <1>1, <1>2, <1>3 DEF Below, Grows
  <2> QED BY <1>1, <2>1 DEF v, m
<1>4. CASE Below(P, v) # {}
  <2>1. w \in DOMAIN P /\ w < v /\ P[w].at < s /\ m = L!Between(P[w], P[v], s)
    BY <1>2, <1>4 DEF Below
  <2>2. /\ P[w].at <= P[v].at /\ P[w].p <= P[v].p
        /\ P[w].at \in Nat /\ P[v].at \in Nat /\ P[w].p \in Nat /\ P[v].p \in Nat
    BY <1>1, <2>1 DEF Grows
  <2>3. m \in Int /\ P[w].p <= m /\ m <= P[v].p BY <1>1, <2>1, <2>2, BetweenFacts
  <2>4. ASSUME NEW u \in DOMAIN P, u < v PROVE P[u].p <= m
    <3>1. u <= w BY <1>2, <1>4, <2>4 DEF Below
    <3>2. u \in Int /\ w \in Int BY <2>1, FitConstants DEF Grows
    <3>3. P[u].p \in Nat /\ P[u].p <= P[w].p
      <4>1. CASE u = w BY <2>2, <4>1
      <4>2. CASE u < w BY <2>1, <4>2 DEF Grows
      <4> QED BY <3>1, <3>2, <4>1, <4>2
    <3> QED BY <2>2, <2>3, <3>3
  <2> QED BY <1>1, <2>3, <2>4 DEF v, m
<1> QED BY <1>3, <1>4

(* A better score is not taken for less probable.                          *)
LEMMA MatchGrows ==
  ASSUME NEW P, Grows(P), DOMAIN P # {}, NEW s \in Int, NEW t \in Int, s <= t
  PROVE  L!MatchProbability(P, s) <= L!MatchProbability(P, t)
<1> DEFINE ms == L!MatchProbability(P, s)  mt == L!MatchProbability(P, t)
           top == Max(DOMAIN P)
           u == Min(Above(P, s))  v == Min(Above(P, t))
<1>1. /\ top \in DOMAIN P /\ \A k \in DOMAIN P : k <= top
      /\ Above(P, s) = {} => ms = P[top].p
      /\ Above(P, t) = {} => mt = P[top].p
  BY MatchIs
<1>2. Above(P, s) # {} => u \in Above(P, s) /\ ms \in Int /\ ms <= P[u].p
  BY MatchBounds
<1>3. Above(P, t) # {} => /\ v \in Above(P, t) /\ mt \in Int
                          /\ \A k \in DOMAIN P : k < v => P[k].p <= mt
  BY MatchBounds
<1>4. Above(P, t) \subseteq Above(P, s) BY DEF Above, Grows
<1>5. Above(P, s) # {} => \A k \in Above(P, s) : u <= k BY MatchIs
<1>6. \A k \in DOMAIN P : k \in Int /\ P[k].p \in Nat BY FitConstants DEF Grows
<1> HIDE DEF u, v, top
<1>7. CASE Above(P, t) = {}
  <2>1. mt = P[top].p BY <1>1, <1>7
  <2>2. CASE Above(P, s) = {} BY <1>1, <1>6, <2>1, <2>2
  <2>3. CASE Above(P, s) # {}
    <3>1. u \in DOMAIN P /\ u <= top /\ ms <= P[u].p /\ ms \in Int
      BY <1>1, <1>2, <2>3 DEF Above
    <3>2. P[u].p <= P[top].p
      <4>1. CASE u = top BY <1>1, <1>6, <4>1
      <4>2. CASE u < top BY <1>1, <3>1, <4>2 DEF Grows
      <4> QED BY <1>1, <1>6, <3>1, <4>1, <4>2
    <3>3. P[u].p \in Nat /\ P[top].p \in Nat BY <1>1, <1>6, <3>1
    <3> HIDE DEF ms, mt
    <3>4. ms <= mt BY <2>1, <3>1, <3>2, <3>3
    <3> QED BY <3>4 DEF ms, mt
  <2> QED BY <2>2, <2>3
<1>8. CASE Above(P, t) # {}
  <2>1. Above(P, s) # {} BY <1>4, <1>8
  <2>2. u \in DOMAIN P /\ v \in DOMAIN P /\ u <= v BY <1>2, <1>3, <1>4, <1>5, <1>8, <2>1 DEF Above
  <2>3. CASE u < v
    <3>1. ms <= P[u].p /\ P[u].p <= mt /\ ms \in Int /\ mt \in Int /\ P[u].p \in Nat
      BY <1>2, <1>3, <1>6, <1>8, <2>1, <2>2, <2>3
    <3> HIDE DEF ms, mt
    <3>2. ms <= mt BY <3>1
    <3> QED BY <3>2 DEF ms, mt
  <2>4. CASE u = v
    <3>1. Below(P, u) = {} => ms = P[u].p /\ mt = P[u].p
      BY <1>8, <2>1, <2>4, MatchIs DEF u, v
    <3> DEFINE w == Max(Below(P, u))
    <3>2. Below(P, u) # {} =>
            /\ w \in Below(P, u) /\ P[w].at < s
            /\ ms = L!Between(P[w], P[u], s) /\ mt = L!Between(P[w], P[u], t)
      BY <1>8, <2>1, <2>4, MatchIs DEF u, v
    <3>3. CASE Below(P, u) = {} BY <1>6, <2>2, <3>1, <3>3
    <3>4. CASE Below(P, u) # {}
      <4>1. w \in DOMAIN P /\ w < u BY <3>2, <3>4 DEF Below
      <4> HIDE DEF w
      <4>2. /\ P[w].at <= P[u].at /\ P[w].p <= P[u].p
            /\ P[w].at \in Nat /\ P[u].at \in Nat /\ P[w].p \in Nat /\ P[u].p \in Nat
        BY <2>2, <4>1 DEF Grows
      <4>3. t <= P[u].at BY <1>3, <1>8, <2>4 DEF Above
      <4> QED BY <3>2, <3>4, <4>2, <4>3, BetweenFacts
    <3> QED BY <3>3, <3>4
  <2> QED BY <1>6, <2>2, <2>3, <2>4
<1> QED BY <1>7, <1>8
-----------------------------------------------------------------------------
(* The slope, and the labels counted by the points.                        *)

LEMMA SlopeRises ==
  ASSUME NEW labels, Are(labels), L!Clear(labels)
  PROVE  L!Slope(labels) >= 0
<1> DEFINE all == DOMAIN labels
           A == {k \in all : labels[k].accepted}
           R == all \ A
           f == [k \in all |-> labels[k].score]
           a == Cardinality(A)  r == Cardinality(R)  n == Cardinality(all)
           sA == L!Scores(labels, A)  sR == L!Scores(labels, R)  s == L!Scores(labels, all)
<1> USE FitConstants
<1>1. \A k \in all : labels[k].score \in 0 .. Highest BY DEF Are
<1>2. IsFiniteSet(all) /\ IsFiniteSet(A) /\ IsFiniteSet(R) BY FS_Subset DEF Are
<1>3. a \in Nat /\ r \in Nat /\ n = a + r
  <2>1. a \in Nat /\ r \in Nat BY <1>2, FS_CardinalityType
  <2>2. A \cup R = all /\ A \cap R = {} OBVIOUS
  <2>3. Cardinality(A \cup R) = a + r - Cardinality(A \cap R) BY <1>2, FS_Union
  <2>4. Cardinality({}) = 0 BY FS_EmptySet
  <2> HIDE DEF A, R, all
  <2>5. n = a + r - 0 BY <2>2, <2>3, <2>4
  <2> HIDE DEF a, r, n
  <2> QED BY <2>1, <2>5
<1>4. \A T \in SUBSET all : Units(T, [k \in T |-> labels[k].score]) = Units(T, f)
  <2> SUFFICES ASSUME NEW T \in SUBSET all
               PROVE  Units(T, [k \in T |-> labels[k].score]) = Units(T, f)
    OBVIOUS
  <2>1. \A k \in T : [j \in T |-> labels[j].score][k] = f[k] OBVIOUS
  <2> QED BY <2>1 DEF Units
<1>5. \A T \in SUBSET all : L!Scores(labels, T) = L!SumOver(T, f)
  <2> SUFFICES ASSUME NEW T \in SUBSET all PROVE L!Scores(labels, T) = L!SumOver(T, f)
    OBVIOUS
  <2>1. Units(T, [k \in T |-> labels[k].score]) = Units(T, f) BY <1>4
  <2>2. L!Scores(labels, T) = L!SumOver(T, [k \in T |-> labels[k].score]) BY DEF L!Scores
  <2>3. L!SumOver(T, [k \in T |-> labels[k].score])
          = Cardinality(Units(T, [k \in T |-> labels[k].score]))
    BY SumIs
  <2>4. L!SumOver(T, f) = Cardinality(Units(T, f)) BY SumIs
  <2> QED BY <2>1, <2>2, <2>3, <2>4
<1>6. s = sA + sR
  <2>1. A \cup R = all /\ A \cap R = {} /\ A \in SUBSET all /\ R \in SUBSET all
        /\ all \in SUBSET all
    OBVIOUS
  <2>2. \A k \in all : f[k] \in 0 .. Highest BY <1>1
  <2> HIDE DEF A, R, f, all
  <2>3. 0 \in Nat OBVIOUS
  <2>4. IsFiniteSet(Units(A, f)) BY <1>2, <2>1, <2>2, <2>3, SumBounds
  <2>5. IsFiniteSet(Units(R, f)) BY <1>2, <2>1, <2>2, <2>3, SumBounds
  <2>6. L!SumOver(A \cup R, f) = L!SumOver(A, f) + L!SumOver(R, f)
    BY <2>1, <2>4, <2>5, SumOfTwo
  <2> QED BY <1>5, <2>1, <2>6
<1>7. L!Slope(labels) = n * sA - s * a
  BY LibraryOfLearning DEF L!Slope
<1>8. sA \in Nat /\ sR \in Nat
  <2>1. 0 \in Nat /\ A \in SUBSET all /\ R \in SUBSET all OBVIOUS
  <2>2. \A k \in A : labels[k].score \in 0 .. Highest BY <1>1
  <2>3. \A k \in R : labels[k].score \in 0 .. Highest BY <1>1
  <2>4. sA \in Nat BY <2>1, <2>2, ScoresAre
  <2>5. sR \in Nat BY <2>1, <2>3, ScoresAre
  <2> QED BY <2>4, <2>5
<1>9. CASE A = {}
  <2>1. a = 0 BY <1>9, FS_EmptySet
  <2>2. sA <= 0
    <3>1. 0 \in Nat /\ A \in SUBSET all OBVIOUS
    <3>2. \A k \in A : labels[k].score \in 0 .. 0 BY <1>9
    <3>3. sA <= a * 0 BY <3>1, <3>2, ScoresAre
    <3> QED BY <1>3, <3>3
  <2> HIDE DEF a, r, n, sA, sR, s
  <2>3. n * sA = 0 /\ s * a = 0
    <3>1. sA = 0 /\ n \in Nat /\ s \in Nat BY <1>3, <1>6, <1>8, <2>2
    <3> QED BY <2>1, <3>1
  <2> QED BY <1>7, <2>3
<1>10. CASE A # {}
  <2> DEFINE U == {labels[k].score : k \in A}
             t == Min(U)
  <2>1. U \in SUBSET Nat /\ U # {} BY <1>1, <1>10
  <2>2. t \in U /\ \A y \in U : t <= y
    <3> HIDE DEF U
    <3> QED BY <2>1, LeastOf
  <2>3. t \in Nat BY <2>1, <2>2
  <2>4. \A k \in A : labels[k].score \in t .. Highest BY <1>1, <2>2, <2>3
  <2>5. \A k \in R : labels[k].score \in 0 .. t
    <3>1. PICK m \in A : labels[m].score = t BY <2>2
    <3> SUFFICES ASSUME NEW k \in R PROVE labels[k].score \in 0 .. t OBVIOUS
    <3>2. labels[m].score > labels[k].score BY DEF L!Clear
    <3> QED BY <1>1, <2>3, <3>1, <3>2
  <2>6. 0 \in Nat /\ A \in SUBSET all /\ R \in SUBSET all OBVIOUS
  <2> HIDE DEF t, U
  <2>7. a * t <= sA BY <2>3, <2>4, <2>6, ScoresAre
  <2>8. sR <= r * t BY <2>3, <2>5, <2>6, ScoresAre
  <2> HIDE DEF a, r, n, sA, sR, s
  <2>9. r * (a * t) <= r * sA /\ a * sR <= a * (r * t) BY <1>3, <1>8, <2>3, <2>7, <2>8
  <2>10. r * (a * t) = a * (r * t) BY <1>3, <2>3
  <2>11. n * sA - s * a = r * sA - a * sR BY <1>3, <1>6, <1>8
  <2>12. /\ r * sA \in Int /\ a * sR \in Int /\ r * (a * t) \in Int /\ a * (r * t) \in Int
    BY <1>3, <1>8, <2>3
  <2> QED BY <1>7, <2>9, <2>10, <2>11, <2>12
<1> QED BY <1>9, <1>10

(* A whole average of a part, times its size.                              *)
LEMMA WholeAverage ==
  ASSUME NEW u \in Nat, NEW z \in Nat, z > 0, u % z = 0, NEW s \in Nat
  PROVE  z * ((u * s) \div z) = u * s
<1> DEFINE k == u \div z  q == (u * s) \div z
<1>1. u = z * k /\ k \in Int
  <2>1. u = (z * k) + (u % z) /\ k \in Int OBVIOUS
  <2> QED BY <2>1
<1>2. u * s \in Int /\ u * s = z * (k * s) /\ k * s \in Int BY <1>1
<1>3. q \in Int /\ z * q <= u * s BY <1>2, Quotient
<1>4. k * s <= q BY <1>2, QuotientIs
<1> DEFINE w == k * s
<1> HIDE DEF k, q, w
<1>5. z * w <= z * q BY <1>2, <1>3, <1>4 DEF w
<1> QED BY <1>2, <1>3, <1>5 DEF w, q

(* Each label is counted in one point.                                     *)
LEMMA PointsCount ==
  ASSUME NEW labels, Are(labels),
         \A z \in 1 .. Cardinality(DOMAIN labels) \div Bins + 1 : Unit % z = 0
  PROVE  LET P == L!Points(labels)
         IN  /\ L!SumOver(DOMAIN P, [i \in DOMAIN P |-> P[i].size])
                  = Cardinality(DOMAIN labels)
             /\ L!SumOver(DOMAIN P, [i \in DOMAIN P |-> P[i].size * P[i].p])
                  = Unit * L!Accepted(labels, DOMAIN labels)
<1> DEFINE P == L!Points(labels)
           all == DOMAIN labels
           n == Cardinality(all)
           A == {k \in all : labels[k].accepted}
           I == DOMAIN P
           part == [i \in I |-> Part(labels, i)]
           picked == [i \in I |-> Part(labels, i) \cap A]
<1> USE FitConstants
<1>1. IsFiniteSet(all) /\ n \in Nat BY FS_CardinalityType DEF Are
<1>2. /\ I = {b \in 1 .. Bins : Cut(n, b - 1) < Cut(n, b)}
      /\ \A i \in I :
           /\ P[i].size = Size(labels, i)
           /\ P[i].p = (Unit * L!Accepted(labels, Part(labels, i))) \div Size(labels, i)
  BY PointsAre
<1> HIDE DEF P, I
<1>3. ASSUME NEW i \in 1 .. Bins
      PROVE  /\ Part(labels, i) \in SUBSET all
             /\ Cardinality(Part(labels, i)) = Size(labels, i)
             /\ Size(labels, i) \in 0 .. n \div Bins + 1
             /\ i \in I <=> Size(labels, i) > 0
  <2>1. i \in 0 .. Bins /\ i - 1 \in 0 .. Bins /\ i - 1 <= i OBVIOUS
  <2>2. /\ Cut(n, i) \in 0 .. n /\ Cut(n, i - 1) \in 0 .. n /\ Cut(n, i - 1) <= Cut(n, i)
        /\ Cut(n, i) - Cut(n, i - 1) <= n \div Bins + 1
    BY <1>1, <2>1, Cuts
  <2>3. n \div Bins \in Int BY <1>1, Quotient
  <2>4. Size(labels, i) = Cut(n, i) - Cut(n, i - 1) BY DEF Size
  <2>5. Size(labels, i) \in 0 .. n \div Bins + 1 BY <2>2, <2>3, <2>4
  <2>6. i \in I <=> Size(labels, i) > 0 BY <1>2, <2>2, <2>4
  <2> QED BY <2>4, <2>5, <2>6, PartFacts
<1>4. I \subseteq 1 .. Bins BY <1>2
<1>5. \A k \in all : \E i \in I : k \in Part(labels, i)
  <2> SUFFICES ASSUME NEW k \in all PROVE \E i \in I : k \in Part(labels, i) OBVIOUS
  <2>1. PICK i \in 1 .. Bins : k \in Part(labels, i) BY PartFacts
  <2>2. Size(labels, i) # 0
    <3> SUFFICES ASSUME Size(labels, i) = 0 PROVE FALSE OBVIOUS
    <3>1. IsFiniteSet(Part(labels, i)) BY <1>1, <1>3, FS_Subset
    <3>2. Cardinality(Part(labels, i)) = 0 BY <1>3
    <3> QED BY <2>1, <3>1, <3>2, FS_EmptySet
  <2>3. Size(labels, i) > 0 BY <1>1, <1>3, <2>2
  <2> QED BY <1>3, <2>1, <2>3
<1>6. \A i, j \in I : i # j => Part(labels, i) \cap Part(labels, j) = {}
  <2> SUFFICES ASSUME NEW i \in I, NEW j \in I, i # j,
                      NEW x \in Part(labels, i), x \in Part(labels, j)
               PROVE  FALSE
    OBVIOUS
  <2>1. i \in 1 .. Bins /\ j \in 1 .. Bins /\ (i < j \/ j < i) BY <1>4
  <2> QED BY <2>1, PartFacts
<1>7. L!SumOver(I, [i \in I |-> P[i].size]) = n
  <2> DEFINE f == [i \in I |-> P[i].size]
  <2>1. \A i \in I : part[i] \in SUBSET all BY <1>3, <1>4
  <2>2. \A t \in all : \E i \in I : t \in part[i] BY <1>5
  <2>3. \A i, j \in I : i # j => part[i] \cap part[j] = {} BY <1>6
  <2>4. \A i \in I : f[i] = 1 * Cardinality(part[i])
    <3> SUFFICES ASSUME NEW i \in I PROVE f[i] = 1 * Cardinality(part[i]) OBVIOUS
    <3>1. f[i] = Cardinality(Part(labels, i)) /\ Cardinality(Part(labels, i)) \in Int
      BY <1>1, <1>2, <1>3, <1>4
    <3>2. part[i] = Part(labels, i) OBVIOUS
    <3> QED BY <3>1, <3>2
  <2> HIDE DEF f, part, all
  <2>5. 1 \in Nat OBVIOUS
  <2>6. L!SumOver(I, f) = 1 * Cardinality(all)
    <3>1. Falls(I, all, part, 1, f) BY <1>1, <2>1, <2>2, <2>3, <2>4, <2>5 DEF Falls
    <3> QED BY <3>1, SumOfParts
  <2> QED BY <1>1, <2>6 DEF f
<1>8. L!SumOver(I, [i \in I |-> P[i].size * P[i].p]) = Unit * L!Accepted(labels, all)
  <2> DEFINE f == [i \in I |-> P[i].size * P[i].p]
  <2>1. \A i \in I : picked[i] \in SUBSET A BY <1>3, <1>4
  <2>2. \A t \in A : \E i \in I : t \in picked[i] BY <1>5
  <2>3. \A i, j \in I : i # j => picked[i] \cap picked[j] = {} BY <1>6
  <2>4. \A i \in I : f[i] = Unit * Cardinality(picked[i])
    <3> SUFFICES ASSUME NEW i \in I PROVE f[i] = Unit * Cardinality(picked[i]) OBVIOUS
    <3> DEFINE z == Size(labels, i)  acc == L!Accepted(labels, Part(labels, i))
    <3>1. i \in 1 .. Bins /\ z \in Nat /\ z \in 1 .. n \div Bins + 1
          /\ Part(labels, i) \in SUBSET all
      <4>1. i \in 1 .. Bins BY <1>4
      <4>2. z \in 0 .. n \div Bins + 1 /\ z > 0 /\ Part(labels, i) \in SUBSET all BY <1>3, <4>1
      <4>3. n \div Bins \in Int BY <1>1, Quotient
      <4> HIDE DEF z
      <4> QED BY <4>1, <4>2, <4>3
    <3>2. Unit % z = 0 BY <3>1
    <3>3. /\ acc \in Nat
          /\ acc = Cardinality({k \in Part(labels, i) : labels[k].accepted})
      <4>1. acc \in 0 .. Cardinality(Part(labels, i)) /\ Cardinality(Part(labels, i)) \in Nat
            /\ acc = Cardinality({k \in Part(labels, i) : labels[k].accepted})
        BY <3>1, AcceptedAre
      <4> HIDE DEF acc
      <4> QED BY <4>1
    <3>4. {k \in Part(labels, i) : labels[k].accepted} = picked[i] BY <3>1
    <3>5. f[i] = z * ((Unit * acc) \div z) BY <1>2
    <3> HIDE DEF z, acc
    <3>6. z > 0 /\ z \in Nat BY <3>1
    <3>7. z * ((Unit * acc) \div z) = Unit * acc BY <3>2, <3>3, <3>6, WholeAverage
    <3> QED BY <3>3, <3>4, <3>5, <3>7
  <2>5. IsFiniteSet(A) BY <1>1, FS_Subset
  <2>6. L!Accepted(labels, all) = Cardinality(A) BY AcceptedAre
  <2> HIDE DEF f, picked, A
  <2>7. L!SumOver(I, f) = Unit * Cardinality(A)
    <3>1. Falls(I, A, picked, Unit, f) BY <2>1, <2>2, <2>3, <2>4, <2>5 DEF Falls
    <3> QED BY <3>1, SumOfParts
  <2> QED BY <2>6, <2>7 DEF f
<1> QED BY <1>7, <1>8 DEF I, P
-----------------------------------------------------------------------------
(* The labels the trainer loads.                                           *)

(* A pass writes at most a label for each pensioner.                       *)
LengthInv == Len(lines) + Cardinality(unwritten) <= passes * Len(Folk)

LEMMA UnwrittenSize ==
  ASSUME NEW S \in SUBSET DOMAIN Folk
  PROVE  IsFiniteSet(S) /\ Cardinality(S) \in Nat /\ Cardinality(S) <= Len(Folk)
<1>1. DOMAIN Folk = 1 .. Len(Folk) /\ Len(Folk) \in Nat BY LearningConstants
<1>2. IsFiniteSet(1 .. Len(Folk)) /\ Cardinality(1 .. Len(Folk)) = Len(Folk)
  <2>1. 1 \in Int /\ Len(Folk) \in Int BY <1>1
  <2> QED BY <1>1, <2>1, FS_Interval
<1> QED BY <1>1, <1>2, FS_Subset, FS_CardinalityType

LEMMA PutLength ==
  ASSUME LabelType, NEW l \in Lines
  PROVE  Len(L!Put(lines, l)) \in Nat /\ Len(L!Put(lines, l)) <= Len(lines) + 1
<1>1. lines \in Seq(Lines) /\ Len(lines) \in Nat BY DEF LabelType
<1>2. CASE tail = "line"
  BY <1>1, <1>2 DEF L!Put
<1>3. CASE tail # "line"
  <2>1. lines # <<>> BY <1>3 DEF LabelType
  <2>2. L!Front(lines) \in Seq(Lines) /\ Len(L!Front(lines)) <= Len(lines)
    <3>1. Len(lines) # 0 BY <1>1, <2>1
    <3> QED BY <1>1, <3>1 DEF L!Front
  <2> QED BY <1>1, <1>3, <2>2 DEF L!Put, Lines
<1> QED BY <1>2, <1>3

LEMMA NextLabelType ==
  ASSUME LabelType, pass = "runs", unwritten # {}
  PROVE  L!NextLabel \in Lines
<1>1. unwritten \in SUBSET Nat /\ unwritten \subseteq DOMAIN Folk
  BY LearningConstants DEF LabelType
<1>2. Min(unwritten) \in DOMAIN Folk BY <1>1, LeastOf
<1>3. sidecars # <<>> /\ Newest # Broken BY DEF LabelType
<1>4. L!LabelOf(Newest, Min(unwritten)) \in Lines BY <1>2, <1>3, NewestIs DEF Lines
<1> QED BY <1>4, LibraryOfLearning DEF L!NextLabel, Newest

LEMMA LengthStep ==
  ASSUME LabelType, LengthInv, [L!Next]_L!labelVars PROVE LengthInv'
<1> USE DEF LengthInv
<1>1. /\ Len(lines) \in Nat /\ Len(Folk) \in Nat /\ passes \in Nat
      /\ IsFiniteSet(unwritten) /\ Cardinality(unwritten) \in Nat
      /\ Cardinality({}) = 0
  BY LearningConstants, UnwrittenSize, FS_EmptySet DEF LabelType
<1>2. CASE UNCHANGED <<lines, unwritten, passes>> BY <1>2
<1>3. CASE L!BeginPass
  <2>1. /\ passes' = passes + 1 /\ unwritten' \in SUBSET DOMAIN Folk /\ lines' = lines
        /\ unwritten = {}
    BY <1>3 DEF L!BeginPass, L!Decided, LabelType
  <2>2. Cardinality(unwritten') \in Nat /\ Cardinality(unwritten') <= Len(Folk)
    BY <2>1, UnwrittenSize
  <2>3. Len(lines') <= passes * Len(Folk) BY <1>1, <2>1
  <2>4. passes' * Len(Folk) = passes * Len(Folk) + Len(Folk) BY <1>1, <2>1
  <2>5. passes * Len(Folk) \in Int BY <1>1
  <2>6. Len(lines') = Len(lines) BY <2>1
  <2> QED BY <1>1, <2>2, <2>3, <2>4, <2>5, <2>6
<1>4. CASE L!WriteLabel
  <2>1. /\ pass = "runs" /\ unwritten # {} /\ lines' = L!Put(lines, L!NextLabel)
        /\ unwritten' = unwritten \ {Min(unwritten)} /\ passes' = passes
    BY <1>4, LibraryOfLearning DEF L!WriteLabel
  <2>2. Min(unwritten) \in unwritten
    <3>1. unwritten \in SUBSET Nat BY LearningConstants DEF LabelType
    <3> QED BY <2>1, <3>1, LeastOf
  <2>3. Cardinality(unwritten') = Cardinality(unwritten) - 1
    BY <1>1, <2>1, <2>2, FS_RemoveElement
  <2>4. Len(lines') \in Nat /\ Len(lines') <= Len(lines) + 1
    BY <2>1, NextLabelType, PutLength
  <2>5. passes * Len(Folk) \in Int BY <1>1
  <2> QED BY <1>1, <2>1, <2>3, <2>4, <2>5
<1>5. CASE L!Killed
  <2>1. /\ pass = "runs" /\ unwritten' = {} /\ passes' = passes
        /\ \/ lines' = lines
           \/ unwritten # {} /\ lines' = L!Put(lines, Broken)
           \/ unwritten # {} /\ lines' = L!Put(lines, L!NextLabel)
    BY <1>5 DEF L!Killed
  <2>2. unwritten # {} => Cardinality(unwritten) >= 1
    BY <1>1, FS_EmptySet
  <2>3. passes * Len(Folk) \in Int BY <1>1
  <2>4. CASE lines' = lines BY <1>1, <2>1, <2>3, <2>4
  <2>5. ASSUME NEW l \in Lines, unwritten # {}, lines' = L!Put(lines, l) PROVE LengthInv'
    <3>1. Len(lines') \in Nat /\ Len(lines') <= Len(lines) + 1 BY <2>5, PutLength
    <3>2. Cardinality(unwritten') = 0 BY <1>1, <2>1
    <3> QED BY <1>1, <2>1, <2>2, <2>3, <2>5, <3>1, <3>2
  <2>6. Broken \in Lines BY DEF Lines
  <2> QED BY <2>1, <2>4, <2>5, <2>6, NextLabelType
<1>6. CASE \E side \in L!Sidecars : L!Save(side) BY <1>2, <1>6 DEF L!Save
<1>7. CASE L!EndPass BY <1>2, <1>7 DEF L!EndPass
<1>8. CASE L!Train BY <1>2, <1>8 DEF L!Train
<1>9. CASE \E plans \in PlanLists, budget \in Budgets : L!Rank(plans, budget)
  BY <1>2, <1>9 DEF L!Rank
<1>10. CASE \E picks \in PickLists : L!Learn(picks) BY <1>2, <1>10 DEF L!Learn
<1>11. CASE UNCHANGED L!labelVars BY <1>2, <1>11 DEF L!labelVars
<1> QED BY <1>3, <1>4, <1>5, <1>6, <1>7, <1>8, <1>9, <1>10, <1>11 DEF L!Next

(* What the trainer reads are labels with scores, so few that their        *)
(* averages come out even.                                                 *)
LEMMA Loaded ==
  ASSUME LabelType, LengthInv
  PROVE  /\ Are(L!LoadLabels)
         /\ \A z \in 1 .. Cardinality(DOMAIN L!LoadLabels) \div Bins + 1 : Unit % z = 0
<1> DEFINE labels == L!LoadLabels
           N == Len(lines) + Len(own)
<1>1. /\ lines \in Seq(Lines) /\ own \in Own
      /\ own \in Seq([accepted : BOOLEAN, score : 0 .. Highest])
  BY OwnLabels DEF LabelType
<1>2. /\ Len(lines) \in Nat /\ DOMAIN lines = 1 .. Len(lines)
      /\ Len(own) \in Nat /\ DOMAIN own = 1 .. Len(own)
  BY <1>1
<1>3. DOMAIN labels = L!Readable \cup {Len(lines) + n : n \in DOMAIN own}
  BY DEF L!LoadLabels
<1>4. \A k \in DOMAIN labels :
        labels[k] = IF k > Len(lines) THEN own[k - Len(lines)]
                    ELSE [accepted |-> lines[k].says = "accepted", score |-> 0]
  BY DEF L!LoadLabels
<1>5. DOMAIN labels \in SUBSET (1 .. N) BY <1>2, <1>3 DEF L!Readable
<1> HIDE DEF labels
<1>6. IsFiniteSet(1 .. N) /\ Cardinality(1 .. N) = N
  <2>1. 1 \in Int /\ N \in Int /\ N \in Nat BY <1>2
  <2> HIDE DEF N
  <2> QED BY <2>1, FS_Interval
<1>7. /\ IsFiniteSet(DOMAIN labels) /\ Cardinality(DOMAIN labels) <= N
      /\ Cardinality(DOMAIN labels) \in Nat
  <2>1. IsFiniteSet(DOMAIN labels) /\ Cardinality(DOMAIN labels) <= Cardinality(1 .. N)
    <3> HIDE DEF N
    <3> QED BY <1>5, <1>6, FS_Subset
  <2> QED BY <1>6, <2>1, FS_CardinalityType
<1>8. \A k \in DOMAIN labels :
        labels[k].accepted \in BOOLEAN /\ labels[k].score \in 0 .. Highest
  <2> SUFFICES ASSUME NEW k \in DOMAIN labels
               PROVE  labels[k].accepted \in BOOLEAN /\ labels[k].score \in 0 .. Highest
    OBVIOUS
  <2>1. CASE k > Len(lines)
    <3>1. k - Len(lines) \in DOMAIN own BY <1>2, <1>3, <2>1 DEF L!Readable
    <3>2. own[k - Len(lines)] \in [accepted : BOOLEAN, score : 0 .. Highest]
      <4> DEFINE j == k - Len(lines)  T == [accepted : BOOLEAN, score : 0 .. Highest]
      <4> HIDE DEF j, T
      <4>1. own \in Seq(T) /\ j \in 1 .. Len(own) BY <1>1, <1>2, <3>1 DEF j, T
      <4>2. own[j] \in T BY <4>1
      <4> QED BY <4>2 DEF j, T
    <3> QED BY <1>4, <2>1, <3>2
  <2>2. CASE ~(k > Len(lines))
    <3>1. labels[k] = [accepted |-> lines[k].says = "accepted", score |-> 0] BY <1>4, <2>2
    <3> QED BY <3>1, FitConstants
  <2> QED BY <2>1, <2>2
<1>9. DOMAIN labels \in SUBSET Nat BY <1>2, <1>5
<1> DEFINE c == Cardinality(DOMAIN labels)
           most == Len(own) + MaxPasses * Len(Folk)
<1>10. Are(labels) BY <1>7, <1>8, <1>9 DEF Are
<1>11. c <= most /\ most \in Nat /\ c \in Nat
  <2>1. Len(lines) <= passes * Len(Folk)
    <3>1. Cardinality(unwritten) \in Nat BY UnwrittenSize DEF LabelType
    <3>2. passes \in Nat /\ Len(Folk) \in Nat BY LearningConstants DEF LabelType
    <3>3. passes * Len(Folk) \in Int BY <3>2
    <3> QED BY <1>2, <3>1, <3>3 DEF LengthInv
  <2>2. passes \in 0 .. MaxPasses /\ MaxPasses \in Nat /\ Len(Folk) \in Nat
    BY LearningConstants DEF LabelType
  <2>3. passes * Len(Folk) <= MaxPasses * Len(Folk) BY <2>2
  <2>4. passes * Len(Folk) \in Int /\ MaxPasses * Len(Folk) \in Nat BY <2>2
  <2> QED BY <1>2, <1>7, <2>1, <2>3, <2>4
<1> HIDE DEF c, most
<1>12. c \div Bins <= most \div Bins
  BY <1>11, FitConstants, QuotientGrows
<1>13. c \div Bins \in Int /\ most \div Bins \in Int BY <1>11, FitConstants, Quotient
<1>14. \A k \in 1 .. most \div Bins + 1 : Unit % k = 0 BY <1>1, OwnLabels DEF most
<1>15. \A z \in 1 .. c \div Bins + 1 : Unit % z = 0 BY <1>12, <1>13, <1>14
<1> QED BY <1>10, <1>15 DEF c, labels

(* What was computed last, of what it was computed.                        *)
FitInv ==
  /\ fit.kind = "trained" =>
       /\ Are(fit.labels) /\ DOMAIN fit.labels # {}
       /\ \A z \in 1 .. Cardinality(DOMAIN fit.labels) \div Bins + 1 : Unit % z = 0
       /\ fit.points = L!Points(fit.labels) /\ fit.slope = L!Slope(fit.labels)
       /\ fit.best = [m \in {"f1", "precision", "recall"} |-> L!BestThreshold(m, fit.labels)]
       /\ fit.level = L!CalibrateThreshold(fit.labels)
  /\ fit.kind = "ranked" =>
       /\ fit.plans \in PlanLists /\ fit.budget \in Budgets
       /\ fit.ranked = L!Ranked(fit.plans, fit.budget)
  /\ fit.kind = "weights" =>
       /\ fit.picks \in PickLists
       /\ \E c \in L!Coefficients(L!Pairs(fit.picks)) :
            fit.weight = IF L!Used(fit.picks) = {} THEN Weight
                         ELSE [f \in DOMAIN Weight |-> L!Clamp(Weight[f] + c[f])]

LEMMA FitStarts == ASSUME L!Init PROVE LengthInv /\ FitInv
<1>1. LengthInv
  <2>1. passes \in Nat /\ Len(Folk) \in Nat /\ Len(lines) = 0 /\ unwritten = {}
    BY LearningConstants DEF L!Init
  <2>2. passes * Len(Folk) \in Nat BY <2>1
  <2>3. Cardinality({}) = 0 BY FS_EmptySet
  <2> QED BY <2>1, <2>2, <2>3 DEF LengthInv
<1>2. FitInv BY DEF L!Init, L!NoFit, FitInv
<1> QED BY <1>1, <1>2

LEMMA FitStep ==
  ASSUME LabelType, LengthInv, FitInv, [L!Next]_L!labelVars PROVE FitInv'
<1>1. CASE UNCHANGED fit BY <1>1 DEF FitInv
<1>2. CASE L!Train
  <2> DEFINE new == [kind |-> "trained", labels |-> L!LoadLabels,
                     points |-> L!Points(L!LoadLabels), slope |-> L!Slope(L!LoadLabels),
                     best |-> [m \in {"f1", "precision", "recall"} |->
                                 L!BestThreshold(m, L!LoadLabels)],
                     level |-> L!CalibrateThreshold(L!LoadLabels)]
  <2>1. /\ fit' = new /\ new.labels = L!LoadLabels
        /\ DOMAIN L!LoadLabels # {}
        /\ new.kind = "trained" /\ new.points = L!Points(L!LoadLabels)
        /\ new.slope = L!Slope(L!LoadLabels) /\ new.level = L!CalibrateThreshold(L!LoadLabels)
        /\ new.best = [m \in {"f1", "precision", "recall"} |->
                         L!BestThreshold(m, L!LoadLabels)]
    BY <1>2 DEF L!Train
  <2> HIDE DEF new
  <2> QED BY <2>1, Loaded DEF FitInv
<1>3. ASSUME NEW plans \in PlanLists, NEW budget \in Budgets, L!Rank(plans, budget)
      PROVE  FitInv'
  <2>1. fit' = [kind |-> "ranked", plans |-> plans, budget |-> budget,
                ranked |-> L!Ranked(plans, budget)]
    BY <1>3 DEF L!Rank
  <2> QED BY <2>1 DEF FitInv
<1>4. ASSUME NEW picks \in PickLists, L!Learn(picks) PROVE FitInv'
  <2>1. PICK c \in L!Coefficients(L!Pairs(picks)) :
          fit' = [kind |-> "weights", picks |-> picks,
                  weight |-> IF L!Used(picks) = {} THEN Weight
                             ELSE [f \in DOMAIN Weight |-> L!Clamp(Weight[f] + c[f])]]
    BY <1>4 DEF L!Learn
  <2> DEFINE w == IF L!Used(picks) = {} THEN Weight
                  ELSE [f \in DOMAIN Weight |-> L!Clamp(Weight[f] + c[f])]
  <2>2. fit'.kind = "weights" /\ fit'.picks = picks /\ fit'.weight = w BY <2>1
  <2>3. \E k \in L!Coefficients(L!Pairs(picks)) :
          fit'.weight = IF L!Used(picks) = {} THEN Weight
                        ELSE [f \in DOMAIN Weight |-> L!Clamp(Weight[f] + k[f])]
    BY <2>2
  <2> HIDE DEF w
  <2> QED BY <2>2, <2>3 DEF FitInv
<1>5. CASE \E side \in L!Sidecars : L!Save(side) BY <1>1, <1>5 DEF L!Save
<1>6. CASE L!BeginPass \/ L!WriteLabel \/ L!EndPass \/ L!Killed
  BY <1>1, <1>6 DEF L!BeginPass, L!WriteLabel, L!EndPass, L!Killed
<1>7. CASE UNCHANGED L!labelVars BY <1>1, <1>7 DEF L!labelVars
<1> QED BY <1>2, <1>3, <1>4, <1>5, <1>6, <1>7 DEF L!Next

LEMMA PointsThere ==
  ASSUME NEW labels, Are(labels), DOMAIN labels # {} PROVE DOMAIN L!Points(labels) # {}
<1> DEFINE n == Cardinality(DOMAIN labels)
<1>1. n \in Nat /\ n # 0
  <2>1. IsFiniteSet(DOMAIN labels) BY DEF Are
  <2> QED BY <2>1, FS_CardinalityType, FS_EmptySet
<1>2. 1 \in 1 .. n BY <1>1
<1>3. PICK i \in 1 .. Bins : Cut(n, i - 1) < 1 /\ 1 <= Cut(n, i) BY <1>1, <1>2, CutsCover
<1>4. Cut(n, i) \in Int /\ Cut(n, i - 1) \in Int
  <2>1. i \in 0 .. Bins /\ i - 1 \in 0 .. Bins BY FitConstants
  <2> QED BY <1>1, <2>1, Cuts
<1>5. Cut(n, i - 1) < Cut(n, i) BY <1>3, <1>4
<1> QED BY <1>5, PointsAre

LEMMA OrderKept == ASSUME FitInv PROVE L!FitKeepsTheOrder
<1> DEFINE labels == fit.labels  P == fit.points
<1> SUFFICES ASSUME fit.kind = "trained" PROVE L!FitKeepsTheOrder
  BY DEF L!FitKeepsTheOrder
<1>1. /\ Are(labels) /\ DOMAIN labels # {}
      /\ \A z \in 1 .. Cardinality(DOMAIN labels) \div Bins + 1 : Unit % z = 0
      /\ P = L!Points(labels) /\ fit.slope = L!Slope(labels)
  BY DEF FitInv
<1> HIDE DEF labels, P
<1>2. L!SumOver(DOMAIN P, [i \in DOMAIN P |-> P[i].size]) = Cardinality(DOMAIN labels)
  BY <1>1, PointsCount
<1>3. L!SumOver(DOMAIN P, [i \in DOMAIN P |-> P[i].size * P[i].p])
        = Unit * L!Accepted(labels, DOMAIN labels)
  BY <1>1, PointsCount
<1>4. ASSUME L!Clear(labels)
      PROVE  /\ \A s \in 1 .. Highest * Unit :
                  L!MatchProbability(P, s - 1) <= L!MatchProbability(P, s)
             /\ fit.slope >= 0
  <2>1. Grows(P) /\ DOMAIN P # {} BY <1>1, <1>4, PointsGrow, PointsThere
  <2>2. \A s \in 1 .. Highest * Unit :
          L!MatchProbability(P, s - 1) <= L!MatchProbability(P, s)
    <3> SUFFICES ASSUME NEW s \in 1 .. Highest * Unit
                 PROVE  L!MatchProbability(P, s - 1) <= L!MatchProbability(P, s)
      OBVIOUS
    <3>1. s \in Int /\ s - 1 \in Int /\ s - 1 <= s OBVIOUS
    <3> QED BY <2>1, <3>1, MatchGrows
  <2> QED BY <1>1, <1>4, <2>2, SlopeRises
<1> QED BY <1>2, <1>3, <1>4, LibraryOfLearning DEF L!FitKeepsTheOrder, labels, P
-----------------------------------------------------------------------------
(* The plans.                                                              *)

LEMMA PlanScore ==
  ASSUME NEW plans \in PlanLists, NEW k \in DOMAIN plans
  PROVE  L!ScorePlan(plans[k]) \in Int /\ plans[k].cost \in Int
<1>1. plans \in Seq(L!Plans) BY ReviewingAssumption DEF L!LearningAssumption
<1>2. plans[k] \in L!Plans
  <2> DEFINE T == L!Plans
  <2> HIDE DEF T
  <2>1. plans \in Seq(T) BY <1>1 DEF T
  <2>2. plans[k] \in T BY <2>1
  <2> QED BY <2>2 DEF T
<1>3. plans[k].cost \in Nat /\ plans[k].regiment \in BOOLEAN BY <1>2 DEF L!Plans
<1> DEFINE u == L!StrategyUsefulness(plans[k].shape, plans[k].target)
<1>4. u \in Int BY Z3 DEF L!StrategyUsefulness
<1> DEFINE extra == CASE plans[k].scope = "OK" -> 10
        [] plans[k].scope \in {"RegimentOrigin", "Texas"} -> IF plans[k].regiment THEN 5 ELSE 0
        [] plans[k].scope \in {"Global", "US"} -> -5
        [] OTHER -> 0
<1>5. extra \in Int BY <1>3
<1>6. L!ScorePlan(plans[k]) = u + extra BY DEF L!ScorePlan
<1> HIDE DEF u, extra
<1> QED BY <1>3, <1>4, <1>5, <1>6

LEMMA SoonerIs ==
  ASSUME NEW plans \in PlanLists
  PROVE  LET S == DOMAIN plans  R == L!Sooner(plans)
         IN  /\ S \in SUBSET Nat /\ IsFiniteSet(S) /\ IsOrder(S, R)
             /\ \A x, y \in S : <<x, y>> \in R =>
                  /\ ~L!Before(plans[y], plans[x])
                  /\ L!ScorePlan(plans[x]) >= L!ScorePlan(plans[y])
<1> DEFINE S == DOMAIN plans
           R == L!Sooner(plans)
           Bf(x, y) == L!Before(plans[x], plans[y])
           sc(x) == L!ScorePlan(plans[x])
           co(x) == plans[x].cost
<1>1. plans \in Seq(L!Plans) BY ReviewingAssumption DEF L!LearningAssumption
<1>2. S = 1 .. Len(plans) /\ Len(plans) \in Nat BY <1>1
<1>3. S \in SUBSET Nat /\ IsFiniteSet(S)
  <2>1. 1 \in Int /\ Len(plans) \in Int BY <1>2
  <2> QED BY <1>2, <2>1, FS_Interval
<1>4. \A x \in S : sc(x) \in Int /\ co(x) \in Int BY PlanScore
<1>5. \A x, y \in S : Bf(x, y) <=> sc(x) > sc(y) \/ (sc(x) = sc(y) /\ co(x) < co(y))
  BY DEF L!Before
<1>6. \A x, y \in S : <<x, y>> \in R <=> Bf(x, y) \/ (~Bf(y, x) /\ x < y)
  BY DEF L!Sooner
<1> HIDE DEF Bf, sc, co, R, S
<1>7. \A x, y \in S : Bf(x, y) => ~Bf(y, x) BY <1>4, <1>5
<1>8. \A x, y, z \in S : Bf(x, y) /\ ~Bf(z, y) => Bf(x, z) BY <1>4, <1>5
<1>9. \A x, y, z \in S : ~Bf(y, x) /\ Bf(y, z) => Bf(x, z) BY <1>4, <1>5
<1>10. \A x, y, z \in S : ~Bf(y, x) /\ ~Bf(z, y) => ~Bf(z, x) BY <1>4, <1>5
<1>11. \A x, y, z \in S : <<x, y>> \in R /\ <<y, z>> \in R => <<x, z>> \in R
  BY <1>3, <1>6, <1>7, <1>8, <1>9, <1>10
<1>12. \A x, y \in S : x # y => <<x, y>> \in R \/ <<y, x>> \in R BY <1>3, <1>6
<1>13. \A x \in S : <<x, x>> \notin R BY <1>3, <1>6, <1>7
<1>14. IsOrder(S, R) BY <1>11, <1>12, <1>13 DEF IsOrder
<1>15. \A x, y \in S : <<x, y>> \in R => ~Bf(y, x) BY <1>6, <1>7
<1>16. \A x, y \in S : ~Bf(y, x) => sc(x) >= sc(y) BY <1>4, <1>5
<1> QED BY <1>3, <1>14, <1>15, <1>16 DEF Bf, sc, R, S

LEMMA SameIs ==
  /\ \A a : L!Same(a, a)
  /\ \A a, b : L!Same(a, b) => L!Same(b, a)
  /\ \A a, b, c : L!Same(a, b) /\ L!Same(b, c) => L!Same(a, c)
BY DEF L!Same

(* A finite set in order has a first member.                               *)
LEMMA FirstOf ==
  ASSUME NEW S, IsFiniteSet(S), S # {}, NEW R, IsOrder(S, R)
  PROVE  \E m \in S : \A j \in S : <<j, m>> \notin R /\ (j = m \/ <<m, j>> \in R)
<1> DEFINE s == L!InOrder(S, R)
           m == s[1]
<1>1. /\ \A i \in 1 .. Cardinality(S) : s[i] \in S
      /\ \A j \in S : \E i \in 1 .. Cardinality(S) : s[i] = j
      /\ \A i, j \in 1 .. Cardinality(S) : i < j => <<s[i], s[j]>> \in R
  BY OrderIs
<1>2. Cardinality(S) \in Nat /\ Cardinality(S) # 0 BY FS_CardinalityType, FS_EmptySet
<1>3. 1 \in 1 .. Cardinality(S) BY <1>2
<1> HIDE DEF s
<1>4. m \in S BY <1>1, <1>3
<1>5. \A j \in S : j = m \/ <<m, j>> \in R
  <2> SUFFICES ASSUME NEW j \in S, j # m PROVE <<m, j>> \in R OBVIOUS
  <2>1. PICK i \in 1 .. Cardinality(S) : s[i] = j BY <1>1
  <2>2. 1 < i BY <1>2, <2>1
  <2> QED BY <1>1, <1>3, <2>1, <2>2
<1> HIDE DEF m
<1>6. \A j \in S : <<j, m>> \notin R
  <2> SUFFICES ASSUME NEW j \in S, <<j, m>> \in R PROVE FALSE OBVIOUS
  <2>1. CASE j = m BY <2>1 DEF IsOrder
  <2>2. CASE <<m, j>> \in R
    <3>1. <<m, m>> \in R BY <1>4, <2>2 DEF IsOrder
    <3> QED BY <1>4, <3>1 DEF IsOrder
  <2> QED BY <1>5, <2>1, <2>2
<1> QED BY <1>4, <1>5, <1>6

(* The ranker keeps the best of the plans that are the same.               *)
LEMMA BestIsFirst ==
  ASSUME NEW plans \in PlanLists, NEW k \in DOMAIN plans
  PROVE  \E m \in DOMAIN plans :
           /\ L!Same(plans[m], plans[k])
           /\ L!ScorePlan(plans[m]) >= L!ScorePlan(plans[k])
           /\ \A j \in DOMAIN plans :
                L!Same(plans[j], plans[m]) => <<j, m>> \notin L!Sooner(plans)
<1> DEFINE R == L!Sooner(plans)
           S == {j \in DOMAIN plans : L!Same(plans[j], plans[k])}
<1>1. /\ DOMAIN plans \in SUBSET Nat /\ IsFiniteSet(DOMAIN plans) /\ IsOrder(DOMAIN plans, R)
      /\ \A x, y \in DOMAIN plans : <<x, y>> \in R =>
           L!ScorePlan(plans[x]) >= L!ScorePlan(plans[y])
  BY SoonerIs
<1>2. \A j \in S : j \in DOMAIN plans /\ L!Same(plans[j], plans[k]) OBVIOUS
<1>3. k \in S BY SameIs
<1>4. \A j \in DOMAIN plans : L!Same(plans[j], plans[k]) => j \in S OBVIOUS
<1> HIDE DEF S, R
<1>5. IsFiniteSet(S)
  <2>1. S \in SUBSET DOMAIN plans BY <1>2
  <2> QED BY <1>1, <2>1, FS_Subset
<1>6. IsOrder(S, R) BY <1>1, <1>2 DEF IsOrder
<1>7. PICK m \in S : \A j \in S : <<j, m>> \notin R /\ (j = m \/ <<m, j>> \in R)
  BY <1>3, <1>5, <1>6, FirstOf
<1>8. L!ScorePlan(plans[m]) >= L!ScorePlan(plans[k])
  <2>1. CASE k = m
    <3>1. L!ScorePlan(plans[k]) \in Int BY PlanScore
    <3> QED BY <2>1, <3>1
  <2>2. CASE <<m, k>> \in R BY <1>1, <1>2, <2>2
  <2> QED BY <1>3, <1>7, <2>1, <2>2
<1>9. \A j \in DOMAIN plans : L!Same(plans[j], plans[m]) => <<j, m>> \notin R
  BY <1>2, <1>4, <1>7, SameIs
<1> QED BY <1>2, <1>8, <1>9 DEF R

LEMMA RankedIs ==
  ASSUME NEW plans \in PlanLists, NEW budget \in Nat
  PROVE  LET ranked == L!Ranked(plans, budget) IN
         /\ \A i, j \in DOMAIN ranked :
              i < j => ~L!Same(ranked[i], ranked[j]) /\ ~L!Before(ranked[j], ranked[i])
         /\ \A k \in DOMAIN plans :
              \/ \E n \in DOMAIN ranked :
                   /\ L!Same(ranked[n], plans[k])
                   /\ L!ScorePlan(ranked[n]) >= L!ScorePlan(plans[k])
              \/ /\ Len(ranked) = budget
                 /\ \A n \in DOMAIN ranked : L!ScorePlan(ranked[n]) >= L!ScorePlan(plans[k])
<1> DEFINE R == L!Sooner(plans)
           first == {i \in DOMAIN plans : \A j \in DOMAIN plans :
                       L!Same(plans[j], plans[i]) => <<j, i>> \notin L!Sooner(plans)}
           s == L!InOrder(first, R)
           K == Cardinality(first)
           M == Min({budget, K})
           ranked == L!Ranked(plans, budget)
<1>1. /\ DOMAIN plans \in SUBSET Nat /\ IsFiniteSet(DOMAIN plans) /\ IsOrder(DOMAIN plans, R)
      /\ \A x, y \in DOMAIN plans : <<x, y>> \in R =>
           /\ ~L!Before(plans[y], plans[x])
           /\ L!ScorePlan(plans[x]) >= L!ScorePlan(plans[y])
  BY SoonerIs
<1>2. \A i \in first : /\ i \in DOMAIN plans
                       /\ \A j \in DOMAIN plans :
                            L!Same(plans[j], plans[i]) => <<j, i>> \notin R
  OBVIOUS
<1>3. \A k \in DOMAIN plans : \E m \in first :
        /\ L!Same(plans[m], plans[k])
        /\ L!ScorePlan(plans[m]) >= L!ScorePlan(plans[k])
  BY BestIsFirst
<1>4. ranked = [n \in 1 .. M |-> plans[s[n]]]
  BY LibraryOfLearning, Zenon DEF L!Ranked
<1> HIDE DEF first, R, ranked
<1>5. first \in SUBSET DOMAIN plans BY <1>2
<1>6. IsFiniteSet(first) /\ IsOrder(first, R)
  <2>1. IsFiniteSet(first) BY <1>1, <1>5, FS_Subset
  <2>2. IsOrder(first, R) BY <1>1, <1>2 DEF IsOrder
  <2> QED BY <2>1, <2>2
<1>7. K \in Nat BY <1>6, FS_CardinalityType
<1>8. /\ \A i \in 1 .. K : s[i] \in first
      /\ \A k \in first : \E i \in 1 .. K : s[i] = k
      /\ \A i, j \in 1 .. K : i < j => <<s[i], s[j]>> \in R
  BY <1>6, OrderIs
<1>9. M \in {budget, K} /\ M <= K /\ M \in Nat
  <2>1. {budget, K} \in SUBSET Nat /\ {budget, K} # {} BY <1>7
  <2>2. M \in {budget, K} /\ \A y \in {budget, K} : M <= y BY <2>1, LeastOf
  <2> QED BY <1>7, <2>2
<1> HIDE DEF s, K, M
<1>10. ASSUME NEW i \in 1 .. K, NEW j \in 1 .. K, i < j
       PROVE  ~L!Same(plans[s[i]], plans[s[j]]) /\ ~L!Before(plans[s[j]], plans[s[i]])
  <2>1. s[i] \in first /\ s[j] \in first /\ <<s[i], s[j]>> \in R BY <1>8, <1>10
  <2>2. s[i] \in DOMAIN plans /\ s[j] \in DOMAIN plans BY <1>2, <2>1
  <2> QED BY <1>1, <1>2, <2>1, <2>2
<1>11. DOMAIN ranked = 1 .. M /\ \A n \in 1 .. M : ranked[n] = plans[s[n]] BY <1>4
<1>12. Len(ranked) = M BY <1>4, <1>9
<1>13. \A i \in 1 .. M : i \in 1 .. K BY <1>7, <1>9
<1>14. \A i, j \in DOMAIN ranked :
         i < j => ~L!Same(ranked[i], ranked[j]) /\ ~L!Before(ranked[j], ranked[i])
  BY <1>10, <1>11, <1>13
<1>15. ASSUME NEW k \in DOMAIN plans
       PROVE  \/ \E n \in DOMAIN ranked :
                   /\ L!Same(ranked[n], plans[k])
                   /\ L!ScorePlan(ranked[n]) >= L!ScorePlan(plans[k])
              \/ /\ Len(ranked) = budget
                 /\ \A n \in DOMAIN ranked : L!ScorePlan(ranked[n]) >= L!ScorePlan(plans[k])
  <2>1. PICK m \in first : /\ L!Same(plans[m], plans[k])
                           /\ L!ScorePlan(plans[m]) >= L!ScorePlan(plans[k])
    BY <1>3
  <2>2. PICK i \in 1 .. K : s[i] = m BY <1>8
  <2>3. CASE i <= M
    <3>1. i \in 1 .. M BY <1>9, <2>3
    <3> QED BY <1>11, <2>1, <2>2, <3>1
  <2>4. CASE ~(i <= M)
    <3>1. M = budget BY <1>7, <1>9, <2>4
    <3>2. \A n \in 1 .. M : L!ScorePlan(plans[s[n]]) >= L!ScorePlan(plans[k])
      <4> SUFFICES ASSUME NEW n \in 1 .. M
                   PROVE  L!ScorePlan(plans[s[n]]) >= L!ScorePlan(plans[k])
        OBVIOUS
      <4>1. n \in 1 .. K /\ n < i BY <1>7, <1>9, <1>13, <2>4
      <4>2. <<s[n], m>> \in R /\ s[n] \in first BY <1>8, <2>2, <4>1
      <4>3. s[n] \in DOMAIN plans /\ m \in DOMAIN plans BY <1>2, <4>2
      <4>4. L!ScorePlan(plans[s[n]]) >= L!ScorePlan(plans[m]) BY <1>1, <4>2, <4>3
      <4>5. /\ L!ScorePlan(plans[s[n]]) \in Int /\ L!ScorePlan(plans[m]) \in Int
            /\ L!ScorePlan(plans[k]) \in Int
        BY <4>3, PlanScore
      <4> QED BY <2>1, <4>4, <4>5
    <3> QED BY <1>11, <1>12, <3>1, <3>2
  <2> QED BY <2>3, <2>4
<1> QED BY <1>14, <1>15 DEF ranked

LEMMA RankKept == ASSUME FitInv PROVE L!PlansAreRanked
<1> SUFFICES ASSUME fit.kind = "ranked" PROVE L!PlansAreRanked
  BY DEF L!PlansAreRanked
<1>1. /\ fit.plans \in PlanLists /\ fit.budget \in Nat
      /\ fit.ranked = L!Ranked(fit.plans, fit.budget)
  BY ReviewingAssumption DEF FitInv, L!LearningAssumption
<1> DEFINE plans == fit.plans  budget == fit.budget  ranked == fit.ranked
<1>2. plans \in PlanLists /\ budget \in Nat /\ ranked = L!Ranked(plans, budget) BY <1>1
<1> HIDE DEF plans, budget, ranked
<1>3. /\ \A i, j \in DOMAIN ranked :
              i < j => ~L!Same(ranked[i], ranked[j]) /\ ~L!Before(ranked[j], ranked[i])
      /\ \A k \in DOMAIN plans :
              \/ \E n \in DOMAIN ranked :
                   /\ L!Same(ranked[n], plans[k])
                   /\ L!ScorePlan(ranked[n]) >= L!ScorePlan(plans[k])
              \/ /\ Len(ranked) = budget
                 /\ \A n \in DOMAIN ranked : L!ScorePlan(ranked[n]) >= L!ScorePlan(plans[k])
  BY <1>2, RankedIs
<1> QED BY <1>3 DEF L!PlansAreRanked, plans, budget, ranked
-----------------------------------------------------------------------------
(* The weights.                                                            *)

LEMMA OfTwo ==
  ASSUME NEW a \in Int, NEW b \in Int
  PROVE  /\ Min({a, b}) = IF a <= b THEN a ELSE b
         /\ Max({a, b}) = IF a >= b THEN a ELSE b
<1>1. Min({a, b}) = IF a <= b THEN a ELSE b
  <2> DEFINE m == IF a <= b THEN a ELSE b
  <2>1. m \in {a, b} /\ \A y \in {a, b} : m <= y OBVIOUS
  <2>2. \A x \in {a, b} : (\A y \in {a, b} : x <= y) => x = m OBVIOUS
  <2> QED BY <2>1, <2>2 DEF Min
<1>2. Max({a, b}) = IF a >= b THEN a ELSE b
  <2> DEFINE m == IF a >= b THEN a ELSE b
  <2>1. m \in {a, b} /\ \A y \in {a, b} : m >= y OBVIOUS
  <2>2. \A x \in {a, b} : (\A y \in {a, b} : x >= y) => x = m OBVIOUS
  <2> QED BY <2>1, <2>2 DEF Max
<1> QED BY <1>1, <1>2

LEMMA ClampIs ==
  ASSUME NEW w \in 1 .. 20, NEW d \in {-30, 0, 30}
  PROVE  /\ L!Clamp(w + d) \in 1 .. 20
         /\ d >= 0 => L!Clamp(w + d) >= w
         /\ d <= 0 => L!Clamp(w + d) <= w
<1> DEFINE s == w + d
           m == IF 20 <= s THEN 20 ELSE s
           c == IF 1 >= m THEN 1 ELSE m
<1>1. s \in Int /\ m \in Int OBVIOUS
<1>2. L!Clamp(s) = Max({1, Min({20, s})}) BY LibraryOfLearning DEF L!Clamp
<1>3. Min({20, s}) = m
  <2> HIDE DEF s
  <2> QED BY <1>1, OfTwo
<1>4. Max({1, m}) = c
  <2> HIDE DEF m
  <2> QED BY <1>1, OfTwo
<1>5. L!Clamp(s) = c
  <2> HIDE DEF m, s, c
  <2> QED BY <1>2, <1>3, <1>4
<1>6. c \in 1 .. 20 /\ (d >= 0 => c >= w) /\ (d <= 0 => c <= w) OBVIOUS
<1> HIDE DEF c
<1> QED BY <1>5, <1>6

LEMMA WeightsKept == ASSUME FitInv PROVE L!WeightsFollowThePicks
<1> SUFFICES ASSUME fit.kind = "weights",
                    NEW f \in DOMAIN Weight, NEW g \in DOMAIN Weight,
                    \A k \in L!Used(fit.picks) :
                      fit.picks[k].delta[f] >= 0 /\ fit.picks[k].delta[g] <= 0
             PROVE  fit.weight[f] * Weight[g] >= fit.weight[g] * Weight[f]
  BY DEF L!WeightsFollowThePicks
<1> DEFINE picks == fit.picks  pairs == L!Pairs(picks)  used == L!Used(picks)
<1>1. picks \in PickLists BY DEF FitInv
<1>2. PICK c \in L!Coefficients(pairs) :
        fit.weight = IF used = {} THEN Weight
                     ELSE [h \in DOMAIN Weight |-> L!Clamp(Weight[h] + c[h])]
  BY DEF FitInv
<1>3. Weight[f] \in 1 .. 20 /\ Weight[g] \in 1 .. 20
  BY ReviewingAssumption DEF L!LearningAssumption
<1>4. ASSUME NEW k \in used PROVE picks[k].delta \in [DOMAIN Weight -> Int]
  <2> DEFINE T == [accepted : BOOLEAN, rank : Nat, delta : [DOMAIN Weight -> Int]]
  <2>1. PickLists \in SUBSET Seq(T) BY ReviewingAssumption DEF L!LearningAssumption
  <2>2. k \in DOMAIN picks BY DEF L!Used
  <2> HIDE DEF T, picks
  <2>3. picks[k] \in T BY <1>1, <2>1, <2>2
  <2> QED BY <2>3 DEF T
<1>5. /\ DOMAIN pairs = used
      /\ \A k \in used, h \in DOMAIN Weight :
           pairs[k][h] = IF picks[k].delta[h] < 0 THEN 2 * picks[k].delta[h]
                         ELSE picks[k].delta[h]
  BY DEF L!Pairs
<1>6. \A k \in used : pairs[k][f] >= 0 /\ pairs[k][g] <= 0
  <2> SUFFICES ASSUME NEW k \in used PROVE pairs[k][f] >= 0 /\ pairs[k][g] <= 0 OBVIOUS
  <2> DEFINE a == picks[k].delta[f]  b == picks[k].delta[g]
  <2>1. a \in Int /\ b \in Int BY <1>4
  <2>2. a >= 0 /\ b <= 0 OBVIOUS
  <2>3. /\ pairs[k][f] = IF a < 0 THEN 2 * a ELSE a
        /\ pairs[k][g] = IF b < 0 THEN 2 * b ELSE b
    BY <1>5
  <2> HIDE DEF a, b, pairs, used
  <2> QED BY <2>1, <2>2, <2>3
<1> HIDE DEF pairs, used, picks
<1>7. c \in [DOMAIN Weight -> {-30, 0, 30}] BY <1>2 DEF L!Coefficients
<1>8. c[f] >= 0
  <2>1. (\A d \in {pairs[k][f] : k \in DOMAIN pairs} : d >= 0) => c[f] >= 0
    BY <1>2 DEF L!Coefficients
  <2> QED BY <2>1, <1>5, <1>6
<1>9. c[g] <= 0
  <2>1. (\A d \in {pairs[k][g] : k \in DOMAIN pairs} : d <= 0) => c[g] <= 0
    BY <1>2 DEF L!Coefficients
  <2> QED BY <2>1, <1>5, <1>6
<1>10. CASE used = {}
  <2>1. fit.weight = Weight BY <1>2, <1>10
  <2>2. Weight[f] * Weight[g] = Weight[g] * Weight[f] /\ Weight[f] * Weight[g] \in Int
    BY <1>3
  <2> QED BY <2>1, <2>2
<1>11. CASE used # {}
  <2>1. /\ fit.weight[f] = L!Clamp(Weight[f] + c[f])
        /\ fit.weight[g] = L!Clamp(Weight[g] + c[g])
    BY <1>2, <1>11
  <2>2. fit.weight[f] \in 1 .. 20 /\ fit.weight[f] >= Weight[f]
    BY <1>3, <1>7, <1>8, <2>1, ClampIs
  <2>3. fit.weight[g] \in 1 .. 20 /\ fit.weight[g] <= Weight[g]
    BY <1>3, <1>7, <1>9, <2>1, ClampIs
  <2> DEFINE a == fit.weight[f]  b == fit.weight[g]  u == Weight[f]  v == Weight[g]
  <2>4. /\ a \in 1 .. 20 /\ b \in 1 .. 20 /\ u \in 1 .. 20 /\ v \in 1 .. 20
        /\ a >= u /\ b <= v
    BY <1>3, <2>2, <2>3
  <2> HIDE DEF a, b, u, v
  <2>5. a * v >= u * v /\ b * u <= v * u BY <2>4
  <2>6. a * v >= b * u BY <2>4, <2>5
  <2> QED BY <2>6 DEF a, b, u, v
<1> QED BY <1>10, <1>11
-----------------------------------------------------------------------------
(* The thresholds.                                                         *)

IsFraction(x) == x[1] \in Nat /\ x[2] \in Nat /\ x[2] > 0

LEMMA Cancel ==
  ASSUME NEW d \in Nat, d > 0, NEW p \in Int, NEW q \in Int
  PROVE  /\ d * p >= d * q => p >= q
         /\ d * p > d * q => p > q
<1>1. ASSUME d * p >= d * q PROVE p >= q
  <2> SUFFICES ASSUME q >= p + 1 PROVE FALSE OBVIOUS
  <2>1. d * q >= d * (p + 1) OBVIOUS
  <2>2. d * (p + 1) = d * p + d /\ d * p \in Int /\ d * q \in Int OBVIOUS
  <2> QED BY <1>1, <2>1, <2>2
<1>2. ASSUME d * p > d * q PROVE p > q
  <2> SUFFICES ASSUME q >= p PROVE FALSE OBVIOUS
  <2>1. d * q >= d * p OBVIOUS
  <2>2. d * p \in Int /\ d * q \in Int OBVIOUS
  <2> QED BY <1>2, <2>1, <2>2
<1> QED BY <1>1, <1>2

(* No worse, and better, of fractions goes through.                        *)
LEMMA BetterGoesOn ==
  ASSUME NEW x, NEW y, NEW z, IsFraction(x), IsFraction(y), IsFraction(z)
  PROVE  /\ ~L!Better(y, x) /\ ~L!Better(z, y) => ~L!Better(z, x)
         /\ L!Better(x, y) /\ ~L!Better(z, y) => L!Better(x, z)
         /\ ~L!Better(y, x) /\ L!Better(y, z) => L!Better(x, z)
         /\ L!Better(x, y) => ~L!Better(y, x)
<1> DEFINE a == x[1]  b == x[2]  c == y[1]  d == y[2]  e == z[1]  f == z[2]
<1>1. /\ a \in Nat /\ b \in Nat /\ b > 0 /\ c \in Nat /\ d \in Nat /\ d > 0
      /\ e \in Nat /\ f \in Nat /\ f > 0
  BY DEF IsFraction
<1>2. /\ L!Better(x, y) <=> a * d > c * b
      /\ L!Better(y, x) <=> c * b > a * d
      /\ L!Better(z, y) <=> e * d > c * f
      /\ L!Better(y, z) <=> c * f > e * d
      /\ L!Better(x, z) <=> a * f > e * b
      /\ L!Better(z, x) <=> e * b > a * f
  BY DEF L!Better
<1> HIDE DEF a, b, c, d, e, f
<1>3. /\ a * d \in Int /\ c * b \in Int /\ e * d \in Int /\ c * f \in Int
      /\ a * f \in Int /\ e * b \in Int
  BY <1>1
<1>4. f * (a * d) = d * (a * f) /\ f * (c * b) = b * (c * f) /\ b * (e * d) = d * (e * b)
  BY <1>1
<1>5. /\ f * (a * d) \in Int /\ f * (c * b) \in Int /\ b * (e * d) \in Int
  BY <1>1
<1>6. ASSUME a * d >= c * b, c * f >= e * d PROVE a * f >= e * b
  <2>1. f * (a * d) >= f * (c * b) BY <1>1, <1>3, <1>6
  <2>2. b * (c * f) >= b * (e * d) BY <1>1, <1>3, <1>6
  <2>3. d * (a * f) >= d * (e * b) BY <1>4, <1>5, <2>1, <2>2
  <2> QED BY <1>1, <1>3, <2>3, Cancel
<1>7. ASSUME a * d > c * b, c * f >= e * d PROVE a * f > e * b
  <2>1. f * (a * d) > f * (c * b) BY <1>1, <1>3, <1>7
  <2>2. b * (c * f) >= b * (e * d) BY <1>1, <1>3, <1>7
  <2>3. d * (a * f) > d * (e * b) BY <1>4, <1>5, <2>1, <2>2
  <2> QED BY <1>1, <1>3, <2>3, Cancel
<1>8. ASSUME a * d >= c * b, c * f > e * d PROVE a * f > e * b
  <2>1. f * (a * d) >= f * (c * b) BY <1>1, <1>3, <1>8
  <2>2. b * (c * f) > b * (e * d) BY <1>1, <1>3, <1>8
  <2>3. d * (a * f) > d * (e * b) BY <1>4, <1>5, <2>1, <2>2
  <2> QED BY <1>1, <1>3, <2>3, Cancel
<1> QED BY <1>2, <1>3, <1>6, <1>7, <1>8

Matrix(m) == m.tp \in Nat /\ m.fp \in Nat /\ m.fn \in Nat

LEMMA MetricIs ==
  ASSUME NEW name, NEW m, Matrix(m)
  PROVE  /\ IsFraction(L!Metric(name, m))
         /\ m.tp = 0 => L!Metric(name, m)[1] = 0
<1> DEFINE whole == CASE name = "precision" -> m.tp + m.fp
                      [] name = "recall" -> m.tp + m.fn
                      [] OTHER -> 2 * m.tp + m.fp + m.fn
           part == IF name = "f1" THEN 2 * m.tp ELSE m.tp
<1>1. whole \in Nat /\ part \in Nat /\ (m.tp = 0 => part = 0) BY DEF Matrix
<1>2. L!Metric(name, m) = IF whole = 0 THEN <<0, 1>> ELSE <<part, whole>> BY DEF L!Metric
<1> HIDE DEF whole, part
<1>3. CASE whole = 0
  <2>1. L!Metric(name, m) = <<0, 1>> BY <1>2, <1>3
  <2> QED BY <2>1 DEF IsFraction
<1>4. CASE whole # 0
  <2>1. L!Metric(name, m) = <<part, whole>> BY <1>2, <1>4
  <2> QED BY <1>1, <1>4, <2>1 DEF IsFraction
<1> QED BY <1>3, <1>4

LEMMA CountedIs ==
  ASSUME NEW labels, Are(labels), NEW t, NEW fine
  PROVE  /\ Matrix(L!Counted(labels, t, fine))
         /\ (\A k \in DOMAIN labels : ~(labels[k].score * fine >= t))
              => L!Counted(labels, t, fine).tp = 0
<1> DEFINE said == {k \in DOMAIN labels : labels[k].score * fine >= t}
           right == {k \in DOMAIN labels : labels[k].accepted}
<1>1. L!Counted(labels, t, fine) =
        [tp |-> Cardinality(said \cap right), fp |-> Cardinality(said \ right),
         fn |-> Cardinality(right \ said)]
  BY LibraryOfLearning DEF L!Counted
<1>2. /\ (said \cap right) \in SUBSET DOMAIN labels
      /\ (said \ right) \in SUBSET DOMAIN labels
      /\ (right \ said) \in SUBSET DOMAIN labels
  OBVIOUS
<1>3. (\A k \in DOMAIN labels : ~(labels[k].score * fine >= t)) => said \cap right = {}
  OBVIOUS
<1> HIDE DEF said, right
<1>4. \A T \in SUBSET DOMAIN labels : Cardinality(T) \in Nat
  <2>1. IsFiniteSet(DOMAIN labels) BY DEF Are
  <2> QED BY <2>1, FS_Subset, FS_CardinalityType
<1>5. Cardinality({}) = 0 BY FS_EmptySet
<1>6. Matrix(L!Counted(labels, t, fine)) BY <1>1, <1>2, <1>4 DEF Matrix
<1>7. L!Counted(labels, t, fine).tp = Cardinality(said \cap right) BY <1>1
<1> QED BY <1>3, <1>5, <1>6, <1>7

LEMMA CandidatesAre ==
  ASSUME NEW labels, Are(labels), DOMAIN labels # {}
  PROVE  /\ L!CandidateThresholds(labels) \in SUBSET (0 .. 2 * Highest)
         /\ 0 \in L!CandidateThresholds(labels)
         /\ \A k \in DOMAIN labels : 2 * labels[k].score \in L!CandidateThresholds(labels)
<1> DEFINE seen == {labels[k].score : k \in DOMAIN labels}
           top == Max(seen)
           Over(s) == {r \in seen : r > s}
<1>1. L!CandidateThresholds(labels) =
        {0, 2 * Highest} \cup {2 * s : s \in seen}
          \cup {s + Min(Over(s)) : s \in seen \ {top}}
  BY LibraryOfLearning, Zenon DEF L!CandidateThresholds
<1>2. Highest \in Nat /\ seen \in SUBSET (0 .. Highest) /\ seen # {}
  BY FitConstants DEF Are
<1>3. \A k \in DOMAIN labels : labels[k].score \in seen OBVIOUS
<1> HIDE DEF seen
<1>4. top \in seen /\ \A y \in seen : y <= top BY <1>2, MostOf
<1> HIDE DEF top
<1>5. ASSUME NEW s \in seen \ {top} PROVE Min(Over(s)) \in seen
  <2>1. s <= top /\ s \in Nat /\ top \in Nat BY <1>2, <1>4
  <2>2. top \in Over(s) BY <1>4, <2>1
  <2>3. \A r \in Over(s) : r \in seen OBVIOUS
  <2> HIDE DEF Over
  <2>4. Over(s) \in SUBSET Nat /\ Over(s) # {}
    <3>1. \A r \in seen : r \in Nat BY <1>2
    <3>2. \A r \in Over(s) : r \in Nat BY <2>3, <3>1
    <3> QED BY <2>2, <3>2
  <2>5. Min(Over(s)) \in Over(s) BY <2>4, LeastOf
  <2> QED BY <2>3, <2>5
<1>6. \A s \in seen \ {top} : s + Min(Over(s)) \in 0 .. 2 * Highest
  <2> SUFFICES ASSUME NEW s \in seen \ {top}
               PROVE  s + Min(Over(s)) \in 0 .. 2 * Highest
    OBVIOUS
  <2> DEFINE u == Min(Over(s))
  <2>1. s \in 0 .. Highest /\ u \in 0 .. Highest BY <1>2, <1>5
  <2> HIDE DEF u
  <2>2. s + u \in 0 .. 2 * Highest BY <1>2, <2>1
  <2> QED BY <2>2 DEF u
<1> HIDE DEF Over
<1>7. \A s \in seen : 2 * s \in 0 .. 2 * Highest BY <1>2
<1>8. 0 \in 0 .. 2 * Highest /\ 2 * Highest \in 0 .. 2 * Highest BY <1>2
<1>9. L!CandidateThresholds(labels) \in SUBSET (0 .. 2 * Highest)
  BY <1>1, <1>6, <1>7, <1>8
<1>10. \A k \in DOMAIN labels : 2 * labels[k].score \in L!CandidateThresholds(labels)
  BY <1>1, <1>3
<1>11. 0 \in L!CandidateThresholds(labels) BY <1>1
<1> QED BY <1>9, <1>10, <1>11

(* Of finitely many fractions one is best.                                 *)
LEMMA BestIs ==
  ASSUME NEW C, C \in SUBSET Nat, IsFiniteSet(C), C # {}, NEW g,
         \A t \in C : IsFraction(g[t])
  PROVE  \E t \in C : \A u \in C : ~L!Better(g[u], g[t])
<1> DEFINE Lt(x, y) == L!Better(g[x], g[y])
           R == {p \in C \X C : Lt(p[1], p[2]) \/ (~Lt(p[2], p[1]) /\ p[1] < p[2])}
<1>1. /\ \A x, y \in C : Lt(x, y) => ~Lt(y, x)
      /\ \A x, y, z \in C : Lt(x, y) /\ ~Lt(z, y) => Lt(x, z)
      /\ \A x, y, z \in C : ~Lt(y, x) /\ Lt(y, z) => Lt(x, z)
      /\ \A x, y, z \in C : ~Lt(y, x) /\ ~Lt(z, y) => ~Lt(z, x)
  BY BetterGoesOn
<1>2. \A x, y \in C : <<x, y>> \in R <=> Lt(x, y) \/ (~Lt(y, x) /\ x < y)
  OBVIOUS
<1>3. \A x, y \in C : ~Lt(x, y) <=> ~L!Better(g[x], g[y]) OBVIOUS
<1> HIDE DEF Lt, R
<1>4. \A x, y, z \in C : <<x, y>> \in R /\ <<y, z>> \in R => <<x, z>> \in R
  BY <1>1, <1>2
<1>5. \A x, y \in C : x # y => <<x, y>> \in R \/ <<y, x>> \in R BY <1>2
<1>6. \A x \in C : <<x, x>> \notin R BY <1>1, <1>2
<1>7. IsOrder(C, R) BY <1>4, <1>5, <1>6 DEF IsOrder
<1>8. PICK m \in C : \A j \in C : <<j, m>> \notin R /\ (j = m \/ <<m, j>> \in R)
  BY <1>7, FirstOf
<1>9. \A j \in C : ~Lt(j, m) BY <1>2, <1>8
<1> QED BY <1>3, <1>9

LEMMA BestThresholdIs ==
  ASSUME NEW name, NEW labels, Are(labels), DOMAIN labels # {}
  PROVE  LET C == L!CandidateThresholds(labels)
             b == L!BestThreshold(name, labels)
         IN  /\ b \in C
             /\ \A u \in C : ~L!Better(L!Metric(name, L!Counted(labels, u, 2)),
                                       L!Metric(name, L!Counted(labels, b, 2)))
<1> DEFINE C == L!CandidateThresholds(labels)
           g == [t \in C |-> L!Metric(name, L!Counted(labels, t, 2))]
           best == {t \in C : \A u \in C :
                      ~L!Better(L!Metric(name, L!Counted(labels, u, 2)),
                                L!Metric(name, L!Counted(labels, t, 2)))}
<1>1. Min(best) = L!BestThreshold(name, labels)
  BY LibraryOfLearning, Zenon DEF L!BestThreshold
<1>2. C \in SUBSET (0 .. 2 * Highest) /\ 0 \in C BY CandidatesAre
<1>3. C \in SUBSET Nat /\ C # {} /\ IsFiniteSet(C)
  <2> HIDE DEF C
  <2>1. 0 \in Int /\ 2 * Highest \in Int BY FitConstants
  <2>2. IsFiniteSet(0 .. 2 * Highest) BY <2>1, FS_Interval
  <2>3. IsFiniteSet(C) BY <1>2, <2>2, FS_Subset
  <2> QED BY <1>2, <2>3, FitConstants
<1>4. \A t \in C : /\ g[t] = L!Metric(name, L!Counted(labels, t, 2))
                   /\ IsFraction(g[t])
  <2> SUFFICES ASSUME NEW t \in C
               PROVE  /\ g[t] = L!Metric(name, L!Counted(labels, t, 2))
                      /\ IsFraction(L!Metric(name, L!Counted(labels, t, 2)))
    OBVIOUS
  <2>1. Matrix(L!Counted(labels, t, 2)) BY CountedIs
  <2> QED BY <2>1, MetricIs
<1>5. best = {t \in C : \A u \in C : ~L!Better(g[u], g[t])} BY <1>4
<1> HIDE DEF C, g
<1>6. \E t \in C : \A u \in C : ~L!Better(g[u], g[t]) BY <1>3, <1>4, BestIs
<1>7. best # {} /\ best \in SUBSET Nat BY <1>3, <1>5, <1>6
<1> HIDE DEF best
<1>8. Min(best) \in best BY <1>7, LeastOf
<1> QED BY <1>1, <1>8 DEF best, C

(* A threshold says what the least score above it says.                    *)
LEMMA NoneIsBetter ==
  ASSUME NEW name, NEW labels, Are(labels), DOMAIN labels # {}, NEW t \in Int
  PROVE  ~L!Better(L!Metric(name, L!Counted(labels, t, 4)),
                   L!Metric(name, L!Counted(labels, L!BestThreshold(name, labels), 2)))
<1> DEFINE b == L!BestThreshold(name, labels)
           U == {labels[k].score : k \in {n \in DOMAIN labels : labels[n].score * 4 >= t}}
           s == Min(U)
           x == L!Metric(name, L!Counted(labels, t, 4))
           y == L!Metric(name, L!Counted(labels, b, 2))
<1>1. IsFraction(x) /\ IsFraction(y)
  <2>1. Matrix(L!Counted(labels, t, 4)) /\ Matrix(L!Counted(labels, b, 2)) BY CountedIs
  <2> QED BY <2>1, MetricIs
<1>2. CASE U = {}
  <2>1. \A k \in DOMAIN labels : ~(labels[k].score * 4 >= t) BY <1>2
  <2>2. L!Counted(labels, t, 4).tp = 0 /\ Matrix(L!Counted(labels, t, 4))
    BY <2>1, CountedIs
  <2>3. x[1] = 0 BY <2>2, MetricIs
  <2> HIDE DEF x, y
  <2>4. x[1] * y[2] = 0 /\ y[1] * x[2] \in Nat BY <1>1, <2>3 DEF IsFraction
  <2>5. ~(x[1] * y[2] > y[1] * x[2]) BY <2>4
  <2>6. ~L!Better(x, y) BY <2>5 DEF L!Better
  <2> QED BY <2>6 DEF x, y
<1>3. CASE U # {}
  <2>1. U \in SUBSET Nat BY FitConstants DEF Are
  <2>2. s \in U /\ \A r \in U : s <= r
    <3> HIDE DEF U
    <3> QED BY <1>3, <2>1, LeastOf
  <2>3. PICK n \in DOMAIN labels : labels[n].score = s /\ s * 4 >= t BY <2>2
  <2>4. \A k \in DOMAIN labels : labels[k].score * 4 >= t => s <= labels[k].score
    BY <2>2
  <2>5. s \in Nat /\ \A k \in DOMAIN labels : labels[k].score \in Nat
    BY <2>1, <2>2, FitConstants DEF Are
  <2> HIDE DEF s, U
  <2>6. \A k \in DOMAIN labels :
          labels[k].score * 4 >= t <=> labels[k].score * 2 >= 2 * s
    BY <2>3, <2>4, <2>5
  <2>7. {k \in DOMAIN labels : labels[k].score * 4 >= t}
          = {k \in DOMAIN labels : labels[k].score * 2 >= 2 * s}
    BY <2>6
  <2>8. L!Counted(labels, t, 4) = L!Counted(labels, 2 * s, 2)
    BY <2>7, Zenon DEF L!Counted
  <2>9. 2 * s \in L!CandidateThresholds(labels)
    <3>1. 2 * labels[n].score \in L!CandidateThresholds(labels) BY CandidatesAre
    <3> QED BY <2>3, <3>1
  <2> QED BY <2>8, <2>9, BestThresholdIs
<1> QED BY <1>2, <1>3

LEMMA Numbers ==
  ASSUME NEW G, 0 \in G, \A n \in Nat : n \in G => n + 1 \in G
  PROVE  \A n \in Nat : n \in G
<1> SUFFICES ASSUME Nat \ G # {} PROVE FALSE OBVIOUS
<1>1. Nat \ G \in SUBSET Nat OBVIOUS
<1> DEFINE x == Min(Nat \ G)
<1>2. x \in Nat \ G /\ \A y \in Nat \ G : x <= y BY <1>1, LeastOf
<1> HIDE DEF x
<1>3. x # 0 /\ x - 1 \in Nat BY <1>2
<1>4. x - 1 \in G BY <1>2, <1>3
<1> QED BY <1>2, <1>3, <1>4

(* A search of so many steps.                                              *)
Repeated(g, S, a, n, F) ==
  g \in [0 .. n -> S] /\ g[0] = a /\ \A k \in 1 .. n : g[k] = F[g[k - 1]]

LEMMA Repeats ==
  ASSUME NEW S, NEW a \in S, NEW n \in Nat, NEW F \in [S -> S]
  PROVE  \E g : Repeated(g, S, a, n, F)
<1> DEFINE Runs(m) == {g \in [0 .. m -> S] :
                         g[0] = a /\ \A k \in 1 .. m : g[k] = F[g[k - 1]]}
           G == {m \in Nat : Runs(m) # {}}
<1>1. 0 \in G
  <2>1. [k \in 0 .. 0 |-> a] \in Runs(0) OBVIOUS
  <2> QED BY <2>1
<1>2. ASSUME NEW m \in Nat, m \in G PROVE m + 1 \in G
  <2>1. PICK g \in [0 .. m -> S] :
          g[0] = a /\ \A k \in 1 .. m : g[k] = F[g[k - 1]]
    BY <1>2
  <2> DEFINE h == [k \in 0 .. m + 1 |-> IF k = m + 1 THEN F[g[m]] ELSE g[k]]
  <2>2. F[g[m]] \in S BY <2>1
  <2>3. h \in [0 .. m + 1 -> S] /\ h[0] = a BY <2>1, <2>2
  <2>4. ASSUME NEW k \in 1 .. m + 1 PROVE h[k] = F[h[k - 1]]
    <3>1. k - 1 \in 0 .. m /\ h[k - 1] = g[k - 1] OBVIOUS
    <3>2. CASE k = m + 1 BY <3>1, <3>2
    <3>3. CASE k # m + 1 BY <3>1, <3>3, <2>1
    <3> QED BY <3>2, <3>3
  <2> HIDE DEF h
  <2>5. h \in Runs(m + 1) BY <2>3, <2>4
  <2> QED BY <2>5
<1> HIDE DEF G
<1>3. n \in G BY <1>1, <1>2, Numbers
<1> QED BY <1>3 DEF G, Repeated

(* The threshold calibrate_threshold returns is one that met the target,   *)
(* or the top it started with.                                             *)
LEMMA CalibratedIs ==
  ASSUME NEW labels
  PROVE  LET level == L!CalibrateThreshold(labels)
         IN  level = Highest * L!Fine \/ L!Meets(labels, level)
<1> DEFINE top == Highest * L!Fine
           step(s) == LET mid == (s.lo + s.hi) \div 2
                      IN  IF L!Meets(labels, mid) THEN [lo |-> mid, hi |-> s.hi, best |-> mid]
                          ELSE [lo |-> s.lo, hi |-> mid, best |-> s.best]
           Def(q) == q = [k \in 0 .. Halvings |->
                            IF k = 0 THEN [lo |-> 0, hi |-> top, best |-> top]
                            ELSE step(q[k - 1])]
           search == CHOOSE q : Def(q)
<1>1. L!CalibrateThreshold(labels) = search[Halvings].best
  BY Zenon DEF L!CalibrateThreshold
<1>2. Halvings \in Nat /\ top \in Int
  <2>1. Halvings \in Nat /\ Highest \in Nat
    BY ReviewingAssumption DEF L!LearningAssumption
  <2>2. 2 ^ Halvings \in Int BY <2>1
  <2>3. Highest * (2 ^ Halvings) \in Int BY <2>1, <2>2
  <2> QED BY <2>1, <2>3 DEF L!Fine
<1> DEFINE S == [lo : Int, hi : Int, best : Int]
           F == [s \in S |-> step(s)]
           a == [lo |-> 0, hi |-> top, best |-> top]
<1> HIDE DEF top
<1>3. a \in S BY <1>2
<1>4. \A s \in S : step(s) \in S
  <2> SUFFICES ASSUME NEW s \in S PROVE step(s) \in S OBVIOUS
  <2> DEFINE mid == (s.lo + s.hi) \div 2
  <2>1. mid \in Int /\ s.lo \in Int /\ s.hi \in Int /\ s.best \in Int OBVIOUS
  <2>2. step(s) = IF L!Meets(labels, mid) THEN [lo |-> mid, hi |-> s.hi, best |-> mid]
                  ELSE [lo |-> s.lo, hi |-> mid, best |-> s.best]
    OBVIOUS
  <2> HIDE DEF mid, step
  <2> QED BY <2>1, <2>2
<1> HIDE DEF step
<1>5. F \in [S -> S] BY <1>4
<1>6. PICK g \in [0 .. Halvings -> S] :
        g[0] = a /\ \A k \in 1 .. Halvings : g[k] = F[g[k - 1]]
  <2> HIDE DEF S, F, a
  <2>1. \E g : Repeated(g, S, a, Halvings, F) BY <1>2, <1>3, <1>5, Repeats, Zenon
  <2> QED BY <2>1 DEF Repeated
<1>7. Def(g)
  <2> DEFINE d == [k \in 0 .. Halvings |-> IF k = 0 THEN a ELSE step(g[k - 1])]
  <2>1. \A k \in 0 .. Halvings : g[k] = d[k]
    <3> SUFFICES ASSUME NEW k \in 0 .. Halvings PROVE g[k] = d[k] OBVIOUS
    <3>1. CASE k = 0 BY <1>6, <3>1
    <3>2. CASE k # 0
      <4>1. k \in 1 .. Halvings /\ k - 1 \in 0 .. Halvings BY <1>2, <3>2
      <4>2. g[k - 1] \in S BY <1>6, <4>1
      <4>3. g[k] = F[g[k - 1]] BY <1>6, <4>1
      <4> HIDE DEF S
      <4>4. F[g[k - 1]] = step(g[k - 1]) BY <4>2
      <4> HIDE DEF F
      <4> QED BY <3>2, <4>3, <4>4
    <3> QED BY <3>1, <3>2
  <2>2. DOMAIN g = 0 .. Halvings /\ g = [k \in 0 .. Halvings |-> g[k]] BY <1>6
  <2> HIDE DEF S, F
  <2> QED BY <2>1, <2>2
<1>8. Def(search)
  <2> HIDE DEF S, F
  <2>1. \E q : Def(q) BY <1>7
  <2> QED BY <2>1, Zenon
<1> HIDE DEF search, S, F
<1> DEFINE Good(k) == \/ search[k].best = top \/ L!Meets(labels, search[k].best)
           G == {k \in Nat : k <= Halvings => Good(k)}
<1>9. search[0] = a BY <1>2, <1>8
<1>10. \A k \in 1 .. Halvings : search[k] = step(search[k - 1])
  <2> SUFFICES ASSUME NEW k \in 1 .. Halvings PROVE search[k] = step(search[k - 1])
    OBVIOUS
  <2>1. k \in 0 .. Halvings /\ k # 0 OBVIOUS
  <2> QED BY <1>8, <2>1
<1>11. 0 \in G
  <2>1. search[0].best = top BY <1>9
  <2> QED BY <2>1
<1>12. ASSUME NEW k \in Nat, k \in G PROVE k + 1 \in G
  <2> SUFFICES ASSUME k + 1 <= Halvings PROVE Good(k + 1) OBVIOUS
  <2>1. Good(k) BY <1>2, <1>12
  <2>2. search[k + 1] = step(search[k])
    <3>1. k + 1 \in 1 .. Halvings /\ (k + 1) - 1 = k BY <1>2
    <3> QED BY <1>10, <3>1
  <2> DEFINE s == search[k]  mid == (s.lo + s.hi) \div 2
  <2>3. CASE L!Meets(labels, mid)
    <3>1. step(s) = [lo |-> mid, hi |-> s.hi, best |-> mid] BY <2>3 DEF step
    <3>2. search[k + 1].best = mid BY <2>2, <3>1
    <3> QED BY <2>3, <3>2
  <2>4. CASE ~L!Meets(labels, mid)
    <3>1. step(s) = [lo |-> s.lo, hi |-> mid, best |-> s.best] BY <2>4 DEF step
    <3>2. search[k + 1].best = s.best BY <2>2, <3>1
    <3> QED BY <2>1, <3>2
  <2> QED BY <2>3, <2>4
<1> HIDE DEF G
<1>13. Halvings \in G BY <1>2, <1>11, <1>12, Numbers
<1>14. Good(Halvings) BY <1>2, <1>13 DEF G
<1> QED BY <1>1, <1>14 DEF top

LEMMA ThresholdsKept == ASSUME FitInv PROVE L!ThresholdsHold
<1> DEFINE labels == fit.labels
<1> SUFFICES ASSUME fit.kind = "trained" PROVE L!ThresholdsHold
  BY DEF L!ThresholdsHold
<1>1. /\ Are(labels) /\ DOMAIN labels # {}
      /\ fit.best = [m \in {"f1", "precision", "recall"} |-> L!BestThreshold(m, labels)]
      /\ fit.level = L!CalibrateThreshold(labels)
  BY DEF FitInv
<1> HIDE DEF labels
<1>2. \A m \in DOMAIN fit.best : \A t \in -1 .. 4 * Highest + 1 :
         ~L!Better(L!Metric(m, L!Counted(labels, t, 4)),
                   L!Metric(m, L!Counted(labels, fit.best[m], 2)))
  <2> SUFFICES ASSUME NEW m \in DOMAIN fit.best, NEW t \in -1 .. 4 * Highest + 1
               PROVE  ~L!Better(L!Metric(m, L!Counted(labels, t, 4)),
                                L!Metric(m, L!Counted(labels, fit.best[m], 2)))
    OBVIOUS
  <2>1. fit.best[m] = L!BestThreshold(m, labels) /\ t \in Int BY <1>1
  <2> QED BY <1>1, <2>1, NoneIsBetter
<1>3. fit.level = Highest * L!Fine \/ L!Meets(labels, fit.level) BY <1>1, CalibratedIs
<1> QED BY <1>2, <1>3 DEF L!ThresholdsHold, labels

(* Whatever labels and picks there are and whatever is asked, what was     *)
(* learnt goes the way the labels go.                                      *)
THEOREM FitFollowsTheLabels == L!Spec => []LearningFollowsTheLabels
<1> DEFINE All == LabelType /\ CopyInv /\ LengthInv /\ FitInv
<1>1. L!Init => All BY LabelsStart, FitStarts
<1>2. All /\ [L!Next]_L!labelVars => All' BY LabelStep, LengthStep, FitStep
<1>3. All => LearningFollowsTheLabels
  BY OrderKept, ThresholdsKept, RankKept, WeightsKept
  DEF LearningFollowsTheLabels, L!LearningFollowsTheLabels
<1> QED BY <1>1, <1>2, <1>3, PTL DEF L!Spec
=============================================================================
