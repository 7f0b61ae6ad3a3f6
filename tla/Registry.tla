------------------------------ MODULE Registry ------------------------------
(***************************************************************************)
(* The tools around the Confederate Graves Registry (scripts/cgr).         *)
(*                                                                         *)
(* cgr_dedup.py gathers the registry's records into persons: it joins every*)
(* two records that look alike with a union-find, names each class after   *)
(* its least id and says which pensioner is which person.  The lookup of   *)
(* pipeline/core.py finds a pensioner's records through blocks of similar  *)
(* names, cut at a limit; cgr_matcher.py, both_match.py, dixiedata_match.py*)
(* and cgr_fag_dedup.py judge what it finds.                               *)
(*                                                                         *)
(* A name is a sequence of letters; no year, unit, rank or cemetery is 0   *)
(* or "".  The order of a lookup is that of a Python set: any.             *)
(***************************************************************************)
EXTENDS Integers, FiniteSets, Sequences, SequencesExt, FiniteSetsExt, Functions

CONSTANTS
  Ids,          \* the registry's records, by number
  Pensioners,   \* the pensioners' ids
  Files,        \* what may be in the registry: a record for each id
  Orders,       \* the order of its lines
  Links,        \* which registry ids a results file has for each pensioner
  Rows,         \* a row of the results file, before it is judged
  Dixie,        \* the soldiers of the DixieData index, in order
  SoundAlike,   \* pairs of names that sound alike, and score 0.80 to 0.95
  Limit,        \* of a lookup
  TopN, Strict  \* of the DixieData match

(* What the constants must be; assumed where they get their values.        *)
RegistryAssumption ==
  /\ Ids \subseteq 1 .. 99 /\ IsFiniteSet(Ids) /\ Limit \in Nat /\ TopN \in Nat
  /\ \A f \in Files : DOMAIN f = Ids
  /\ \A o \in Orders : o \in [1 .. Cardinality(Ids) -> Ids] /\ Range(o) = Ids
  /\ \A l \in Links : DOMAIN l \subseteq Pensioners
  /\ \A p \in SoundAlike : <<p[2], p[1]>> \in SoundAlike
  /\ \A r \in Rows :
       {"last", "first", "born", "unit", "status", "fag"} \subseteq DOMAIN r

VARIABLES
  rec,    \* the records
  order,  \* their order in the file
  links,  \* the pensioners' links
  todo,   \* the places of the pairs build_dedup has still to compare
  parent, height, \* the union-find
  joined, \* history: the pairs it was told to join
  persons,        \* the persons written: members and linked pensioners
  personOf, whoIs, \* the two reverse indexes
  row,    \* the row that is judged, with its verdicts
  phase   \* "pairs", "links"; "rows", "dixie", "dedup"; "done"

file == <<rec, order, links>>
forest == <<parent, height, joined>>
output == <<persons, personOf, whoIs>>
vars == <<file, todo, forest, output, row, phase>>
-----------------------------------------------------------------------------
(* Whether two names are at least 0.90 alike by Jaro and Winkler.          *)

(* For each letter of s the first free equal letter of t within reach.     *)
Matched(s, t) ==
  LET longer == IF Len(s) > Len(t) THEN Len(s) ELSE Len(t)
      reach == IF longer < 4 THEN 0 ELSE longer \div 2 - 1
      m[i \in 0 .. Len(s)] ==
        IF i = 0 THEN << >>
        ELSE LET free == {j \in 1 .. Len(t) : /\ t[j] = s[i]
                                              /\ j \in i - reach .. i + reach
                                              /\ j \notin Range(m[i - 1])}
             IN  Append(m[i - 1], IF free = {} THEN 0 ELSE Min(free))
  IN  SelectSeq(m[Len(s)], LAMBDA j : j # 0)

Alike(s, t) ==
  LET hits == Matched(s, t)
      inOrder == SetToSortSeq(Range(hits), <)
      m == Len(hits)
      moved == Cardinality({k \in 1 .. m : t[hits[k]] # t[inOrder[k]]}) \div 2
      prefix == Max({p \in 0 .. 4 : /\ p <= Len(s) /\ p <= Len(t)
                                    /\ SubSeq(s, 1, p) = SubSeq(t, 1, p)})
      whole == 3 * Len(s) * Len(t) * m
      jaro == m * m * (Len(s) + Len(t)) + (m - moved) * Len(s) * Len(t)
  IN  s = t \/ (m > 0 /\ 10 * jaro + prefix * (whole - jaro) >= 9 * whole)

Within(a, b, years) == a # 0 /\ b # 0 /\ a - b \in -years .. years
SameValue(a, b, none) == a # none /\ a = b

TieBreaker(a, b) ==
  \/ Within(a.born, b.born, 5)
  \/ Within(a.died, b.died, 5)
  \/ SameValue(a.cem, b.cem, 0)
  \/ SameValue(a.unit, b.unit, "")
  \/ SameValue(a.rank, b.rank, "")

SamePerson(a, b) ==
  /\ SameValue(a.last, b.last, << >>)
  /\ a.first # << >> /\ b.first # << >> /\ Alike(a.first, b.first)
  /\ TieBreaker(a, b)
-----------------------------------------------------------------------------
(* UnionFind.                                                              *)

PathOf(up, x) ==
  LET p[n \in 0 .. Cardinality(Ids)] == IF n = 0 THEN x ELSE up[p[n - 1]] IN p
RootOf(up, x) == PathOf(up, x)[Cardinality(Ids)]

(* find compresses the path it has gone.                                   *)
Find(up, x) ==
  [y \in Ids |-> IF y \in Range(PathOf(up, x)) THEN RootOf(up, x) ELSE up[y]]

(* A mutant: the elements are hung on each other, not their roots.         *)
HangElement(a, b) ==
  /\ parent' = [Find(Find(parent, a), b) EXCEPT ![b] = a]
  /\ UNCHANGED height

Union(a, b) ==
  LET up == Find(Find(parent, a), b)
      top == IF height[up[a]] < height[up[b]] THEN up[b] ELSE up[a]
      low == IF top = up[a] THEN up[b] ELSE up[a]
  IN  IF top = low
      THEN parent' = up /\ UNCHANGED height
      ELSE /\ parent' = [up EXCEPT ![low] = top]
           /\ height' = IF height[low] = height[top]
                        THEN [height EXCEPT ![top] = @ + 1] ELSE height

(* The pairs with one last name, by their places in the file; name by name *)
(* as they first occur there, each pair in the order of the file.          *)
Pairs(r, o) ==
  {p \in (DOMAIN o) \X (DOMAIN o) :
     p[1] < p[2] /\ SameValue(r[o[p[1]]].last, r[o[p[2]]].last, << >>)}

Before(p, q) ==
  LET named(i) == Min({j \in DOMAIN order : rec[order[j]].last = rec[order[i]].last})
      key(t) == <<named(t[1]), t[1], t[2]>>
  IN  \E n \in 1 .. 3 : /\ key(p)[n] < key(q)[n]
                        /\ \A k \in 1 .. n - 1 : key(p)[k] = key(q)[k]

ComparePair ==
  /\ phase = "pairs"
  /\ \E p \in todo :
       /\ \A q \in todo \ {p} : Before(p, q)
       /\ LET a == order[p[1]]  b == order[p[2]]
          IN  IF SamePerson(rec[a], rec[b])
              THEN Union(a, b) /\ joined' = joined \cup {{a, b}}
              ELSE UNCHANGED forest
       /\ todo' = todo \ {p}
  /\ UNCHANGED <<file, output, row, phase>>

(* The first of a class, in the order of the file, that has a value.       *)
FirstWith(class, field, none) ==
  LET has == {i \in DOMAIN order :
                order[i] \in class /\ rec[order[i]][field] # none}
  IN  IF has = {} THEN none ELSE rec[order[Min(has)]][field]

Merged(class) ==
  [first |-> FirstWith(class, "first", << >>), last |-> FirstWith(class, "last", << >>),
   born |-> FirstWith(class, "born", 0), died |-> FirstWith(class, "died", 0),
   unit |-> FirstWith(class, "unit", ""), rank |-> FirstWith(class, "rank", ""),
   cems |-> {rec[c].cem : c \in class} \ {0}]

(* The classes become persons, each named after its least id.              *)
Close ==
  /\ phase = "pairs" /\ todo = {}
  /\ LET class(c) == {d \in Ids : RootOf(parent, d) = RootOf(parent, c)}
         name(c) == <<"person", Min(class(c))>>
     IN  /\ personOf' = [c \in Ids |-> name(c)]
         /\ persons' = [p \in {name(c) : c \in Ids} |->
                          [members |-> class(p[2]), linked |-> {},
                           data |-> Merged(class(p[2]))]]
  /\ phase' = "links" /\ UNCHANGED <<file, todo, forest, whoIs, row>>

(* The least of some persons' names, as text: "person_10" before "person_2".*)
Tens(n) == IF n < 10 THEN <<n, -1>> ELSE <<n \div 10, n % 10>>
TextBefore(m, n) ==
  \/ Tens(m)[1] < Tens(n)[1]
  \/ Tens(m)[1] = Tens(n)[1] /\ Tens(m)[2] < Tens(n)[2]
FirstName(names) ==
  CHOOSE p \in names : \A r \in names \ {p} : TextBefore(p[2], r[2])

ListUnder(ps, q, names) == [ps EXCEPT ![FirstName(names)].linked = @ \cup {q}]

Orphan(ps, q) ==
  IF <<"pensioner", q>> \in DOMAIN ps THEN ps
  ELSE [p \in DOMAIN ps \cup {<<"pensioner", q>>} |->
          IF p \in DOMAIN ps THEN ps[p] ELSE [members |-> {}, linked |-> {q}, data |-> << >>]]

(* A pensioner with links, those of the results file first, then those of  *)
(* the pensioner file that are not known yet.                              *)
LinkPensioner(q) ==
  /\ phase = "links" /\ q \notin DOMAIN whoIs
  /\ q \in DOMAIN links \/ DOMAIN links \subseteq DOMAIN whoIs
  /\ LET names == IF q \in DOMAIN links
                  THEN {personOf[c] : c \in links[q] \cap Ids} ELSE {}
         who == IF names = {} THEN <<"pensioner", q>> ELSE FirstName(names)
     IN  /\ persons' = IF names = {} THEN Orphan(persons, q)
                       ELSE ListUnder(persons, q, names)
         /\ whoIs' = [r \in DOMAIN whoIs \cup {q} |-> IF r = q THEN who ELSE whoIs[r]]
  /\ UNCHANGED <<file, todo, forest, personOf, row, phase>>

WriteDedup ==
  /\ phase = "links" /\ DOMAIN whoIs = Pensioners
  /\ phase' = "done"
  /\ UNCHANGED <<file, todo, forest, output, row>>
-----------------------------------------------------------------------------
(* What a lookup finds: all that share a block, cut at the limit.          *)

Start(s, n) == SubSeq(s, 1, IF Len(s) < n THEN Len(s) ELSE n)
Sounds(a, b) == a # << >> /\ b # << >>
                /\ (a = b \/ <<a, b>> \in SoundAlike)

SameBlock(p, c) ==
  \/ Sounds(p.last, c.last)
  \/ p.last # << >> /\ c.last # << >> /\ Start(p.last, 2) = Start(c.last, 2)
  \/ Sounds(p.first, c.first)

Blocked(p) == {c \in Ids : SameBlock(p, rec[c])}

(* The candidates a lookup may return, in any order.                       *)
Lookups(p) ==
  LET n == Cardinality(Blocked(p))
  IN  {s \in [1 .. (IF n < Limit THEN n ELSE Limit) -> Blocked(p)] : IsInjective(s)}

(* cgr_matcher: the name decides only whether there is a match at all.     *)
Years(a, b) ==
  CASE a = 0 \/ b = 0 -> "unknown"
    [] a # 0 /\ b # 0 /\ a = b -> "exact"
    [] a # 0 /\ b # 0 /\ a # b /\ Within(a, b, 2) -> "close"
    [] a # 0 /\ b # 0 /\ ~Within(a, b, 2) /\ Within(a, b, 5) -> "near"
    [] OTHER -> "far"

(* A unit is named by its state, if by any.                                *)
UnitConflict(p, c) == p.unit # "" /\ c.unit # "" /\ p.unit # c.unit

MatchStrength(p, c) ==
  LET years == Years(p.born, c.born)
  IN  CASE ~Sounds(p.last, c.last) -> "none"
        [] Sounds(p.last, c.last) /\ UnitConflict(p, c) /\ years = "far" -> "weak"
        [] Sounds(p.last, c.last) /\ ~UnitConflict(p, c)
             /\ years \in {"exact", "close"} -> "strong"
        [] OTHER -> "medium"

(* cgr_fag_dedup: names must be equal.  Another first name is compared with*)
(* match_pensioner_to_cgr, whose list of one can not be unpacked into two: *)
(* the exception is taken for a different name.                            *)
FirstDiffers(p, c) == p.first # c.first

RowStrength(p, c) ==
  CASE ~SameValue(p.last, c.last, << >>) -> "none"
    [] SameValue(p.last, c.last, << >>)
         /\ (p.first = << >> \/ c.first = << >> \/ FirstDiffers(p, c)) -> "weak"
    [] OTHER -> IF SameValue(p.unit, c.unit, "") \/ Within(p.born, c.born, 2)
                THEN "strong" ELSE "medium"

Rank(strength) ==
  CASE strength = "strong" -> 3 [] strength = "medium" -> 2
    [] strength = "weak" -> 1 [] OTHER -> 0

(* A mutant: the last candidate that matches at all is taken for the best. *)
LastOf(p, s) ==
  SelectLastInSeq(s, LAMBDA c : RowStrength(p, rec[c]) # "none")

(* The place of the first of the strongest candidates, 0 if none matches.  *)
BestOf(p, s) ==
  LET strength(i) == Rank(RowStrength(p, rec[s[i]]))
      best == {i \in DOMAIN s : /\ strength(i) > 0
                                /\ \A j \in DOMAIN s : strength(j) <= strength(i)}
  IN  IF best = {} THEN 0 ELSE Min(best)

Status(p, strength) ==
  CASE strength = "none" ->
         IF p.fag # << >> \/ p.status \notin {"no_results", "error"}
         THEN "clear" ELSE "no_fag_match"
    [] strength = "weak" -> "clear"
    [] OTHER -> IF p.status = "auto_accept" THEN "duplicate" ELSE "follow_up_candidate"

NoSummary == [cgr |-> 0, strength |-> "none"]

(* classify_pensioner: the status, the summary of the best record and the  *)
(* number of candidates.                                                   *)
Verdict(p, s) ==
  LET b == BestOf(p, s)
      summary == IF b = 0 THEN NoSummary
                 ELSE [cgr |-> s[b], strength |-> RowStrength(p, rec[s[b]])]
      status == Status(p, summary.strength)
  IN  [status |-> status, summary |-> summary,
       count |-> IF status = "no_fag_match" THEN 0 ELSE Len(s)]

(* both_match: a registry record and a memorial that agree.                *)
NamesAgree(c, m) ==
  /\ c.last # << >> /\ m.last # << >>
  /\ \/ c.last = m.last
     \/ Len(c.last) > 2 /\ Len(m.last) > 2 /\ Start(c.last, 3) = Start(m.last, 3)
  /\ c.first = m.first
     \/ (c.first # << >> /\ m.first # << >> /\ Head(c.first) = Head(m.first))

Confidence(c, m) ==
  LET years == Within(c.died, m.died, 2)
      place == SameValue(c.state, m.state, "")
  IN  CASE ~NamesAgree(c, m) \/ (c.died # 0 /\ m.died # 0 /\ ~years) -> 0
        [] NamesAgree(c, m) /\ years -> IF place THEN 95 ELSE 80
        [] OTHER -> IF place THEN 70
                    ELSE IF (c.died = 0) # (m.died = 0) THEN 60 ELSE 0

(* The strong matches, or if there is none all of them; registry first.    *)
BothMatch(p, s) ==
  LET strong == SelectSeq(s, LAMBDA c : MatchStrength(p, rec[c]) = "strong")
      tried == IF strong = << >> THEN s ELSE strong
      agrees == {a \in (DOMAIN tried) \X (DOMAIN p.fag) :
                   Confidence(rec[tried[a[1]]], p.fag[a[2]]) > 0}
      hit == CHOOSE a \in agrees : \A b \in agrees :
               a[1] < b[1] \/ (a[1] = b[1] /\ a[2] <= b[2])
  IN  IF agrees = {} THEN 0 ELSE Confidence(rec[tried[hit[1]]], p.fag[hit[2]])

(* dixiedata_match: the rank of the first memorial that the index has under*)
(* the pensioner's last name and initial, 0 if none.                       *)
DixieRank(p) ==
  LET same(d) == d.last = p.last /\ p.last # << >> /\ p.first # << >>
                 /\ Head(d.first) = Head(p.first)
      known(m) == {k \in DOMAIN Dixie : same(Dixie[k]) /\ Dixie[k].id = m.id}
      fits(m) == known(m) # {} /\ (Strict => LET d == Dixie[Min(known(m))]
                   IN d.slug = "" \/ m.slug = "" \/ d.slug = m.slug)
      hits == {i \in DOMAIN p.fag : i <= TopN /\ fits(p.fag[i])}
  IN  IF hits = {} THEN 0 ELSE Min(hits)

(* A row with fields more.                                                 *)
With(r, more) ==
  [f \in DOMAIN r \cup DOMAIN more |-> IF f \in DOMAIN more THEN more[f] ELSE r[f]]

(* The registry half of run_one: what the lookup finds is judged, and held *)
(* against the memorials already there.                                    *)
CrossReference ==
  /\ phase = "rows"
  /\ \E s \in Lookups(row) :
       row' = With(row, [cgr |-> [i \in DOMAIN s |-> MatchStrength(row, rec[s[i]])],
                         both |-> BothMatch(row, s)])
  /\ phase' = "dixie" /\ UNCHANGED <<file, todo, forest, output>>

(* annotate_results_with_dd over the row.                                  *)
AnnotateDixie ==
  /\ phase = "dixie"
  /\ row' = With(row, [dd |-> DixieRank(row)])
  /\ phase' = "dedup" /\ UNCHANGED <<file, todo, forest, output>>

(* run_dedup over the row, with a lookup of its own.                       *)
RunDedup ==
  /\ phase = "dedup"
  /\ \E s \in Lookups(row) :
       row' = With(row, [found |-> s, dedup |-> Verdict(row, s)])
  /\ phase' = "done" /\ UNCHANGED <<file, todo, forest, output>>
-----------------------------------------------------------------------------
NoRow == [none |-> TRUE]

Init ==
  /\ rec \in Files
  /\ parent = [c \in Ids |-> c] /\ height = [c \in Ids |-> 0] /\ joined = {}
  /\ persons = << >> /\ personOf = << >> /\ whoIs = << >>
  /\ \/ /\ phase = "pairs" /\ row = NoRow /\ order \in Orders
        /\ links \in Links /\ todo = Pairs(rec, order)
     \/ /\ phase = "rows" /\ row \in Rows /\ order = CHOOSE o \in Orders : TRUE
        /\ links = << >> /\ todo = {}

Next ==
  \/ ComparePair \/ Close \/ (\E q \in Pensioners : LinkPensioner(q)) \/ WriteDedup
  \/ CrossReference \/ AnnotateDixie \/ RunDedup

Spec == Init /\ [][Next]_vars
-----------------------------------------------------------------------------
(* Two records are in one class of the union-find exactly if the pairs     *)
(* joined so far connect them, and the forest is one: heights fall from    *)
(* the roots, whatever paths were compressed in between.                   *)
Connected(a, b) ==
  LET reach[n \in 0 .. Cardinality(Ids)] ==
        IF n = 0 THEN {a}
        ELSE reach[n - 1] \cup {c \in Ids : \E d \in reach[n - 1] : {c, d} \in joined}
  IN  b \in reach[Cardinality(Ids)]

ClassesAreComponents ==
  /\ \A a, b \in Ids : (RootOf(parent, a) = RootOf(parent, b)) <=> Connected(a, b)
  /\ \A a \in Ids : parent[a] = a \/ height[a] < height[parent[a]]

(* The output discipline of cgr_dedup.py: every record and every pensioner *)
(* is under exactly one person, the one the reverse indexes name, however  *)
(* many persons a pensioner's links lead to.                               *)
OnePersonEach ==
  phase = "done" /\ row = NoRow =>
    /\ \A c \in Ids : {p \in DOMAIN persons : c \in persons[p].members} = {personOf[c]}
    /\ \A q \in Pensioners :
         {p \in DOMAIN persons : q \in persons[p].linked} = {whoIs[q]}

(* Both: a record is written under the person its class names, however the *)
(* pairs came to be compared and the forest was compressed.                *)
PersonsAreClasses == ClassesAreComponents /\ OnePersonEach

Judged == phase = "done" /\ row # NoRow

(* What another lookup of the same row, which returns its candidates in    *)
(* another order or cuts others off, changes of the verdict.  A stronger   *)
(* match is one the first did not have; an equally strong one gives the    *)
(* same status; and if both had the same candidates, as they have when     *)
(* nothing is cut off, the status and the number are the same, and the     *)
(* record in the summary as well, unless another one is as strong.         *)
VerdictsAgree ==
  Judged => \A s \in Lookups(row) :
    LET old == row.dedup  new == Verdict(row, s)
        best == new.summary
    IN  /\ Rank(best.strength) > Rank(old.summary.strength) => best.cgr \notin Range(row.found)
        /\ best.strength = old.summary.strength => new.status = old.status
        /\ Range(s) = Range(row.found) \/ Cardinality(Blocked(row)) <= Limit =>
             /\ new.status = old.status /\ new.count = old.count
             /\ best # old.summary =>
                  \E c \in Range(s) \ {best.cgr} : RowStrength(row, rec[c]) = best.strength

(* What cgr_fag_dedup.py:7-14 says: a row is a duplicate or to be followed *)
(* up if the registry has the pensioner, and clear without a candidate.    *)
WhoIsThereIsSeen ==
  Judged /\ (\E c \in Ids : RowStrength(row, rec[c]) \in {"medium", "strong"}) =>
    row.dedup.status \in {"duplicate", "follow_up_candidate"}

(* What cgr_fag_dedup.py:97-104 says: a first name that sounds the same,   *)
(* with the same unit, is a strong match.                                  *)
PhoneticFirstCounts ==
  Judged => \A i \in DOMAIN row.found :
    LET c == rec[row.found[i]] IN
      /\ SameValue(row.last, c.last, << >>) /\ Sounds(row.first, c.first)
      /\ SameValue(row.unit, c.unit, "")
      => row.dedup.status \in {"duplicate", "follow_up_candidate"}

(* What cgr_dedup.py:53-69 says: two records are the same person only if   *)
(* they match.                                                             *)
MembersMatch ==
  \A p \in DOMAIN persons : \A a, b \in persons[p].members :
    a # b => SamePerson(rec[a], rec[b])
=============================================================================
