----------------------------- MODULE DeathDate -----------------------------
(***************************************************************************)
(* How a death date is found on a pension card (scripts/ingest): the       *)
(* parser find_death_date of red_ink_ocr_pilot.py, the programs that call  *)
(* it on the texts two OCR engines read (the pilot, easyocr_pass.py,       *)
(* re_enrich_from_ocr.py), the row that is made of a card's two sides      *)
(* (enrich_pensioners_with_death_dates.py), dates a person accepts         *)
(* (recover_missed_dates.py) and the audits that look for wrong ones       *)
(* (scripts/audit).                                                        *)
(*                                                                         *)
(* A text is a sequence of lines, a line a sequence of words: a death      *)
(* keyword, a date, a name, a phrase of the form, or anything else.  A word*)
(* is taken to be some twenty characters long, so that a window of sixty   *)
(* characters on each side is three words.                                 *)
(***************************************************************************)
EXTENDS Integers, Sequences, FiniteSets, SequencesExt, FiniteSetsExt

CONSTANTS
  Sides,   \* the sides of the card
  Cards,   \* Cards[s]: what may stand on side s, sequences of lines
  RedInk,  \* the lines that are stamped in red
  Widow    \* whether it is a widow's card

Word(is) == [is |-> is, year |-> 0, kind |-> "none"]
Dated(year, kind) == [is |-> "date", year |-> year, kind |-> kind]

(* "full" 4-13-1933, "stamped" OCT 7 1915 or 4-7-1933, "short" 4-13-33,    *)
(* "month" June 1863, "year" 1933, in the order of DATE_PATTERNS.          *)
Kinds == <<"full", "stamped", "short", "month", "year">>
KindOf(w) == IF w.kind \in {"month", "year"} THEN "year-only" ELSE "date"

Protected == {"died"}                       \* deceased, died, death
DeathKeywords == Protected \cup {"obit"}    \* also dead, obit, d/d
Keywords == DeathKeywords \cup {"misread"}  \* also peceased, dcd
StripPhrases == {"granted", "filed", "letter", "address", "warEnd", "enlisted"}
Marks ==
  Keywords \cup StripPhrases
    \cup {"home", "came", "married", "soldier", "widow", "other"}
Words ==
  [is : Marks, year : {0}, kind : {"none"}]
    \cup [is : {"date"}, year : Nat, kind : ToSet(Kinds)]

(* What the constants must be; assumed where they get their values.        *)
DeathDateAssumption ==
  /\ Widow \in BOOLEAN /\ IsFiniteSet(Sides) /\ DOMAIN Cards = Sides
  /\ \A s \in Sides : Cards[s] \subseteq Seq(Seq(Words))
-----------------------------------------------------------------------------
Has(words, kinds) == \E w \in ToSet(words) : w.is \in kinds

(* strip_form_lines: lines of the form go, and stamps that lost theirs,    *)
(* unless they speak of a death.                                           *)
Strips(line) ==
  /\ ~Has(line, Protected)
  /\ Has(line, StripPhrases) \/ \E w \in ToSet(line) : w.kind = "stamped"

Cleaned(text) ==
  FlattenSeq([n \in DOMAIN text |-> IF Strips(text[n]) THEN <<>> ELSE text[n]])
Dropped(text) ==
  FlattenSeq([n \in DOMAIN text |-> IF Strips(text[n]) THEN text[n] ELSE <<>>])

InRange(year) == 1860 <= year /\ year <= 1955

(* DATE_PATTERNS: the words that are dates.  A day or month with a year of *)
(* four digits is two candidates, as the year is also one by itself, behind*)
(* the other in every order; so it is never the only one of a text.        *)
Dates(t) == {i \in DOMAIN t : t[i].is = "date" /\ InRange(t[i].year)}
OnlyOne(t, i, rest) == rest = {i} /\ t[i].kind \in {"short", "year"}

(* _fuzzy_keyword_match looks for a strict one in all that is left first:  *)
(* misread ones before it are passed over.                                 *)
KeywordsAt(t) ==
  LET strict == {i \in DOMAIN t : t[i].is \in DeathKeywords}
  IN  strict \cup {i \in DOMAIN t : t[i].is = "misread" /\ \A k \in strict : k < i}

Around(t, i, n) ==
  SubSeq(t, IF i > n THEN i - n ELSE 1, IF i + n < Len(t) THEN i + n ELSE Len(t))
Window(t, i) == Around(t, i, 3)

KeywordNear(t, i) == Has(Window(t, i), Keywords)
NameNear(t, i, name) == Has(Around(t, i, 6), {name})

Gap(i, k) == IF i < k THEN k - i - 1 ELSE i - k - 1
Distance(t, i) ==
  LET gaps == {Gap(i, k) : k \in KeywordsAt(t)}
  IN  CHOOSE d \in gaps : \A g \in gaps : d <= g

KindPlace(w) == CHOOSE r \in DOMAIN Kinds : Kinds[r] = w.kind

(* score: near the soldier's name first, then by the distance to a keyword;*)
(* without any keyword simply the first of the text.                       *)
Key(t, i, name) ==
  IF KeywordsAt(t) = {} THEN <<0, 0, 0, i>>
  ELSE <<IF NameNear(t, i, name) THEN 0 ELSE 1, Distance(t, i),
         KindPlace(t[i]), i>>

Less(a, b) ==
  \E n \in DOMAIN a : a[n] < b[n] /\ \A m \in 1 .. n - 1 : a[m] = b[m]

(* The stamp of the grant (1915) or the end of the war (1865), without a   *)
(* keyword near it, when such a line has been dropped.                     *)
Fragment(t, i, dropped) ==
  /\ \/ t[i].year = 1915 /\ Has(dropped, {"granted", "filed", "letter"})
     \/ t[i].year = 1865 /\ Has(dropped, {"warEnd"})
  /\ ~KeywordNear(t, i)

(* A mutant: the date of entering the home is as good as any.              *)
NeverHome(t, i) == FALSE

(* A date after "Entered Home", when a keyword comes after it or none is   *)
(* near.                                                                   *)
EnteredHome(t, i) ==
  /\ Has(Window(t, i), {"home"})
  /\ \E h \in 1 .. i - 1 : t[h].is = "home"
  /\ (\E k \in KeywordsAt(t) : k > i) \/ ~KeywordNear(t, i)

(* Precision filters, for the dates that remain.                           *)
Rejects(t, i, rest, name) ==
  \/ /\ ~KeywordNear(t, i)
     /\ \/ Has(Window(t, i), {"granted", "filed", "came", "married", "address",
                              "letter", "enlisted"})
        \/ t[i].year < 1870 /\ Has(Window(t, i), {"warEnd"})
  \/ EnteredHome(t, i)
  \/ /\ KeywordsAt(t) = {}
     /\ \/ t[i].year \in {1915, 1865} /\ ~OnlyOne(t, i, rest)
        \/ name # "" /\ ~NameNear(t, i, name)

NoDate == [kind |-> "none", year |-> 0, keyword |-> FALSE, named |-> FALSE,
           granted |-> FALSE]

(* find_death_date.                                                        *)
FindDeathDate(text, name) ==
  LET t == Cleaned(text)
      fragments == {i \in Dates(t) : Fragment(t, i, Dropped(text))}
      rest == Dates(t) \ fragments
      good == {i \in rest : ~Rejects(t, i, rest, name)}
  IN  IF text = <<>> \/ good = {} THEN NoDate
      ELSE LET i == CHOOSE c \in good : \A o \in good \ {c} :
                      Less(Key(t, c, name), Key(t, o, name))
           IN  [kind |-> KindOf(t[i]), year |-> t[i].year,
                keyword |-> KeywordNear(t, i), named |-> Has(Window(t, i), {name}),
                granted |-> Has(Window(t, i), {"granted", "filed"})
                            /\ ~KeywordNear(t, i)]
-----------------------------------------------------------------------------
VARIABLES
  card,  \* what stands on each side
  rec,   \* the record of each side: three texts, the date and its source
  row,   \* the pensioner's death date, of the last enrichment
  stale  \* whether a record has changed since

vars == <<card, rec, row, stale>>

Unread == [red |-> <<>>, full |-> <<>>, easy |-> <<>>, date |-> NoDate, source |-> "none"]

Init ==
  /\ card \in {c \in [Sides -> UNION Range(Cards)] : \A s \in Sides : c[s] \in Cards[s]}
  /\ rec = [s \in Sides |-> Unread]
  /\ row = NoDate /\ stale = TRUE

(* A card of a widow is about the soldier's death; only the pilot looks for*)
(* his name on it, the other programs for the pensioner's own.             *)
PilotName == "soldier"
PensionerName == IF Widow THEN "widow" ELSE "soldier"

(* What an engine makes of a line: what stands there, nothing, a misread   *)
(* keyword, or a date it can not make out.                                 *)
Misread(line) ==
  [i \in DOMAIN line |-> IF line[i].is \in DeathKeywords THEN Word("misread") ELSE line[i]]
Smudged(line) ==
  [i \in DOMAIN line |-> IF line[i].is = "date" THEN Word("other") ELSE line[i]]

(* Bound: one line of a text is read badly.                                *)
Readings(lines) ==
  {lines} \cup UNION {{[lines EXCEPT ![n] = Misread(@)], [lines EXCEPT ![n] = Smudged(@)],
                      RemoveAt(lines, n)} : n \in DOMAIN lines}

(* near_death_keyword and mentions_soldier_name, of a date in some texts.  *)
(* The second is looked for around the place of the date in the stripped   *)
(* text, though the texts are not stripped: it may hit or miss.            *)
Tagged(date, texts, name) ==
  LET all == FlattenSeq(FlattenSeq(texts))
  IN  {[date EXCEPT !.keyword = Has(all, Keywords), !.named = b] :
         b \in {FALSE, name # "" /\ Has(all, {name})}}

(* The lines in red ink.                                                   *)
RedOf(lines) ==
  FlattenSeq([n \in DOMAIN lines |-> IF lines[n] \in RedInk THEN <<lines[n]>> ELSE <<>>])

(* The pilot reads the red ink, and the whole side if that has no date.    *)
ProcessImage(s) ==
  /\ rec[s] = Unread
  /\ \E red \in Readings(RedOf(card[s])) :
       LET byRed == FindDeathDate(red, PilotName)
       IN  IF byRed # NoDate
           THEN \E date \in Tagged(byRed, <<red>>, PilotName) :
                  rec' = [rec EXCEPT ![s] =
                    [red |-> red, full |-> <<>>, easy |-> <<>>, date |-> date,
                     source |-> "red"]]
           ELSE \E full \in Readings(card[s]) :
                  LET byFull == FindDeathDate(full, PilotName)
                  IN  \E date \in IF byFull = NoDate THEN {NoDate}
                                  ELSE Tagged(byFull, <<red, full>>, PilotName) :
                        rec' = [rec EXCEPT ![s] =
                          [red |-> red, full |-> full, easy |-> <<>>, date |-> date,
                           source |-> IF byFull = NoDate THEN "none" ELSE "full-fallback"]]
  /\ stale' = TRUE
  /\ UNCHANGED <<card, row>>

(* A mutant: sides with a date are read again.                             *)
Everything(r) == r # Unread /\ r.easy = <<>>

(* Those the pilot found no date on.                                       *)
IsTarget(r) == r # Unread /\ r.easy = <<>> /\ r.date = NoDate

(* _worker_process_one and _merge_result: first in the three texts         *)
(* together, then in the new one.                                          *)
EasyRead(s) ==
  /\ IsTarget(rec[s])
  /\ \E easy \in Readings(card[s]) :
       LET r == rec[s]
           together == FindDeathDate(r.red \o r.full \o easy, PensionerName)
           new == IF together # NoDate THEN together ELSE FindDeathDate(easy, PensionerName)
       IN  \E date \in IF new = NoDate THEN {NoDate}
                       ELSE Tagged(new, <<r.red, r.full, easy>>, PensionerName) :
             rec' = [rec EXCEPT ![s] = [r EXCEPT !.easy = easy,
               !.date = IF r.date = NoDate THEN date ELSE @,
               !.source = IF r.date = NoDate /\ date # NoDate THEN "easyocr" ELSE @]]
  /\ stale' = TRUE
  /\ UNCHANGED <<card, row>>

(* recover_missed_dates: what a person may be shown: a date of a side      *)
(* without one that is not next to a form's phrase, or is next to a        *)
(* keyword (only strict ones, and in the text as it was read).             *)
Proposals(r) ==
  LET t == FlattenSeq(r.easy \o r.red)
      unfit == {"granted", "filed", "address", "letter", "married", "came"}
  IN  {[kind |-> KindOf(t[i]), year |-> t[i].year, keyword |-> Has(t, DeathKeywords),
        named |-> FALSE, granted |-> FALSE] :
         i \in {d \in Dates(t) : \/ Has(Window(t, d), DeathKeywords)
                                \/ ~Has(Window(t, d), unfit)}}

Accept(s) ==
  /\ rec[s].date = NoDate /\ rec[s].easy # <<>>
  /\ \E date \in Proposals(rec[s]) :
       rec' = [rec EXCEPT ![s] = [@ EXCEPT !.date = date, !.source = "recovered"]]
  /\ stale' = TRUE
  /\ UNCHANGED <<card, row>>
-----------------------------------------------------------------------------
Sources == <<"red", "full-fallback", "easyocr">>
TextsOf(r) == <<r.red, r.full, r.easy>>

Preference(date, n) ==
  <<IF date.kind = "date" THEN 0 ELSE 1, IF date.keyword THEN 0 ELSE 1,
    IF date.named THEN 0 ELSE 1, n>>

(* re_enrich_from_ocr: each text is parsed anew; a whole date is preferred,*)
(* then one near a keyword, near the name, and the order of the texts.     *)
ReEnriched(r, name) ==
  LET parsed == [n \in 1 .. 3 |-> FindDeathDate(TextsOf(r)[n], name)]
      hits == {n \in 1 .. 3 : parsed[n] # NoDate}
      best == CHOOSE n \in hits : \A o \in hits \ {n} :
                Less(Preference(parsed[n], n), Preference(parsed[o], o))
      words == FlattenSeq(TextsOf(r)[best])
  IN  IF hits = {} THEN [r EXCEPT !.date = NoDate, !.source = "none"]
      ELSE [r EXCEPT !.date = [parsed[best] EXCEPT
                       !.keyword = Has(words, Keywords),
                       !.named = name # "" /\ Has(words, {name})],
                     !.source = Sources[best]]

ReEnrich ==
  /\ \A s \in Sides : rec[s] # Unread
  /\ rec' = [s \in Sides |-> ReEnriched(rec[s], PensionerName)]
  /\ stale' = TRUE
  /\ UNCHANGED <<card, row>>

Rank(date) ==
  <<IF date.named THEN 0 ELSE 1, IF date.keyword THEN 0 ELSE 1,
    IF date.kind = "date" THEN 0 ELSE 1, date.year>>

(* pick_best_per_card: the year is the last thing that counts.             *)
PickBest(dates) ==
  IF dates = {} THEN NoDate
  ELSE CHOOSE d \in dates : \A o \in dates : ~Less(Rank(o), Rank(d))

Enrich ==
  /\ \A s \in Sides : rec[s] # Unread
  /\ row' = PickBest({rec[s].date : s \in Sides} \ {NoDate})
  /\ stale' = FALSE
  /\ UNCHANGED <<card, rec>>

Next ==
  \/ \E s \in Sides : ProcessImage(s) \/ EasyRead(s) \/ Accept(s)
  \/ ReEnrich \/ Enrich

Spec == Init /\ [][Next]_vars
-----------------------------------------------------------------------------
(* All texts of a card; red, full and easy of both sides.                  *)
AllTexts ==
  LET side == SetToSeq(Sides)
  IN  FlattenSeq([n \in DOMAIN side |-> rec[side[n]].red])
        \o FlattenSeq([n \in DOMAIN side |-> rec[side[n]].full])
        \o FlattenSeq([n \in DOMAIN side |-> rec[side[n]].easy])

(* One digit of the year read wrong.                                       *)
Digits(year) == <<year \div 1000, (year \div 100) % 10, (year \div 10) % 10, year % 10>>
OneDigitOff(a, b) == Cardinality({n \in 1 .. 4 : Digits(a)[n] # Digits(b)[n]}) = 1

StrictNear(t, i) == \E k \in DOMAIN t : t[k].is \in DeathKeywords /\ Gap(i, k) <= 3
FirstStrictNear(t, i) ==
  \E k \in DOMAIN t : /\ t[k].is \in DeathKeywords /\ Gap(i, k) <= 3
                      /\ \A o \in 1 .. k - 1 : t[o].is \notin DeathKeywords

(* The year is there in four digits, which is what the audit searches for. *)
InFull(w) == w.is = "date" /\ w.kind # "short"

(* audit_suspicious.py: audit_one, over all texts of the card.             *)
Suspicions ==
  LET t == FlattenSeq(AllTexts)
      picked == FindDeathDate(AllTexts, PensionerName)
      its == {i \in DOMAIN t : t[i].year = row.year /\ InFull(t[i])}
      filed == {i \in Dates(t) : i > 1 /\ t[i - 1].is = "filed"}
  IN  IF row = NoDate
      THEN {tag \in {"EMPTY_BUT_STAMP_PRESENT"} : Has(t, Protected)}
      ELSE {tag \in {"FILE_DATE_TOO_FAR"} :
              ~Widow /\ filed # {} /\ t[Min(filed)].year - row.year > 6}
           \cup {tag \in {"NUMERIC_SUBSTITUTION"} :
                   /\ \A i \in its : ~StrictNear(t, i)
                   /\ \E i \in Dates(t) : /\ InFull(t[i])
                                          /\ OneDigitOff(t[i].year, row.year)
                                          /\ FirstStrictNear(t, i)}
           \cup {tag \in {"GRANTED_PICK"} : picked.year = row.year /\ picked.granted}

(* audit_death_dates.py, for one row.                                      *)
Doubts ==
  LET recs == {rec[s] : s \in Sides}
      source == IF \E r \in recs : r.source = "red" THEN "red" ELSE "other"
  IN  {tag \in {"OUT_OF_RANGE_YEAR"} : row # NoDate /\ row.year \notin 1861 .. 1955}
      \cup {tag \in {"NO_KEYWORD_BUT_DATE"} :
              row # NoDate /\ ~Widow /\ \A r \in recs : ~r.date.keyword}
      \cup {tag \in {"WIDOW_BUT_NO_DATE"} : Widow /\ row = NoDate}
      \cup {tag \in {"PASS_RED_BUT_EMPTY_TEXT"} :
              source = "red" /\ \A r \in recs : r.red = <<>>}
      \cup {tag \in {"FULL_DATE_BUT_YEAR_ONLY"} :
              /\ row.kind = "year-only"
              /\ \E r \in recs : \E w \in ToSet(FlattenSeq(r.full)) : w.kind = "stamped"}
-----------------------------------------------------------------------------
(* Of the date behind the word k: if the soldier's name is near any date,  *)
(* it is near this one, and a date right before the word is one that is    *)
(* looked for later, or that of entering the home.                         *)
Undisputed(t, k) ==
  /\ (\E i \in Dates(t) : NameNear(t, i, PilotName)) => NameNear(t, k + 1, PilotName)
  /\ k > 1 /\ t[k - 1].is = "date" =>
       KindPlace(t[k + 1]) < KindPlace(t[k - 1]) \/ (k > 2 /\ t[k - 2].is = "home")

(* A text that says once that somebody died, with the year right behind it *)
(* on the line, undisputed by what is left of the text.                    *)
Tells(text, year) ==
  \E n \in DOMAIN text : \E j \in 1 .. Len(text[n]) - 1 :
    /\ text[n][j].is = "died" /\ \A m \in DOMAIN text : \A o \in DOMAIN text[m] :
         text[m][o].is \in Keywords => m = n /\ o = j
    /\ text[n][j + 1].is = "date" /\ text[n][j + 1].year = year /\ InRange(year)
    /\ \A k \in DOMAIN Cleaned(text) :
         Cleaned(text)[k].is = "died" => Undisputed(Cleaned(text), k)

(* If a text tells the year of the death, the record of the side has it,   *)
(* whatever else is stamped and written there or was read badly, and so has*)
(* the row, unless the other side has a date near a keyword or the name    *)
(* (find_death_date: stripping, the order, the filters; the order of the   *)
(* passes; pick_best_per_card).                                            *)
ToldIsFound ==
  ~Widow => \A s \in Sides : \A text \in {rec[s].red, rec[s].full} :
    \A w \in ToSet(FlattenSeq(text)) : Tells(text, w.year) =>
      /\ rec[s].date.year = w.year
      /\ ~stale /\ (\A o \in Sides \ {s} : ~rec[o].date.keyword /\ ~rec[o].date.named)
           => row.year = w.year

(* A date Tesseract gave is what every later program leaves there: EasyOCR *)
(* and people only add, and parsing the saved texts anew comes to the same *)
(* (except on a widow's card, where it is done with another name).         *)
TesseractStands ==
  [][\A s \in Sides : ~Widow /\ rec[s].source \in {"red", "full-fallback"} =>
       /\ rec'[s].source = rec[s].source
       /\ rec'[s].date.year = rec[s].date.year /\ rec'[s].date.kind = rec[s].date.kind]_vars

(* A text tells it in four digits, not as 4-13-31.                         *)
TellsInFull(text, year) ==
  /\ Tells(text, year)
  /\ \A n \in DOMAIN text : \A j \in 1 .. Len(text[n]) - 1 :
       text[n][j].is = "died" => InFull(text[n][j + 1])

SaidOnTheCard ==
  \E s \in Sides : \E text \in {rec[s].red, rec[s].full} : Tells(text, row.year)
SaidInFull ==
  \E s \in Sides : \E text \in {rec[s].red, rec[s].full} : TellsInFull(text, row.year)

(* The audits do not doubt a row whose year a text tells, whatever the     *)
(* other texts are, with one exception: the year of a date like 4-13-31,   *)
(* which is never found, is suspected of a wrong digit.  And they find no  *)
(* date taken from the stamp of a grant, none the pension can not have had *)
(* (but 1860, which the parser takes), and no red date without red text    *)
(* (audit_suspicious.py, audit_death_dates.py against find_death_date).    *)
AuditsTrustTheParser ==
  ~stale =>
    /\ (Suspicions \cup Doubts) \cap {"GRANTED_PICK", "PASS_RED_BUT_EMPTY_TEXT"} = {}
    /\ "OUT_OF_RANGE_YEAR" \in Doubts => row.year = 1860
    /\ SaidOnTheCard => "NO_KEYWORD_BUT_DATE" \notin Doubts
    /\ SaidInFull => "NUMERIC_SUBSTITUTION" \notin Suspicions

(* What a card tells is found, and then not doubted.                       *)
ToldIsTrusted == ToldIsFound /\ AuditsTrustTheParser

(* audit_suspicious.py, the rule for a numeric substitution: only flag when*)
(* the cached year has no death keyword within 60 characters.              *)
SubstitutionMeansFar ==
  ~stale /\ SaidOnTheCard => "NUMERIC_SUBSTITUTION" \notin Suspicions
=============================================================================
