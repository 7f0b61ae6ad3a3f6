------------------------------ MODULE Queries ------------------------------
(***************************************************************************)
(* What is asked of Find a Grave about a pensioner: the ladder of query    *)
(* strategies (scripts/search), the place, date and spouse filters put on  *)
(* each query (scripts/fag/filters.py), and the places the planner asks in *)
(* (scripts/knowledge/regional_planner.py, fag_scraper.py).                *)
(*                                                                         *)
(* A memorial is given by how it compares with the record, see Scoring.    *)
(* What Find a Grave answers to a query is its own: Matches is what the    *)
(* filters are named for.                                                  *)
(***************************************************************************)
EXTENDS Scoring

Ever == <<0, 9999>>
Around(year, years) == <<year - years, year + years>>
Known(year) == year \notin {NoYear, 0}

(* Any memorial with that last name, spelt as recorded.                    *)
Ask == [first |-> "any", last |-> "exact", middle |-> FALSE, veteran |-> FALSE,
        unit |-> FALSE, born |-> Ever, died |-> Ever]

Named == [Ask EXCEPT !.first = "exact"]
Full(r) == [Named EXCEPT !.middle = r.middle # NoMiddle]

Exact(r) ==
  [Full(r) EXCEPT !.born = IF Known(r.born) THEN Around(r.born, 1) ELSE Ever]

MiddleInitial == [Named EXCEPT !.middle = TRUE]

FirstInitialFuzzy == [Ask EXCEPT !.first = "initial", !.last = "fuzzy"]

FuzzyLast(r) == [Ask EXCEPT !.last = "fuzzy", !.middle = r.middle # NoMiddle]

NoApostrophe == [Named EXCEPT !.last = "fuzzy"]

Pre1851(r) == [Full(r) EXCEPT !.born = Around(r.born, 3)]

Veteran == [Named EXCEPT !.veteran = TRUE]

BirthYear(r) == [Full(r) EXCEPT !.born = Around(r.born, 5)]

DeathYear(r) ==
  [Named EXCEPT !.died = Around(r.died, IF r.died < 1930 THEN 10 ELSE 5)]

YearSniper(r) == [BirthYear(r) EXCEPT !.died = Around(r.died, 5)]

YearWindow(r) ==
  [Full(r) EXCEPT !.last = "fuzzy",
     !.born = IF Known(r.born) THEN Around(r.born, 5) ELSE Ever,
     !.died = IF Known(r.died) THEN Around(r.died, 5) ELSE Ever]

RegimentBio == [Veteran EXCEPT !.unit = TRUE]

(* A nickname of the first name, or else the spouse's last name.           *)
Nickname(r) ==
  IF r.nickname THEN [Full(r) EXCEPT !.first = "nickname"]
  ELSE [Named EXCEPT !.last = "spouse"]

(* The year ten years before the recorded one: the width of the range goes *)
(* by a name Find a Grave does not have.                                   *)
FollowUp(r) ==
  [Ask EXCEPT !.born = IF r.born = NoYear THEN Ever ELSE Around(r.born - 10, 0),
              !.died = IF r.died = NoYear THEN Ever ELSE Around(r.died - 10, 0)]

(* The strategies that apply to a record, with what they ask.              *)
Ladder(r) ==
  {<<"B4-fuzzy-last", FuzzyLast(r)>>, <<"F4-follow-up", FollowUp(r)>>}
  \cup (IF ~r.first THEN {}
        ELSE {<<"B1-exact", Exact(r)>>,
              <<"B3-first-initial-fuzzy", FirstInitialFuzzy>>,
              <<"C1-cw-context", Veteran>>})
  \cup {s \in {<<"B2-middle-initial", MiddleInitial>>} : r.first /\ r.middle = "initial"}
  \cup {s \in {<<"B5-apostrophe", NoApostrophe>>} : r.first /\ r.apostrophe}
  \cup {s \in {<<"B10-pre1851-tight", Pre1851(r)>>} :
          r.first /\ Known(r.born) /\ r.born < 1851}
  \cup {s \in {<<"F1a-birthyear-exact", BirthYear(r)>>} : r.first /\ Known(r.born)}
  \cup {s \in {<<"F1b-deathyear", DeathYear(r)>>} : r.first /\ Known(r.died)}
  \cup {s \in {<<"F1c-year-sniper", YearSniper(r)>>} :
          r.first /\ Known(r.born) /\ Known(r.died)}
  \cup {s \in {<<"F1d-year-window", YearWindow(r)>>} :
          r.first /\ (Known(r.born) \/ Known(r.died))}
  \cup {s \in {<<"F2-regiment-bio", RegimentBio>>} : r.first /\ r.regiment /\ ~r.widow}
  \cup {s \in {<<"F3-nickname", Nickname(r)>>} : r.first /\ (r.nickname \/ r.spouse)}
-----------------------------------------------------------------------------
States == {"OK", "TX", "AL"}
Everywhere == "US"

(* _inject_acw_date_window: where the strategy gives no year.              *)
DateWindow(q) ==
  [q EXCEPT !.born = IF @ = Ever THEN <<1810, 9999>> ELSE @,
            !.died = IF @ = Ever THEN <<0, 1955>> ELSE @]

(* A mutant: a query without a state is left to Oklahoma.                  *)
PlaceOk(state) == IF state \in States THEN state ELSE "OK"
PlaceOf(state) == IF state \in States THEN state ELSE Everywhere

(* apply_location_filter: place, window, and whom the memorial is linked   *)
(* to if the spouse's first and last names are recorded.                   *)
Filtered(q, r, state) ==
  [query |-> DateWindow(q), place |-> PlaceOf(state), linked |-> r.spouse]

(* The scope of a plan, as a state to search in; a plan for the regiment's *)
(* state takes the pensioner's own state, if the record has one.           *)
ScopeState(r, scope) ==
  CASE scope = "OK" -> "OK" [] scope = "Texas" -> "TX"
    [] scope = "RegimentOrigin" -> r.burial [] OTHER -> NoState

(* plan_for_pensioner.                                                     *)
Scopes(r) ==
  {"OK", "US"}
  \cup {s \in {"RegimentOrigin"} : r.origin \notin {NoState, "OK"} /\ ~r.widow}
  \cup {s \in {"Texas"} : r.texas}
-----------------------------------------------------------------------------
Within(year, range) == range[1] <= year /\ year <= range[2]

(* What a query finds.  Memorials without a year pass the filters on it.   *)
Matches(f, m) ==
  LET q == f.query
  IN  /\ CASE q.first = "any" -> TRUE
           [] q.first = "exact" -> m.first = "equal"
           [] q.first = "initial" -> m.first \in {"equal", "initial", "maleInitial"}
           [] q.first = "nickname" -> m.nickname
      /\ CASE q.last = "exact" -> m.last = "equal"
           [] q.last = "fuzzy" -> m.last # "other"
           [] q.last = "spouse" -> m.spouseName
      /\ q.middle => m.middle \in {"equal", "initial"}
      /\ q.veteran => m.veteran
      /\ q.unit => m.unit
      /\ m.born # NoYear => Within(m.born, q.born)
      /\ m.died # NoYear => Within(m.died, q.died)
      /\ f.place \in {Everywhere, m.state}
      /\ f.linked => m.linked

(* How many strategies of the ladder find a memorial, of those that work.  *)
FoundBy(r, state, working, m) ==
  Cardinality({s \in Ladder(r) : /\ s[1] \in working
                                 /\ Matches(Filtered(s[2], r, state), m)})
=============================================================================
