------------------------------ MODULE SpousePass ------------------------------
(***************************************************************************)
(* The spouse pass over a results file (cgr/spouse_compare.py): for each   *)
(* widow with a known husband it looks at the memorial pages of her first  *)
(* candidates until one names him, through a cache of pages on disk, and   *)
(* replaces the file when it is through.  Pages fail, the pass is killed,  *)
(* it is repeated, and the cache file grows old.                           *)
(***************************************************************************)
EXTENDS Naturals, Sequences, Functions

CONSTANTS
  Widows,     \* the rows, in the order of the file
  Spoused,    \* those whose husband is known
  Ranked,     \* the memorials of the candidates of a row, NoMemorial if unknown
  NoMemorial,
  Names,      \* the widows whose husband the page of a memorial names
  TopN,       \* --top-n
  MaxFailures, MaxKills, MaxAges \* bounds

(* What the constants must be; assumed where they get their values.        *)
SpousePassAssumption ==
  /\ TopN \in Nat \ {0} /\ {MaxFailures, MaxKills, MaxAges} \subseteq Nat
  /\ Widows \in Seq(Range(Widows)) /\ Spoused \subseteq Range(Widows)
  /\ \A w \in Range(Widows) : Ranked[w] \in Seq(Range(Ranked[w]))

VARIABLES
  matched,  \* the file: rank of the match of each row, 0 for none
  out,      \* the .tmp file: the same, as far as written
  at, rank, \* the row and the candidate looked at
  step,     \* "off", "rank", "keep" or "write"
  cached,   \* the cache file: pages that are readable, and how it ends
  young,    \* it was written to within the time to live
  store,    \* the pages in memory
  loaded,   \* history: those read when the pass began
  spent     \* failures, kills, times the file grew old

spouseVars == <<matched, out, at, rank, step, cached, young, store, loaded, spent>>

NoMatch == [w \in Range(Widows) |-> 0]

SpouseInit ==
  /\ matched = NoMatch /\ out = NoMatch /\ at = 1 /\ rank = 1 /\ step = "off"
  /\ cached = [pages |-> {}, end |-> "newline"] /\ young = FALSE
  /\ store = {} /\ loaded = {}
  /\ spent = [failures |-> 0, kills |-> 0, ages |-> 0]

Spend(what, bound) ==
  spent[what] < bound /\ spent' = [spent EXCEPT ![what] = @ + 1]

Widow == Widows[at]
Memorial == Ranked[Widow][rank]
Confirms(m) == Widow \in Names[m]
-----------------------------------------------------------------------------
(* _MemorialCache.  The whole file is too old or none of it: what counts   *)
(* is when it was written to last.                                         *)
Load == IF young THEN cached.pages ELSE {}

(* An entry is appended behind whatever the file ends with: a part of an   *)
(* entry, or a whole one without its newline.                              *)
Put(f, m) ==
  CASE f.end = "newline" -> [pages |-> f.pages \cup {m}, end |-> "newline"]
    [] f.end = "part"    -> [f EXCEPT !.end = "newline"]
    [] OTHER             -> [pages |-> f.pages \ {f.end}, end |-> "newline"]

PutBroken(f, m) ==
  IF f.end # "newline" THEN {[Put(f, m) EXCEPT !.end = "part"]}
  ELSE {[f EXCEPT !.end = "part"]}
         \cup IF m \in f.pages THEN {} ELSE {[pages |-> f.pages \cup {m}, end |-> m]}
-----------------------------------------------------------------------------
BeginPass ==
  /\ step = "off"
  /\ store' = Load /\ loaded' = Load /\ out' = NoMatch
  /\ at' = 1 /\ rank' = 1 /\ step' = "rank"
  /\ UNCHANGED <<matched, cached, young, spent>>

(* A row without husband or candidates is written as it is; one whose      *)
(* candidates are all looked at, without a match.                          *)
NoneLeft ==
  \/ Widow \notin Spoused
  \/ rank > TopN \/ rank > Len(Ranked[Widow])

Judging == step = "rank" /\ at <= Len(Widows) /\ ~NoneLeft

(* A mutant: the key of the cache is not the one it is asked by.           *)
NeverHit(m) == FALSE

Hit(m) == m \in store /\ Confirms(m)

(* A candidate without memorial id is passed over; a cached page that      *)
(* names the husband wins.                                                 *)
FromCache ==
  /\ Judging
  /\ \/ Memorial = NoMemorial /\ rank' = rank + 1 /\ UNCHANGED <<out, step>>
     \/ /\ Memorial # NoMemorial /\ Hit(Memorial)
        /\ out' = [out EXCEPT ![Widow] = rank] /\ step' = "write"
        /\ UNCHANGED rank
  /\ UNCHANGED <<matched, at, cached, young, store, loaded, spent>>

(* Anything else is asked for on the site, a cached page that does not     *)
(* name him included.                                                      *)
Scrapes == Judging /\ Memorial # NoMemorial /\ ~Hit(Memorial)

Scraped ==
  /\ Scrapes
  /\ IF Confirms(Memorial)
     THEN out' = [out EXCEPT ![Widow] = rank] /\ step' = "keep" /\ UNCHANGED rank
     ELSE rank' = rank + 1 /\ UNCHANGED <<out, step>>
  /\ UNCHANGED <<matched, at, cached, young, store, loaded, spent>>

ScrapeFails ==
  /\ Scrapes /\ Spend("failures", MaxFailures)
  /\ rank' = rank + 1
  /\ UNCHANGED <<matched, out, at, step, cached, young, store, loaded>>

(* A page that matched is fetched once more for the cache.                 *)
Keep ==
  /\ step = "keep" /\ step' = "write"
  /\ \/ /\ store' = store \cup {Memorial} /\ cached' = Put(cached, Memorial)
        /\ young' = TRUE /\ UNCHANGED spent
     \/ Spend("failures", MaxFailures) /\ UNCHANGED <<store, cached, young>>
  /\ UNCHANGED <<matched, out, at, rank, loaded>>

WriteRow ==
  /\ \/ step = "write"
     \/ step = "rank" /\ at <= Len(Widows) /\ NoneLeft
  /\ at' = at + 1 /\ rank' = 1 /\ step' = "rank"
  /\ UNCHANGED <<matched, out, cached, young, store, loaded, spent>>

Replace ==
  /\ step = "rank" /\ at > Len(Widows)
  /\ matched' = out /\ step' = "off"
  /\ UNCHANGED <<out, at, rank, cached, young, store, loaded, spent>>

(* The file keeps its rows as they were; an entry of the cache may be cut. *)
Killed ==
  /\ step # "off" /\ Spend("kills", MaxKills)
  /\ step' = "off"
  /\ \/ UNCHANGED <<cached, young>>
     \/ step = "keep" /\ cached' \in PutBroken(cached, Memorial) /\ young' = TRUE
  /\ UNCHANGED <<matched, out, at, rank, store, loaded>>

GrowsOld ==
  /\ step = "off" /\ young /\ Spend("ages", MaxAges) /\ young' = FALSE
  /\ UNCHANGED <<matched, out, at, rank, step, cached, store, loaded>>

SpouseNext ==
  \/ BeginPass \/ FromCache \/ Scraped \/ ScrapeFails \/ Keep \/ WriteRow
  \/ Replace \/ Killed \/ GrowsOld

SpouseSpec == SpouseInit /\ [][SpouseNext]_spouseVars
-----------------------------------------------------------------------------
(* Repeating the pass never costs a match whose page the cache had when it *)
(* began: the row keeps a match, at that candidate or a better one,        *)
(* whichever pages fail this time, and a killed pass changes no row.       *)
CachedMatchesStand ==
  [][\A w \in DOMAIN matched :
       matched[w] > 0 /\ Ranked[w][matched[w]] \in loaded
         => matched'[w] \in 1 .. matched[w]]_spouseVars
===============================================================================
