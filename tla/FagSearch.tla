------------------------------ MODULE FagSearch ------------------------------
(***************************************************************************)
(* The standalone search tool (fag/search.py): the ladder of strategies    *)
(* that one page of the browser goes through for a pensioner               *)
(* (search_one_pensioner), the loop over the pensioners of an input with   *)
(* its state file (main), and the session that runs the same ladder for    *)
(* other programs (BrowserSession.search).  Pages time out, are walls of   *)
(* the provider or can not be parsed, the page dies under the search, and  *)
(* the tool is killed and started again.                                   *)
(***************************************************************************)
EXTENDS Naturals, Sequences, FiniteSets, SequencesExt

CONSTANTS
  Pensioners,
  HasLast,      \* those with a last name
  Ladder,       \* the strategies, in order
  Makes,        \* what a strategy makes of a pensioner: "query", "none", "raises"
  Results,      \* the pages of results the site may answer with
  MaxLinks,     \* links of a page that are looked at
  MaxCandidates,  \* memorials that are kept in a record
  ScoreFor,     \* the score of each memorial for each pensioner
  ResetEvery, MaxErrors, \* of a session
  MaxRequests,  \* bound: searches asked of a session
  MaxKills, MaxDeaths, MaxFailures \* bounds: kills, dying pages, other failures

ASSUME FagSearchAssumption ==
  /\ HasLast \subseteq Pensioners
  /\ Ladder \in Seq(ToSet(Ladder))
  /\ \A i, j \in DOMAIN Ladder : Ladder[i] = Ladder[j] => i = j
  /\ \A p \in Pensioners, i \in DOMAIN Ladder :
       Makes[p][Ladder[i]] \in {"query", "none", "raises"}
  /\ {MaxLinks, ResetEvery, MaxCandidates} \subseteq Nat \ {0}
  /\ {MaxErrors, MaxRequests, MaxKills, MaxDeaths, MaxFailures} \subseteq Nat

VARIABLES
  driver,   \* who runs the ladder: "batch" is main, "session" the session
  pc,       \* "off", "loop", "ladder", "record", "mark" or "failed"
  page,     \* "open", "dead" once its target closed, "none" without browser
  file,     \* the state file: its readable rows, and how it ends
  processed, todo,  \* of main: ids read from the file, pensioners to go
  who, k,   \* the pensioner searched for and the strategy that is next
  runs,     \* strategy_runs: what each page that was parsed gave
  captcha, anyError,
  record,   \* the record of the search, or NoRecord
  requests, errors, \* counters of a session
  kills, deaths, failures,
  unread,   \* history: strategies of this search whose answer was not read
  unseen    \* history: those whose answer named someone, and was taken for empty

search == <<who, k, runs, captcha, anyError, record, unread, unseen>>
batch == <<file, processed, todo>>
session == <<requests, errors>>
spent == <<kills, deaths, failures>>
vars == <<driver, pc, page, search, batch, session, spent>>

NoRecord == [status |-> "none", found |-> <<>>]
-----------------------------------------------------------------------------
(* One page of results.  A link names a memorial and may have text, be     *)
(* bare of text, or be gone from the page when it is read; only the first  *)
(* MaxLinks are looked at.                                                 *)
LinksRead(links) ==
  {i \in 1 .. Len(links) : i <= MaxLinks /\ links[i].text # "gone"}

(* A memorial is a candidate if the first link to it has text.             *)
Parse(links) ==
  LET first(i) == \A j \in LinksRead(links) : links[j].to = links[i].to => j >= i
  IN {links[i].to : i \in {j \in LinksRead(links) : first(j) /\ links[j].text = "text"}}

(* The union of what the strategies found, each memorial with the          *)
(* strategies it came by.                                                  *)
Merge(rs) ==
  [m \in UNION {rs[i].found : i \in DOMAIN rs} |->
     {rs[i].name : i \in {j \in DOMAIN rs : m \in rs[j].found}}]

(* The candidates of a record: the best of the union, as many as are kept; *)
(* which of equals is the order's they were found in.                      *)
Best(found) ==
  {kept \in SUBSET DOMAIN found :
     /\ Cardinality(kept) <= MaxCandidates
     /\ \A m \in DOMAIN found \ kept :
          /\ Cardinality(kept) = MaxCandidates
          /\ \A n \in kept : ScoreFor[who][n] >= ScoreFor[who][m]}

(* The status of a search.  With candidates it is the decision policy's.   *)
StatusOf(found) ==
  IF DOMAIN found # {} THEN "decided"
  ELSE IF captcha THEN "captcha"
  ELSE IF anyError THEN "error" ELSE "no_results"
-----------------------------------------------------------------------------
(* The state file, one line per row.  A row killed in its write leaves a   *)
(* part of it or lacks its newline, and the next row is glued to it.       *)
IdsOf(f) == {f.rows[i].id : i \in DOMAIN f.rows}

Extend(f, r) ==
  [rows |-> CASE f.end = "newline" -> Append(f.rows, r)
              [] f.end = "part"    -> f.rows
              [] f.end = "open"    -> Front(f.rows),
   end |-> "newline"]

(* What a kill leaves of a row being written.                              *)
Broken(f, r) ==
  {f} \cup (IF f.end = "newline"
            THEN {[f EXCEPT !.end = "part"],
                  [rows |-> Append(f.rows, r), end |-> "open"]}
            ELSE {[rows |-> Extend(f, r).rows, end |-> "part"]})

(* A mutant: a pensioner counts as processed once a line begins with its   *)
(* id, readable or not.                                                    *)
LoadsBrokenLines ==
  IdsOf(file) \cup IF file.end = "part" /\ who \in Pensioners THEN {who} ELSE {}

(* load_processed_ids: lines that are not JSON are passed over.            *)
LoadProcessedIds == IdsOf(file)
-----------------------------------------------------------------------------
Init ==
  /\ driver \in {"batch", "session"}
  /\ pc = "off" /\ page = "none"
  /\ file = [rows |-> <<>>, end |-> "newline"] /\ processed = {} /\ todo = {}
  /\ who \in Pensioners /\ k = 1 /\ runs = <<>>
  /\ captcha = FALSE /\ anyError = FALSE
  /\ record = NoRecord /\ unread = {} /\ unseen = {}
  /\ requests = 0 /\ errors = 0
  /\ kills = 0 /\ deaths = 0 /\ failures = 0

(* search_one_pensioner begins; without a last name it is over at once.    *)
Begin(p) ==
  /\ who' = p /\ k' = 1 /\ runs' = <<>> /\ unread' = {} /\ unseen' = {}
  /\ captcha' = FALSE /\ anyError' = FALSE
  /\ IF p \in HasLast THEN record' = NoRecord /\ pc' = "ladder"
     ELSE record' = [NoRecord EXCEPT !.status = "skip"] /\ pc' = "record"

(* The ladder goes on to the next strategy.                                *)
Onward == k' = k + 1 /\ UNCHANGED <<driver, pc, page, who, record, batch, session>>

AtStrategy(made) ==
  pc = "ladder" /\ k <= Len(Ladder) /\ Makes[who][Ladder[k]] \in made

(* The strategy does not apply, or raises while it makes its query.        *)
NoQuery ==
  /\ AtStrategy({"none", "raises"}) /\ Onward
  /\ UNCHANGED <<runs, captcha, anyError, unread, unseen, spent>>

Asked == AtStrategy({"query"}) /\ page = "open"

(* page.goto times out, or the page can not be parsed.                     *)
TimesOutOrUnparsed ==
  /\ Asked /\ Onward /\ anyError' = TRUE /\ unread' = unread \cup {Ladder[k]}
  /\ UNCHANGED <<runs, captcha, unseen, spent>>

(* A mutant: a challenge that goes away by itself is forgotten.            *)
WallForgotten ==
  /\ Asked /\ Onward /\ captcha' \in {captcha, TRUE}
  /\ unread' = unread \cup {Ladder[k]}
  /\ UNCHANGED <<runs, anyError, unseen, spent>>

(* A rate limit, a block or a challenge.  The strategy is given up, also   *)
(* when the challenge goes away while it waits.                            *)
Wall ==
  /\ Asked /\ Onward /\ captcha' = TRUE /\ unread' = unread \cup {Ladder[k]}
  /\ UNCHANGED <<runs, anyError, unseen, spent>>

Gives(found) == runs' = Append(runs, [name |-> Ladder[k], found |-> found])

(* The page is parsed.  When the query for its links raises, that is       *)
(* swallowed, and the page is one without candidates.                      *)
Parsed(links) ==
  /\ Asked /\ Onward
  /\ \/ Gives(Parse(links)) /\ UNCHANGED unseen
     \/ Parse(links) # {} /\ Gives({}) /\ unseen' = unseen \cup {Ladder[k]}
  /\ UNCHANGED <<captcha, anyError, unread, spent>>

(* Anything else goto and title() raise ends the search: they do on a page *)
(* that is dead or not there.                                              *)
Escapes ==
  /\ AtStrategy({"query"})
  /\ \/ page # "open" /\ UNCHANGED failures
     \/ page = "open" /\ failures < MaxFailures /\ failures' = failures + 1
  /\ pc' = "failed"
  /\ UNCHANGED <<driver, page, search, batch, session, kills, deaths>>

(* The status is of all that was found, before it is cut.                  *)
Conclude ==
  /\ pc = "ladder" /\ k > Len(Ladder)
  /\ \E kept \in Best(Merge(runs)) :
       record' = [status |-> StatusOf(Merge(runs)), found |-> Restrict(Merge(runs), kept)]
  /\ pc' = "record"
  /\ UNCHANGED <<driver, page, who, k, runs, captcha, anyError, unread, unseen,
                 batch, session, spent>>
-----------------------------------------------------------------------------
(* main.  What --start-from, --limit and --shuffle leave of the input is   *)
(* any part of it in any order.                                            *)
Start(input) ==
  /\ driver = "batch" /\ pc = "off"
  /\ processed' = LoadProcessedIds /\ todo' = input
  /\ page' = "open" /\ pc' = "loop"
  /\ UNCHANGED <<driver, file, search, session, spent>>

PassOver(p) ==
  /\ driver = "batch" /\ pc = "loop" /\ p \in todo \cap processed
  /\ todo' = todo \ {p}
  /\ UNCHANGED <<driver, pc, page, file, processed, search, session, spent>>

Take(p) ==
  /\ driver = "batch" /\ pc = "loop" /\ p \in todo \ processed
  /\ todo' = todo \ {p} /\ Begin(p)
  /\ UNCHANGED <<driver, page, file, processed, session, spent>>

Row(status) == [id |-> who, status |-> status]

AppendState ==
  /\ driver = "batch" /\ pc = "record"
  /\ file' = Extend(file, Row(record.status)) /\ pc' = "mark"
  /\ UNCHANGED <<driver, page, processed, todo, search, session, spent>>

(* The checkpoint file, which no start reads, is written or raises.        *)
WriteCheckpoint ==
  /\ driver = "batch" /\ pc = "mark"
  /\ \/ pc' = "loop" /\ UNCHANGED failures
     \/ pc' = "failed" /\ failures < MaxFailures /\ failures' = failures + 1
  /\ UNCHANGED <<driver, page, batch, search, session, kills, deaths>>

(* Whatever was raised for this pensioner becomes a row, behind the one it *)
(* may have.                                                               *)
RecordFailure ==
  /\ driver = "batch" /\ pc = "failed"
  /\ file' = Extend(file, Row("error")) /\ pc' = "loop"
  /\ UNCHANGED <<driver, page, processed, todo, search, session, spent>>

Done ==
  /\ driver = "batch" /\ pc = "loop" /\ todo = {}
  /\ pc' = "off" /\ page' = "none"
  /\ UNCHANGED <<driver, batch, search, session, spent>>
-----------------------------------------------------------------------------
(* A session.  Opening a browser gives a page or, when it raises, none.    *)
Reopened ==
  \/ page' = "open" /\ UNCHANGED failures
  \/ page' = "none" /\ failures < MaxFailures /\ failures' = failures + 1

PeriodicReset ==
  IF requests > 0 /\ requests % ResetEvery = 0 THEN Reopened
  ELSE UNCHANGED <<page, failures>>

(* The error of a dead page says "target closed", or, as newer browsers    *)
(* put it, something that is not looked for.                               *)
IfTargetClosed ==
  \/ page = "dead" /\ Reopened
  \/ UNCHANGED <<page, failures>>

(* start, and start again after close: the counters are kept.              *)
Open ==
  /\ driver = "session" /\ pc = "off" /\ page = "none"
  /\ page' = "open" /\ pc' = "loop"
  /\ UNCHANGED <<driver, batch, search, session, spent>>

Search(p) ==
  /\ driver = "session" /\ pc = "loop" /\ requests < MaxRequests
  /\ PeriodicReset
  /\ requests' = requests + 1 /\ Begin(p)
  /\ UNCHANGED <<driver, batch, errors, kills, deaths>>

(* The candidates and the status go to the caller.                         *)
Answer ==
  /\ driver = "session" /\ pc = "record"
  /\ errors' = IF record.status = "error" THEN errors + 1 ELSE 0
  /\ pc' = "loop"
  /\ UNCHANGED <<driver, page, batch, search, requests, spent>>

(* What the search raised is an answer "error", until it is too many in a  *)
(* row; only a closed target is opened again, if it is known as one.       *)
AnswerError ==
  /\ driver = "session" /\ pc = "failed"
  /\ errors' = errors + 1
  /\ IfTargetClosed
  /\ pc' = IF MaxErrors > 0 /\ errors' >= MaxErrors THEN "off" ELSE "loop"
  /\ UNCHANGED <<driver, batch, search, requests, kills, deaths>>

Close ==
  /\ driver = "session" /\ pc = "loop"
  /\ page' = "none" /\ pc' = "off"
  /\ UNCHANGED <<driver, batch, search, session, spent>>
-----------------------------------------------------------------------------
PageDies ==
  /\ page = "open" /\ deaths < MaxDeaths
  /\ page' = "dead" /\ deaths' = deaths + 1
  /\ UNCHANGED <<driver, pc, batch, search, session, kills, failures>>

Kill ==
  /\ driver = "batch" /\ pc # "off" /\ kills < MaxKills
  /\ file' \in CASE pc = "record" -> Broken(file, Row(record.status))
                 [] pc = "failed" -> Broken(file, Row("error"))
                 [] OTHER -> {file}
  /\ pc' = "off" /\ page' = "none" /\ kills' = kills + 1
  /\ UNCHANGED <<driver, processed, todo, search, session, deaths, failures>>

LadderStep ==
  \/ NoQuery \/ TimesOutOrUnparsed \/ Wall \/ Escapes \/ Conclude
  \/ \E links \in Results : Parsed(links)

BatchStep ==
  \/ \E p \in Pensioners : PassOver(p) \/ Take(p)
  \/ AppendState \/ WriteCheckpoint \/ RecordFailure \/ Done

SessionStep ==
  \/ \E p \in Pensioners : Search(p)
  \/ Open \/ Answer \/ AnswerError \/ Close

Next ==
  \/ \E input \in SUBSET Pensioners : Start(input)
  \/ LadderStep \/ BatchStep \/ SessionStep \/ PageDies \/ Kill

Spec == Init /\ [][Next]_vars

(* Every page.goto has a timeout, and the operator starts the tool again   *)
(* on the whole input, though now and then on a part of it.                *)
FairSpec ==
  Spec /\ WF_vars(LadderStep \/ BatchStep) /\ SF_vars(Start(Pensioners))
-----------------------------------------------------------------------------
Statuses == {"none", "skip", "decided", "captcha", "error", "no_results"}
Rows == [id : Pensioners, status : Statuses]
Pages ==
  [name : ToSet(Ladder), found : {Parse(links) : links \in Results} \cup {{}}]

(* Every variable keeps its type; only a row that can be read lacks its    *)
(* newline, and a memorial came by strategies of the ladder.               *)
TypeOK ==
  /\ driver \in {"batch", "session"} /\ page \in {"open", "dead", "none"}
  /\ pc \in {"off", "loop", "ladder", "record", "mark", "failed"}
  /\ file \in [rows : Seq(Rows), end : {"newline", "part", "open"}]
  /\ file.end = "open" => file.rows # <<>>
  /\ processed \subseteq Pensioners /\ todo \subseteq Pensioners
  /\ who \in Pensioners /\ k \in 1 .. Len(Ladder) + 1
  /\ runs \in Seq(Pages)
  /\ captcha \in BOOLEAN /\ anyError \in BOOLEAN
  /\ unread \subseteq ToSet(Ladder) /\ unseen \subseteq ToSet(Ladder)
  /\ record.status \in Statuses
  /\ \A m \in DOMAIN record.found : record.found[m] \subseteq ToSet(Ladder)
  /\ {requests, errors} \subseteq Nat /\ kills \in 0 .. MaxKills
  /\ deaths \in 0 .. MaxDeaths /\ failures \in 0 .. MaxFailures

(* A record tells how its search went: "no_results" says that each         *)
(* strategy that applies was answered, and its page taken for one without  *)
(* candidates; "captcha" and "error" that nobody was found and some page   *)
(* not read; a memorial a page named is in the record with each strategy   *)
(* that found it, whatever became of the other pages, unless the record is *)
(* full of others no worse; and no strategy is credited that saw nothing.  *)
RowTellsTheSearch ==
  pc = "record" =>
    /\ record.status = "no_results" =>
         \A j \in DOMAIN Ladder : Makes[who][Ladder[j]] = "query" =>
           \E i \in DOMAIN runs : runs[i] = [name |-> Ladder[j], found |-> {}]
    /\ record.status \in {"captcha", "error"} =>
         unread # {} /\ DOMAIN record.found = {}
    /\ \A i \in DOMAIN runs : \A m \in runs[i].found :
         \/ m \in DOMAIN record.found /\ runs[i].name \in record.found[m]
         \/ /\ m \notin DOMAIN record.found
            /\ Cardinality(DOMAIN record.found) = MaxCandidates
            /\ \A n \in DOMAIN record.found : ScoreFor[who][n] >= ScoreFor[who][m]
    /\ \A m \in DOMAIN record.found : record.found[m] \cap (unread \cup unseen) = {}

(* filters.py:334: "no_results" is that "all strategies returned 0": no    *)
(* page that was answered named anybody.                                   *)
NoResultsMeansNone ==
  pc = "record" /\ record.status = "no_results" => unseen = {}

(* Every pensioner ends with a readable row, though rows are cut short,    *)
(* glued together and lost, since the next start reads what there is.      *)
EveryoneGetsARow == driver = "batch" => <>(IdsOf(file) = Pensioners)
==============================================================================
