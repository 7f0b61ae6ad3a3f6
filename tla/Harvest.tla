------------------------------- MODULE Harvest -------------------------------
(***************************************************************************)
(* The tools that fetch the program's inputs item by item and can be       *)
(* started again:                                                          *)
(*   "cemeteries"    cgr/cgr_ok_scraper.py      a line per cemetery         *)
(*   "veterans"      cgr/cgr_enrich_run.py      a line per veteran          *)
(*   "crossref"      cgr/cgr_xref_run.py        a line per pensioner        *)
(*   "items"         ingest/scrape_digitalprairie.py  one file, rewritten   *)
(*   "pages"         ingest/fetch_pensioncard_pages.py  one file, replaced  *)
(*   "applications"  ingest/download_application_images.py  a file per item *)
(* Requests fail, the tool is killed between and within its writes, and    *)
(* the operator starts it again, with or without a limit.                  *)
(***************************************************************************)
EXTENDS Integers, FiniteSets, Sequences, FiniteSetsExt, SequencesExt

CONSTANTS
  Tools,        \* those looked at
  LastItem,     \* items are numbered from 1, as ids are
  MaxSize,      \* bound: veterans in a cemetery
  PageSize, MaxPages,  \* of a list of veterans
  ProbeStep, ProbeSlack, \* of find_max_id
  SaveEvery,    \* items between two saves of the whole-file tools
  MaxKills, MaxFailures  \* bounds: of kills, and of requests that fail

ASSUME HarvestAssumption ==
  /\ Tools \subseteq {"cemeteries", "veterans", "crossref", "items", "pages",
                     "applications"}
  /\ {LastItem, PageSize, MaxPages, ProbeStep, ProbeSlack, SaveEvery}
       \subseteq Nat \ {0}
  /\ {MaxSize, MaxKills, MaxFailures} \subseteq Nat
  /\ MaxSize < PageSize * MaxPages

Items == 1 .. LastItem

VARIABLES
  tool,     \* the tool in use
  size,     \* what the site has of each item: 0 is nothing
  counted,  \* whether its lists say how long they are
  disk,     \* the output: its readable records, and what follows them
  pc,       \* "off", "fetch", "saving", "final" (the last save) or "end"
  limit,    \* the --limit of this pass, 0 for none
  range,    \* the items this pass goes through
  known,    \* those it found done
  todo,     \* those it has still to do
  mem,      \* the records of a whole-file tool
  cur,      \* the record being appended, or NoRecord
  new,      \* records made, or requests answered, in this pass
  kills, failures,
  clean,    \* history: no request failed in this pass, nor was a line torn
  made,     \* history: the items a record was written of
  broken    \* history: the writes a kill broke off

site == <<tool, size, counted>>
pass == <<limit, range, known, clean>>
past == <<made, broken>>
vars == <<site, disk, pc, pass, todo, mem, cur, new, kills, failures, past>>

Appends == tool \in {"cemeteries", "veterans", "crossref"}
WholeFile == tool \in {"items", "pages"}

NoRecord == [item |-> 0, got |-> "none", list |-> 0]
Rec(i, got, n) == [item |-> i, got |-> got, list |-> n]

(* What follows the readable records: nothing, something unreadable, or a  *)
(* whole record without its newline.                                       *)
NoTail == <<>>
Part == <<"part">>
Glued(line) == <<"line", line>>
Nothing == [recs |-> <<>>, tail |-> NoTail]
Truncated == [recs |-> <<>>, tail |-> Part]
-----------------------------------------------------------------------------
(* The site.  A list of n veterans comes in pages from an offset on.       *)
PageAt(n, offset) ==
  SubSeq([v \in 1 .. n |-> v], offset + 1,
         Min({n, offset + PageSize}))

(* A mutant: a full page is taken for the last where no total is announced.*)
IsLastIfFull(n, offset, says) ==
  says => offset + Len(PageAt(n, offset)) >= n

(* The list ends with a page that reaches the announced total, or, where   *)
(* none is announced, with a page that is not full.                        *)
IsLast(n, offset, says) ==
  IF says THEN offset + Len(PageAt(n, offset)) >= n
          ELSE Len(PageAt(n, offset)) < PageSize

(* list_all_veterans_in_cemetery: what it has after k requests.            *)
ListAll(n, says) ==
  LET after[k \in 0 .. MaxPages] ==
        IF k = 0 THEN [list |-> <<>>, more |-> TRUE]
        ELSE LET offset == (k - 1) * PageSize
                 page == PageAt(n, offset)
             IN IF ~after[k - 1].more \/ page = <<>>
                THEN [after[k - 1] EXCEPT !.more = FALSE]
                ELSE [list |-> after[k - 1].list \o page,
                      more |-> ~IsLast(n, offset, says)]
  IN after[MaxPages].list

(* find_max_id steps through the ids until one has nothing, and bisects    *)
(* the last step down to ProbeSlack.                                       *)
FindMaxId(has) ==
  LET hits == {k \in 0 .. LastItem : 1 + k * ProbeStep <= LastItem
                 /\ \A j \in 0 .. k : 1 + j * ProbeStep \in has}
      lastHit == IF hits = {} THEN 1 ELSE 1 + Max(hits) * ProbeStep
      after[k \in 0 .. ProbeStep] ==
        IF k = 0 THEN [lo |-> lastHit, hi |-> lastHit + ProbeStep]
        ELSE LET was == after[k - 1]
                 mid == (was.lo + was.hi) \div 2
             IN IF was.hi - was.lo <= ProbeSlack THEN was
                ELSE IF mid \in has THEN [was EXCEPT !.lo = mid]
                ELSE [was EXCEPT !.hi = mid]
  IN after[ProbeStep].lo

(* What a request for item i can bring.  The details of a veteran are      *)
(* asked for one by one, and one that fails leaves a gap in the record.    *)
Answers(i) ==
  CASE tool = "cemeteries" ->
         {"answer", "failure"} \cup (IF size[i] > 0 THEN {"gaps"} ELSE {})
    [] tool = "crossref" ->
         {IF size[i] > 0 THEN "answer" ELSE "no_match", "failure"}
           \cup (IF size[i] > 0 THEN {"gaps"} ELSE {})
    [] tool = "veterans" ->
         {IF size[i] > 0 THEN "answer" ELSE "empty_details", "failure"}
    [] OTHER -> {IF size[i] > 0 THEN "answer" ELSE "absent", "failure"}

Fails(got) ==
  IF got \in {"failure", "gaps"}
  THEN failures < MaxFailures /\ failures' = failures + 1 /\ clean' = FALSE
  ELSE UNCHANGED <<failures, clean>>
-----------------------------------------------------------------------------
(* Reading the output back.  A line without its newline is read like any   *)
(* other; one that is no record is passed over; a whole file that is not   *)
(* readable is taken for none.                                             *)
Readable ==
  ToSet(disk.recs) \cup {disk.tail[2] : x \in {1} \cap {Len(disk.tail) - 1}}

ItemsOf(recs) == {r.item : r \in recs}

(* A mutant: as many items are done as there are records.                  *)
DoneByCount == 1 .. Cardinality(Readable)

(* An image is there if its file is not empty; any other item if it has a  *)
(* record, an error record included.                                       *)
Done == ItemsOf({r \in Readable : r.got # "hollow"})

(* What a pass is to go through: all there is, --limit items from the      *)
(* front, or, for "items", the ids up to the one it probes.  A probe that  *)
(* fails counts as one that found nothing.                                 *)
Ranges(l, unheard) ==
  CASE tool = "items" ->
         {Items, 1 .. Min({LastItem,
                           FindMaxId({i \in Items \ unheard : size[i] > 0})})}
    [] l > 0 /\ tool \in {"crossref", "pages", "applications"} ->
         {{i \in Items : i <= l}}
    [] OTHER -> {Items}

Start(l, unheard) ==
  /\ pc \in {"off", "end"} /\ (tool = "items" => l = 0)
  /\ limit' = l /\ known' = Done /\ new' = 0
  /\ range' \in Ranges(l, unheard)
  /\ todo' = range' \ known'
  /\ mem' = IF WholeFile THEN Readable ELSE {}
  /\ \/ unheard = {} /\ clean' = (disk.tail = NoTail) /\ UNCHANGED failures
     \/ unheard # {} /\ tool = "items" /\ Fails("failure")
  /\ pc' = IF tool = "items" /\ todo' = {} THEN "end" ELSE "fetch"
  /\ UNCHANGED <<site, disk, cur, kills, past>>

(* The list of cemeteries can not be had: there is nothing to do.          *)
ListingFails ==
  /\ tool = "cemeteries" /\ pc \in {"off", "end"} /\ Fails("failure")
  /\ pc' = "end" /\ limit' = 0 /\ range' = {} /\ known' = {} /\ todo' = {}
  /\ UNCHANGED <<site, disk, mem, cur, new, kills, past>>

(* The limit of cemeteries is asked about after a record without error,    *)
(* and that of veterans before a request, by position.                     *)
LimitReached ==
  /\ limit > 0 /\ todo # {}
  /\ CASE tool = "cemeteries" -> new >= limit /\ cur.got # "failure"
       [] tool = "veterans" -> Min(todo) - 1 - Cardinality(known) >= limit
       [] OTHER -> FALSE

(* The threads of "items" finish in any order.                             *)
MayBeNext(i) == i \in todo /\ (tool = "items" \/ i = Min(todo))

(* Nothing is kept of an item that has nothing or failed, by the tools     *)
(* that do not write a line for it.                                        *)
RecordOf(i, got) ==
  Rec(i, got, IF tool = "cemeteries" /\ got # "failure"
              THEN Len(ListAll(size[i], counted)) ELSE 0)

SaveDue(i) ==
  CASE tool = "items" -> new' % SaveEvery = 0
    [] tool = "pages" -> i % SaveEvery = 0
    [] OTHER -> FALSE

(* A mutant: every whole file is opened for writing where it is.           *)
OpenInPlace == disk' = IF WholeFile THEN Truncated ELSE disk

(* save_records opens its file for writing, which truncates it; save_cache *)
(* writes a temporary file.                                                *)
OpenForSave == disk' = IF tool = "items" THEN Truncated ELSE disk

Asked(i) ==
  /\ pc = "fetch" /\ ~LimitReached /\ MayBeNext(i)
  /\ todo' = todo \ {i} /\ new' = new + 1
  /\ UNCHANGED <<site, limit, range, known, kills, past>>

(* A line is written whatever came of the request.                         *)
FetchLine(i) ==
  /\ Appends /\ Asked(i) /\ pc' = "saving"
  /\ \E got \in Answers(i) : Fails(got) /\ cur' = RecordOf(i, got)
  /\ UNCHANGED <<mem, disk>>

FetchToMemory(i) ==
  /\ WholeFile /\ Asked(i)
  /\ \E got \in Answers(i) :
       /\ Fails(got)
       /\ mem' = IF got = "answer" THEN mem \cup {RecordOf(i, got)} ELSE mem
  /\ IF SaveDue(i) THEN pc' = "saving" /\ OpenForSave
     ELSE UNCHANGED <<pc, disk>>
  /\ UNCHANGED cur

FetchImage(i) ==
  /\ tool = "applications" /\ Asked(i)
  /\ \E got \in Answers(i) :
       /\ Fails(got)
       /\ IF got = "answer"
          THEN cur' = RecordOf(i, got) /\ pc' = "saving"
          ELSE UNCHANGED <<cur, pc>>
  /\ UNCHANGED <<mem, disk>>

(* A line is put behind whatever the file ends with.                       *)
AppendLine(r) ==
  disk' = IF disk.tail = NoTail
          THEN [disk EXCEPT !.recs = Append(@, r)]
          ELSE [disk EXCEPT !.tail = NoTail]

(* One file for each item: what was left in it is written over.            *)
PutImage(recs, r) ==
  IF r.item \in ItemsOf(ToSet(recs))
  THEN [k \in DOMAIN recs |-> IF recs[k].item = r.item THEN r ELSE recs[k]]
  ELSE Append(recs, r)

WriteImage(r) == disk' = [disk EXCEPT !.recs = PutImage(@, r)]

(* The records are put in the order of their ids, which nothing reads.     *)
SaveWhole == disk' = [recs |-> SetToSeq(mem), tail |-> NoTail]

Saved ==
  /\ pc \in {"saving", "final"}
  /\ \/ Appends /\ AppendLine(cur)
     \/ WholeFile /\ SaveWhole
     \/ tool = "applications" /\ WriteImage(cur)
  /\ made' = made \cup Done' \cup (IF Appends THEN {cur.item} ELSE {})
  /\ pc' = IF pc = "final" THEN "end" ELSE "fetch"
  /\ UNCHANGED <<site, pass, todo, mem, cur, new, kills, failures, broken>>

Finish ==
  /\ pc = "fetch" /\ (todo = {} \/ LimitReached)
  /\ IF WholeFile THEN pc' = "final" /\ OpenForSave
     ELSE pc' = "end" /\ UNCHANGED disk
  /\ cur' = NoRecord
  /\ UNCHANGED <<site, pass, todo, mem, new, kills, failures, past>>

(* Killed in a write, an append leaves any part of its line, a file that   *)
(* was truncated stays so, and an image is hollow or cut short.            *)
LeftBehind ==
  IF pc \notin {"saving", "final"} \/ WholeFile THEN {disk}
  ELSE IF Appends
  THEN {disk, [disk EXCEPT !.tail = Part]}
         \cup (IF disk.tail = NoTail
               THEN {[disk EXCEPT !.tail = Glued(cur)]} ELSE {})
  ELSE {[disk EXCEPT !.recs = PutImage(@, Rec(cur.item, got, 0))] :
          got \in {"hollow", "part"}}

Kill ==
  /\ kills < MaxKills /\ kills' = kills + 1
  /\ pc \in {"fetch", "saving", "final"} /\ pc' = "off"
  /\ disk' \in LeftBehind
  /\ broken' = (IF pc = "fetch" THEN broken ELSE broken + 1) /\ made' = made \cup Done'
  /\ cur' = NoRecord /\ mem' = {} /\ todo' = {}
  /\ UNCHANGED <<site, pass, new, failures>>
-----------------------------------------------------------------------------
(* One of the items may be nothing at all, or, of the cemeteries, large.   *)
Init ==
  /\ tool \in Tools /\ counted \in BOOLEAN
  /\ tool # "cemeteries" => counted
  /\ size \in {[i \in Items |-> IF i = odd THEN n ELSE 1] :
                 odd \in Items,
                 n \in 0 .. (IF tool = "cemeteries" THEN MaxSize ELSE 1)}
  /\ disk = Nothing /\ pc = "off"
  /\ limit = 0 /\ range = {} /\ known = {} /\ clean = FALSE
  /\ todo = {} /\ mem = {} /\ cur = NoRecord /\ new = 0
  /\ kills = 0 /\ failures = 0 /\ made = {} /\ broken = 0

Steps ==
  \/ \E i \in Items : FetchLine(i) \/ FetchToMemory(i) \/ FetchImage(i)
  \/ Saved \/ Finish

Next ==
  \/ \E l \in 0 .. 1, unheard \in {{}} \cup {{i} : i \in Items} :
       Start(l, unheard)
  \/ ListingFails
  \/ Steps \/ Kill

Spec == Init /\ [][Next]_vars

(* The tool goes on while it runs, and the operator starts it again.       *)
FairSpec == Spec /\ WF_vars(Steps) /\ WF_vars(Start(0, {}))
-----------------------------------------------------------------------------
Kept == {r \in Readable : r.got # "hollow"}

(* The items of which a record was written that is not there any more.     *)
Lost == made \ Done

(* What a kill may cost, however often the tool is started again over what *)
(* was left.  Of lines: two for each write broken off, the next one put    *)
(* behind the torn one and, where that was whole but for its newline, this *)
(* one; those fetched again do not count.  Of a file that is replaced, and *)
(* of images: none.  The scraper of Digital Prairie has in memory what it  *)
(* took away to rewrite it, until a kill in a rewrite costs all of it.     *)
LossesAreBounded ==
  /\ Appends => Cardinality(Lost) <= 2 * broken
  /\ tool \in {"pages", "applications"} => Lost = {}
  /\ tool = "items" => broken > 0 \/ Lost \subseteq ItemsOf(mem)

(* scrape_digitalprairie.py:271: the records are written "atomically".     *)
SavesAreAtomic == WholeFile /\ pc = "off" => Lost = {}

(* Up to here the ids have no gap.                                         *)
Unbroken == Max({0} \cup {i \in Items : \A j \in 1 .. i : size[j] > 0})

(* A pass without limit and failure, over a file no kill has torn, leaves  *)
(* one record of every item there is in its range; an id probed too low    *)
(* costs less than ProbeSlack of the ids before the first gap; and the     *)
(* record of a cemetery lists all its veterans.                            *)
PassIsComplete ==
  pc = "end" /\ clean /\ limit = 0 =>
    /\ \A i \in range \cup {i \in Items : i + ProbeSlack <= Unbroken + 1} :
         size[i] > 0 \/ Appends =>
           Cardinality({k \in DOMAIN disk.recs : disk.recs[k].item = i}) = 1
    /\ \A r \in Kept : tool = "cemeteries" /\ r.got # "failure" =>
         r.list = size[r.item]

(* Whatever failed and whenever it was killed, a tool started again and    *)
(* again comes to have a record of every item there is in its range.       *)
EveryItemIsSettled ==
  \A i \in Items :
    <>[](i \in range => size[i] = 0 \/ i \in ItemsOf(Kept \cup mem))

(* cgr_enrich_run.py:16-18: a veteran whose record has vet_fetch_error set *)
(* is asked for again.                                                     *)
FailuresAreRetried ==
  tool = "veterans" /\ pc = "end" /\ clean /\ limit = 0 =>
    \A r \in Kept : r.got # "failure"
=============================================================================
