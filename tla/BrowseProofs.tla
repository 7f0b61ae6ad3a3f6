---------------------------- MODULE BrowseProofs ----------------------------
(***************************************************************************)
(* Theorems about the programs of Browse.  Each one's own specification    *)
(* has its properties, whatever the others do.                             *)
(***************************************************************************)
EXTENDS Browse, TLAPS
-----------------------------------------------------------------------------
(* The search tool.  Strategies before the k-th are those asked so far.    *)
AskedSoFar == {Ladder[j] : j \in 1 .. k - 1}

(* What was read, and what was not, of the search under way: a strategy    *)
(* whose answer was not read leaves a mark, and no run; the others that    *)
(* apply have one, which found nothing where the answer was not seen.      *)
SearchInv ==
  /\ unread # {} => captcha \/ anyError
  /\ captcha \/ anyError => unread # {}
  /\ unread \subseteq AskedSoFar /\ unseen \subseteq AskedSoFar
  /\ \A i \in DOMAIN runs :
       /\ runs[i].name \in AskedSoFar \ unread
       /\ runs[i].name \in unseen => runs[i].found = {}
  /\ \A j \in 1 .. k - 1 : Makes[who][Ladder[j]] = "query" =>
       Ladder[j] \in unread \/ \E i \in DOMAIN runs : runs[i].name = Ladder[j]

(* A record is cut from the runs of its search, or made of none.           *)
RecordInv ==
  pc = "record" =>
    \/ /\ k > Len(Ladder)
       /\ \E kept \in Best(Merge(runs)) :
            record = [status |-> StatusOf(Merge(runs)), found |-> Restrict(Merge(runs), kept)]
    \/ record.status = "skip" /\ runs = <<>> /\ record.found = <<>>

(* The strategies are numbered, each once.                                 *)
LEMMA LadderFacts ==
  ASSUME FagSearchAssumption
  PROVE  /\ Len(Ladder) \in Nat /\ DOMAIN Ladder = 1 .. Len(Ladder)
         /\ \A i \in 1 .. Len(Ladder) : Ladder[i] \in ToSet(Ladder)
         /\ \A i, j \in 1 .. Len(Ladder) : Ladder[i] = Ladder[j] => i = j
BY DEF FagSearchAssumption, ToSet

(* What a search has seen says no more than what its pages gave.           *)
LEMMA MergeFacts ==
  ASSUME NEW rs
  PROVE  /\ \A i \in DOMAIN rs : \A m \in rs[i].found :
              m \in DOMAIN Merge(rs) /\ rs[i].name \in Merge(rs)[m]
         /\ \A m \in DOMAIN Merge(rs) : \A s \in Merge(rs)[m] :
              \E i \in DOMAIN rs : rs[i].name = s /\ m \in rs[i].found
BY DEF Merge

(* What is cut from it is said of the same memorials.                      *)
LEMMA CutFacts ==
  ASSUME NEW found, NEW kept \in Best(found)
  PROVE  /\ DOMAIN Restrict(found, kept) = kept /\ kept \subseteq DOMAIN found
         /\ \A m \in kept : Restrict(found, kept)[m] = found[m]
         /\ \A m \in DOMAIN found \ kept :
              /\ Cardinality(kept) = MaxCandidates
              /\ \A n \in kept : ScoreFor[who][n] >= ScoreFor[who][m]
BY DEF Best, Restrict

LEMMA ElementOf ==
  ASSUME NEW T, NEW s \in Seq(T)
  PROVE  \A i \in DOMAIN s : s[i] \in T
OBVIOUS

LEMMA StatusFacts ==
  ASSUME NEW found, captcha \in BOOLEAN, anyError \in BOOLEAN
  PROVE  /\ StatusOf(found) \in {"decided", "captcha", "error", "no_results"}
         /\ StatusOf(found) = "no_results" => ~captcha /\ ~anyError
         /\ StatusOf(found) \in {"captcha", "error"} =>
              (captcha \/ anyError) /\ DOMAIN found = {}
<1>1. CASE DOMAIN found # {} BY <1>1 DEF StatusOf
<1>2. CASE DOMAIN found = {} /\ captcha BY <1>2 DEF StatusOf
<1>3. CASE DOMAIN found = {} /\ ~captcha /\ anyError BY <1>3 DEF StatusOf
<1>4. CASE DOMAIN found = {} /\ ~captcha /\ ~anyError BY <1>4 DEF StatusOf
<1> QED BY <1>1, <1>2, <1>3, <1>4
-----------------------------------------------------------------------------
(* Each step of the tool keeps the types.                                  *)
LEMMA Begins ==
  ASSUME FagSearchAssumption, TypeOK, NEW p \in Pensioners, Begin(p)
  PROVE  /\ pc' \in {"ladder", "record"} /\ who' \in Pensioners
         /\ k' \in 1 .. Len(Ladder) + 1
         /\ runs' \in Seq(Pages)
         /\ captcha' \in BOOLEAN /\ anyError' \in BOOLEAN
         /\ unread' \subseteq ToSet(Ladder) /\ unseen' \subseteq ToSet(Ladder)
         /\ record'.status \in Statuses
         /\ \A m \in DOMAIN record'.found : record'.found[m] \subseteq ToSet(Ladder)
<1>1. k' \in 1 .. Len(Ladder) + 1 BY LadderFacts DEF Begin
<1>2. record'.status \in Statuses /\ record'.found = <<>>
      /\ pc' \in {"ladder", "record"}
  BY DEF Begin, NoRecord, Statuses
<1>3. \A m \in DOMAIN record'.found : record'.found[m] \subseteq ToSet(Ladder)
  BY <1>2
<1>5. runs' \in Seq(Pages) BY DEF Begin
<1>6. captcha' \in BOOLEAN /\ anyError' \in BOOLEAN /\ unread' = {} /\ unseen' = {}
      /\ who' = p
  BY DEF Begin
<1>7. unread' \subseteq ToSet(Ladder) /\ unseen' \subseteq ToSet(Ladder) /\ who' \in Pensioners
  BY <1>6
<1> QED BY <1>1, <1>2, <1>3, <1>5, <1>6, <1>7, Zenon

LEMMA Extended ==
  ASSUME NEW f \in [rows : Seq(Rows), end : {"newline", "part", "open"}],
         f.end = "open" => f.rows # <<>>,
         NEW r \in Rows
  PROVE  /\ Extend(f, r) \in [rows : Seq(Rows), end : {"newline"}]
         /\ \A g \in Broken(f, r) :
              /\ g \in [rows : Seq(Rows), end : {"newline", "part", "open"}]
              /\ g.end = "open" => g.rows # <<>>
<1>1. f.rows \in Seq(Rows) BY Zenon
<1>2. Append(f.rows, r) \in Seq(Rows) /\ Append(f.rows, r) # <<>> BY <1>1
<1>3. f.end = "open" => Front(f.rows) \in Seq(Rows)
  <2> SUFFICES ASSUME f.end = "open" PROVE Front(f.rows) \in Seq(Rows) OBVIOUS
  <2>1. Len(f.rows) \in Nat /\ Len(f.rows) # 0 BY <1>1
  <2>2. SubSeq(f.rows, 1, Len(f.rows) - 1) \in Seq(Rows) BY <1>1, <2>1
  <2> QED BY <2>2 DEF Front
<1>4. Extend(f, r).rows \in Seq(Rows)
  <2>1. CASE f.end = "newline" BY <1>2, <2>1 DEF Extend
  <2>2. CASE f.end = "part" BY <1>1, <2>2 DEF Extend
  <2>3. CASE f.end = "open" BY <1>3, <2>3 DEF Extend
  <2> QED BY <2>1, <2>2, <2>3
<1>5. Extend(f, r) \in [rows : Seq(Rows), end : {"newline"}] BY <1>4 DEF Extend
<1>6. ASSUME NEW g \in Broken(f, r)
      PROVE  /\ g \in [rows : Seq(Rows), end : {"newline", "part", "open"}]
             /\ g.end = "open" => g.rows # <<>>
  <2>1. CASE g = f BY <2>1
  <2>2. CASE g = [f EXCEPT !.end = "part"] BY <2>2
  <2>3. CASE g = [rows |-> Append(f.rows, r), end |-> "open"] BY <1>2, <2>3
  <2>4. CASE g = [rows |-> Extend(f, r).rows, end |-> "part"] BY <1>4, <2>4
  <2> QED BY <1>6, <2>1, <2>2, <2>3, <2>4 DEF Broken
<1> QED BY <1>5, <1>6

LEMMA TypeStep ==
  ASSUME FagSearchAssumption, TypeOK, [Next]_vars
  PROVE  TypeOK'
<1> USE DEF TypeOK
<1>1. CASE UNCHANGED vars BY <1>1 DEF vars, search, batch, session, spent
<1>2. ASSUME NEW input \in SUBSET Pensioners, Start(input) PROVE TypeOK'
  <2>1. IdsOf(file) \subseteq Pensioners
    <3>1. file.rows \in Seq(Rows) OBVIOUS
    <3>2. \A i \in DOMAIN file.rows : file.rows[i] \in Rows BY <3>1, ElementOf
    <3>3. \A r \in Rows : r.id \in Pensioners BY DEF Rows
    <3> QED BY <3>2, <3>3 DEF IdsOf
  <2> QED BY <1>2, <2>1 DEF Start, LoadProcessedIds, search, session, spent
<1>3. CASE LadderStep
  <2> USE DEF Onward, AtStrategy, Asked, search, batch, session, spent
  <2>1. pc = "ladder" /\ k <= Len(Ladder) =>
          k + 1 \in 1 .. Len(Ladder) + 1 /\ Ladder[k] \in ToSet(Ladder)
    BY LadderFacts
  <2>2. CASE NoQuery BY <2>1, <2>2 DEF NoQuery
  <2>3. CASE TimesOutOrUnparsed BY <2>1, <2>3 DEF TimesOutOrUnparsed
  <2>4. CASE Wall BY <2>1, <2>4 DEF Wall
  <2>5. CASE Escapes
    <3>1. failures' \in 0 .. MaxFailures BY <2>5 DEF Escapes, FagSearchAssumption
    <3> QED BY <2>5, <3>1 DEF Escapes
  <2>6. CASE Conclude
    <3>1. StatusOf(Merge(runs)) \in Statuses BY StatusFacts DEF Statuses
    <3>2. \A i \in DOMAIN runs : runs[i].name \in ToSet(Ladder)
      <4>1. runs \in Seq(Pages) OBVIOUS
      <4>2. \A i \in DOMAIN runs : runs[i] \in Pages BY <4>1, ElementOf
      <4>3. \A r \in Pages : r.name \in ToSet(Ladder) BY DEF Pages
      <4> QED BY <4>2, <4>3
    <3>3. \A m \in DOMAIN Merge(runs) : Merge(runs)[m] \subseteq ToSet(Ladder)
      BY <3>2, MergeFacts
    <3>4. PICK kept \in Best(Merge(runs)) :
            record' = [status |-> StatusOf(Merge(runs)), found |-> Restrict(Merge(runs), kept)]
      BY <2>6 DEF Conclude
    <3>5. record'.status = StatusOf(Merge(runs)) /\ record'.found = Restrict(Merge(runs), kept)
      BY <3>4
    <3>6. \A m \in DOMAIN record'.found : record'.found[m] \subseteq ToSet(Ladder)
      BY <3>3, <3>5, CutFacts
    <3>7. record'.status \in Statuses BY <3>1, <3>5
    <3> QED BY <2>6, <3>6, <3>7 DEF Conclude
  <2>7. ASSUME NEW links \in Results, Parsed(links) PROVE TypeOK'
    <3>1. \A found \in {Parse(links), {}} : [name |-> Ladder[k], found |-> found] \in Pages
      BY <2>1, <2>7 DEF Parsed, Pages
    <3>2. \E found \in {Parse(links), {}} :
            runs' = Append(runs, [name |-> Ladder[k], found |-> found])
      BY <2>7 DEF Parsed, Gives
    <3>4. runs' \in Seq(Pages)
      <4>1. runs \in Seq(Pages) OBVIOUS
      <4>2. PICK r \in Pages : runs' = Append(runs, r) BY <3>1, <3>2
      <4> QED BY <4>1, <4>2
    <3>3. unseen' \subseteq ToSet(Ladder) BY <2>1, <2>7 DEF Parsed
    <3> QED BY <2>1, <2>7, <3>3, <3>4 DEF Parsed
  <2> QED BY <1>3, <2>2, <2>3, <2>4, <2>5, <2>6, <2>7 DEF LadderStep
<1>4. CASE BatchStep
  <2> USE DEF search, batch, session, spent
  <2>1. ASSUME NEW p \in Pensioners, PassOver(p) PROVE TypeOK' BY <2>1 DEF PassOver
  <2>2. ASSUME NEW p \in Pensioners, Take(p) PROVE TypeOK'
    <3>1. Begin(p) BY <2>2 DEF Take
    <3> QED BY <2>2, <3>1, Begins DEF Take
  <2>3. CASE AppendState
    <3>1. Row(record.status) \in Rows BY DEF Row, Rows
    <3> QED BY <2>3, <3>1, Extended DEF AppendState
  <2>4. CASE WriteCheckpoint
    <3>1. failures' \in 0 .. MaxFailures BY <2>4 DEF WriteCheckpoint, FagSearchAssumption
    <3> QED BY <2>4, <3>1 DEF WriteCheckpoint
  <2>5. CASE RecordFailure
    <3>1. Row("error") \in Rows BY DEF Row, Rows, Statuses
    <3> QED BY <2>5, <3>1, Extended DEF RecordFailure
  <2>6. CASE Done BY <2>6 DEF Done
  <2> QED BY <1>4, <2>1, <2>2, <2>3, <2>4, <2>5, <2>6 DEF BatchStep
<1>5. CASE SessionStep
  <2> USE DEF search, batch, session, spent
  <2>1. Reopened \/ UNCHANGED <<page, failures>> =>
          page' \in {"open", "dead", "none"} /\ failures' \in 0 .. MaxFailures
    BY DEF Reopened, FagSearchAssumption
  <2>2. ASSUME NEW p \in Pensioners, Search(p) PROVE TypeOK'
    <3>1. Begin(p) BY <2>2 DEF Search
    <3>2. Reopened \/ UNCHANGED <<page, failures>> BY <2>2 DEF Search, PeriodicReset
    <3>3. page' \in {"open", "dead", "none"} /\ failures' \in 0 .. MaxFailures
      BY <2>1, <3>2
    <3>4. requests' \in Nat /\ UNCHANGED <<driver, file, processed, todo, errors, kills, deaths>>
      BY <2>2 DEF Search
    <3> QED BY <2>2, <3>1, <3>3, <3>4, Begins
  <2>3. CASE Open BY <2>3 DEF Open
  <2>4. CASE Answer
    <3>1. errors' \in Nat /\ pc' = "loop" /\ UNCHANGED <<driver, page, batch, search, requests, spent>>
      BY <2>4 DEF Answer
    <3> QED BY <3>1
  <2>5. CASE AnswerError
    <3>1. Reopened \/ UNCHANGED <<page, failures>> BY <2>5 DEF AnswerError, IfTargetClosed
    <3>2. page' \in {"open", "dead", "none"} /\ failures' \in 0 .. MaxFailures BY <2>1, <3>1
    <3>3. /\ errors' \in Nat /\ pc' \in {"off", "loop"}
          /\ UNCHANGED <<driver, batch, search, requests, kills, deaths>>
      BY <2>5 DEF AnswerError
    <3> QED BY <3>2, <3>3
  <2>6. CASE Close BY <2>6 DEF Close
  <2> QED BY <1>5, <2>2, <2>3, <2>4, <2>5, <2>6 DEF SessionStep
<1>6. CASE PageDies
  BY <1>6 DEF PageDies, FagSearchAssumption, search, batch, session
<1>7. CASE Kill
  <2>1. Row(record.status) \in Rows BY DEF Row, Rows
  <2>2. Row("error") \in Rows BY DEF Row, Rows, Statuses
  <2>3. file' \in Broken(file, Row(record.status)) \/ file' \in Broken(file, Row("error"))
          \/ file' = file
    BY <1>7 DEF Kill
  <2>4. /\ file' \in [rows : Seq(Rows), end : {"newline", "part", "open"}]
        /\ file'.end = "open" => file'.rows # <<>>
    BY <2>1, <2>2, <2>3, Extended
  <2> QED BY <1>7, <2>4 DEF Kill, FagSearchAssumption, search, session
<1> QED BY <1>1, <1>2, <1>3, <1>4, <1>5, <1>6, <1>7 DEF Next

(* The search tool keeps to its types (FagSearch).                         *)
THEOREM FagSearchTypes == Spec => []TypeOK
<1>1. Init => TypeOK
  <2> SUFFICES ASSUME Init PROVE TypeOK OBVIOUS
  <2>1. ASSUME NEW T PROVE <<>> \in Seq(T) OBVIOUS
  <2>2. file \in [rows : Seq(Rows), end : {"newline", "part", "open"}]
        /\ file.end # "open"
    BY <2>1 DEF Init
  <2>3. record.status \in Statuses /\ record.found = <<>> BY DEF Init, NoRecord, Statuses
  <2>4. \A m \in DOMAIN record.found : record.found[m] \subseteq ToSet(Ladder) BY <2>3
  <2>5. runs \in Seq(Pages) BY <2>1 DEF Init
  <2>6. k \in 1 .. Len(Ladder) + 1 BY FagSearchAssumption, LadderFacts DEF Init
  <2>7. kills \in 0 .. MaxKills /\ deaths \in 0 .. MaxDeaths /\ failures \in 0 .. MaxFailures
    BY FagSearchAssumption DEF Init
  <2>8. /\ driver \in {"batch", "session"} /\ page \in {"open", "dead", "none"}
        /\ pc \in {"off", "loop", "ladder", "record", "mark", "failed"}
        /\ processed \subseteq Pensioners /\ todo \subseteq Pensioners /\ who \in Pensioners
        /\ unread \subseteq ToSet(Ladder) /\ unseen \subseteq ToSet(Ladder)
        /\ {requests, errors} \subseteq Nat
    BY DEF Init
  <2>9. captcha = FALSE /\ anyError = FALSE BY Zenon DEF Init
  <2> QED BY <2>2, <2>3, <2>4, <2>5, <2>6, <2>7, <2>8, <2>9 DEF TypeOK
<1>2. TypeOK /\ [Next]_vars => TypeOK' BY FagSearchAssumption, TypeStep
<1> QED BY <1>1, <1>2, PTL DEF Spec

LEMMA SearchStep ==
  ASSUME FagSearchAssumption, TypeOK, SearchInv, [Next]_vars
  PROVE  SearchInv'
<1> USE DEF SearchInv, AskedSoFar
<1>1. UNCHANGED search => SearchInv' BY DEF search
<1>2. (\E p \in Pensioners : Begin(p)) => SearchInv' BY DEF Begin
<1>3. CASE LadderStep
  <2> USE DEF Onward, AtStrategy, Asked
  <2>1. Len(Ladder) \in Nat /\ k \in Nat /\ captcha \in BOOLEAN /\ anyError \in BOOLEAN
    BY LadderFacts DEF TypeOK
  <2> DEFINE Before(n) == {Ladder[j] : j \in 1 .. n - 1}
             Known(n, un, us, rs) ==
               /\ un \subseteq Before(n) /\ us \subseteq Before(n)
               /\ \A i \in DOMAIN rs :
                    rs[i].name \in Before(n) \ un /\ (rs[i].name \in us => rs[i].found = {})
             Told(j, un, rs) ==
               Makes[who][Ladder[j]] = "query" =>
                 Ladder[j] \in un \/ \E i \in DOMAIN rs : rs[i].name = Ladder[j]
  <2>2. pc = "ladder" /\ k <= Len(Ladder) =>
          /\ Before(k + 1) = Before(k) \cup {Ladder[k]} /\ Ladder[k] \notin Before(k)
          /\ 1 .. (k + 1) - 1 = (1 .. k - 1) \cup {k}
    <3> SUFFICES ASSUME pc = "ladder", k <= Len(Ladder)
                 PROVE /\ Before(k + 1) = Before(k) \cup {Ladder[k]} /\ Ladder[k] \notin Before(k)
                       /\ 1 .. (k + 1) - 1 = (1 .. k - 1) \cup {k}
      OBVIOUS
    <3>1. 1 .. (k + 1) - 1 = (1 .. k - 1) \cup {k} BY <2>1 DEF TypeOK
    <3>2. Before(k + 1) = Before(k) \cup {Ladder[k]}
      <4> HIDE DEF AtStrategy, Onward, Asked, SearchInv, AskedSoFar
      <4> QED BY <3>1
    <3>3. \A j \in 1 .. k - 1 : j \in 1 .. Len(Ladder) /\ j # k /\ k \in 1 .. Len(Ladder)
      BY <2>1
    <3>4. Ladder[k] \notin Before(k) BY <3>3, LadderFacts
    <3> QED BY <3>1, <3>2, <3>4
  <2>3. Known(k, unread, unseen, runs) /\ \A j \in 1 .. k - 1 : Told(j, unread, runs)
    OBVIOUS
  <2>10. who' = who /\ Known(k', unread', unseen', runs')
         /\ (\A j \in 1 .. k' - 1 : Told(j, unread', runs'))
         /\ (unread' # {} => captcha' \/ anyError') /\ (captcha' \/ anyError' => unread' # {})
           => SearchInv'
    OBVIOUS
  <2> HIDE DEF Before
  <2>4. CASE NoQuery
    <3>1. Known(k', unread', unseen', runs') BY <2>2, <2>3, <2>4 DEF NoQuery
    <3>2. \A j \in 1 .. k' - 1 : Told(j, unread', runs')
      <4>1. Told(k, unread, runs) BY <2>4 DEF NoQuery
      <4> HIDE DEF Told
      <4> QED BY <2>2, <2>3, <2>4, <4>1 DEF NoQuery
    <3> QED BY <2>4, <2>10, <3>1, <3>2 DEF NoQuery
  <2>5. CASE TimesOutOrUnparsed
    <3>1. Known(k', unread', unseen', runs') BY <2>2, <2>3, <2>5 DEF TimesOutOrUnparsed
    <3>2. \A j \in 1 .. k' - 1 : Told(j, unread', runs')
      BY <2>2, <2>3, <2>5 DEF TimesOutOrUnparsed
    <3> QED BY <2>1, <2>5, <2>10, <3>1, <3>2 DEF TimesOutOrUnparsed
  <2>6. CASE Wall
    <3>1. Known(k', unread', unseen', runs') BY <2>2, <2>3, <2>6 DEF Wall
    <3>2. \A j \in 1 .. k' - 1 : Told(j, unread', runs') BY <2>2, <2>3, <2>6 DEF Wall
    <3> QED BY <2>1, <2>6, <2>10, <3>1, <3>2 DEF Wall
  <2>7. ASSUME NEW links \in Results, Parsed(links) PROVE SearchInv'
    <3>1. runs \in Seq(Pages) BY DEF TypeOK
    <3>2. PICK r : /\ r.name = Ladder[k] /\ runs' = Append(runs, r)
                   /\ unseen' = unseen \/ (unseen' = unseen \cup {Ladder[k]} /\ r.found = {})
      <4>1. ASSUME NEW found, Gives(found)
            PROVE runs' = Append(runs, [name |-> Ladder[k], found |-> found])
        BY <4>1 DEF Gives
      <4>2. PICK found : /\ Gives(found)
                         /\ \/ unseen' = unseen
                            \/ unseen' = unseen \cup {Ladder[k]} /\ found = {}
        BY <2>7 DEF Parsed
      <4> WITNESS [name |-> Ladder[k], found |-> found]
      <4> QED BY <4>1, <4>2
    <3>3. unread' = unread /\ k' = k + 1 /\ who' = who /\ pc = "ladder" /\ k <= Len(Ladder)
      BY <2>7 DEF Parsed
    <3>4. Ladder[k] \notin unread /\ Ladder[k] \notin unseen BY <2>2, <2>3, <3>3
    <3>5. /\ \A i \in DOMAIN runs' : (i \in DOMAIN runs /\ runs'[i] = runs[i]) \/ runs'[i] = r
          /\ \A i \in DOMAIN runs : i \in DOMAIN runs' /\ runs'[i] = runs[i]
          /\ Len(runs) + 1 \in DOMAIN runs' /\ runs'[Len(runs) + 1] = r
      BY <3>1, <3>2
    <3>6. Known(k', unread', unseen', runs')
      <4>1. unread' \subseteq Before(k') /\ unseen' \subseteq Before(k')
        BY <2>2, <2>3, <3>2, <3>3
      <4>2. ASSUME NEW i \in DOMAIN runs'
            PROVE /\ runs'[i].name \in Before(k') \ unread'
                  /\ runs'[i].name \in unseen' => runs'[i].found = {}
        <5>1. CASE i \in DOMAIN runs /\ runs'[i] = runs[i]
          BY <2>2, <2>3, <3>2, <3>3, <5>1
        <5>2. CASE runs'[i] = r BY <2>2, <3>2, <3>3, <3>4, <5>2
        <5> QED BY <3>5, <5>1, <5>2
      <4> QED BY <4>1, <4>2
    <3>7. \A j \in 1 .. k' - 1 : Told(j, unread', runs')
      <4>1. ASSUME NEW j \in 1 .. k - 1 PROVE Told(j, unread', runs')
        BY <2>3, <3>3, <3>5
      <4>2. Told(k, unread', runs') BY <3>2, <3>5
      <4> HIDE DEF Told
      <4> QED BY <2>2, <3>3, <4>1, <4>2
    <3> HIDE DEF Known, Told
    <3> QED BY <2>7, <2>10, <3>3, <3>6, <3>7 DEF Parsed
  <2>8. CASE Escapes BY <1>1, <2>8 DEF Escapes
  <2>9. CASE Conclude BY <2>9 DEF Conclude
  <2> QED BY <1>3, <2>4, <2>5, <2>6, <2>7, <2>8, <2>9 DEF LadderStep
<1>4. CASE BatchStep
  BY <1>1, <1>2, <1>4 DEF BatchStep, PassOver, Take, AppendState, WriteCheckpoint,
                          RecordFailure, Done
<1>5. CASE SessionStep
  BY <1>1, <1>2, <1>5 DEF SessionStep, Search, Open, Answer, AnswerError, Close
<1>6. CASE PageDies \/ Kill \/ UNCHANGED vars
  BY <1>1, <1>6 DEF PageDies, Kill, vars
<1>7. (\E input \in SUBSET Pensioners : Start(input)) => SearchInv' BY <1>1 DEF Start
<1> QED BY <1>3, <1>4, <1>5, <1>6, <1>7 DEF Next

LEMMA RecordStep ==
  ASSUME TypeOK, RecordInv, [Next]_vars
  PROVE  RecordInv'
<1> USE DEF RecordInv
<1>1. pc' # "record" => RecordInv' OBVIOUS
<1>2. pc' = pc /\ UNCHANGED search => RecordInv'
  BY DEF search, StatusOf, Best
<1>3. ASSUME NEW p \in Pensioners, Begin(p) PROVE RecordInv'
  BY <1>3 DEF Begin, NoRecord
<1>4. CASE LadderStep
  <2> USE DEF AtStrategy, Asked, Onward
  <2>1. CASE Conclude BY <2>1 DEF Conclude, StatusOf, Best
  <2>2. CASE Escapes BY <2>2 DEF Escapes
  <2>3. CASE NoQuery \/ TimesOutOrUnparsed \/ Wall
    BY <2>3 DEF NoQuery, TimesOutOrUnparsed, Wall
  <2>4. ASSUME NEW links \in Results, Parsed(links) PROVE RecordInv' BY <2>4 DEF Parsed
  <2> QED BY <1>4, <2>1, <2>2, <2>3, <2>4 DEF LadderStep
<1>5. CASE BatchStep
  BY <1>1, <1>2, <1>3, <1>5 DEF BatchStep, PassOver, Take, AppendState, WriteCheckpoint,
                                RecordFailure, Done
<1>6. CASE SessionStep
  BY <1>1, <1>3, <1>6 DEF SessionStep, Search, Open, Answer, AnswerError, Close
<1>7. CASE PageDies \/ Kill \/ UNCHANGED vars
  BY <1>1, <1>2, <1>7 DEF PageDies, Kill, vars
<1>8. (\E input \in SUBSET Pensioners : Start(input)) => RecordInv' BY <1>1 DEF Start
<1> QED BY <1>4, <1>5, <1>6, <1>7, <1>8 DEF Next

(* RowTellsTheSearch: whatever pages time out, are walls, cannot be parsed *)
(* or die, and whatever queries fail on a page, "no_results" means every   *)
(* strategy that applies was answered, "captcha" and "error" that a page   *)
(* was not read and nobody was found, and a memorial a page named is lost  *)
(* only to a record full of others no worse (FagSearch).                   *)
THEOREM RowsTellTheSearch == Spec => []RowTellsTheSearch
<1>1. Init => SearchInv /\ RecordInv
  BY DEF Init, SearchInv, RecordInv, AskedSoFar
<1>2. TypeOK /\ SearchInv /\ RecordInv /\ [Next]_vars => SearchInv' /\ RecordInv'
  BY FagSearchAssumption, SearchStep, RecordStep
<1>3. TypeOK /\ SearchInv /\ RecordInv => RowTellsTheSearch
  <2> SUFFICES ASSUME TypeOK, SearchInv, RecordInv, pc = "record"
               PROVE RowTellsTheSearch
    BY DEF RowTellsTheSearch
  <2>1. CASE record.status = "skip" /\ runs = <<>> /\ record.found = <<>>
    BY <2>1 DEF RowTellsTheSearch
  <2>2. ASSUME k > Len(Ladder), NEW kept \in Best(Merge(runs)),
               record = [status |-> StatusOf(Merge(runs)), found |-> Restrict(Merge(runs), kept)]
        PROVE  RowTellsTheSearch
    <3>1. record.status = StatusOf(Merge(runs)) /\ record.found = Restrict(Merge(runs), kept)
      BY <2>2
    <3>2. captcha \in BOOLEAN /\ anyError \in BOOLEAN BY DEF TypeOK
    <3>3. /\ record.status = "no_results" => ~captcha /\ ~anyError /\ DOMAIN Merge(runs) = {}
          /\ record.status \in {"captcha", "error"} =>
               (captcha \/ anyError) /\ DOMAIN Merge(runs) = {}
      BY <3>1, <3>2, StatusFacts DEF StatusOf
    <3>4. ASSUME record.status = "no_results", NEW j \in DOMAIN Ladder,
                 Makes[who][Ladder[j]] = "query"
          PROVE  \E i \in DOMAIN runs : runs[i] = [name |-> Ladder[j], found |-> {}]
      <4>1. j \in 1 .. k - 1
        BY <2>2, FagSearchAssumption, LadderFacts DEF TypeOK
      <4>2. unread = {} BY <3>3, <3>4 DEF SearchInv
      <4>3. PICK i \in DOMAIN runs : runs[i].name = Ladder[j]
        BY <3>4, <4>1, <4>2 DEF SearchInv
      <4>4. runs[i].found = {} BY <3>3, <3>4, MergeFacts
      <4>5. runs \in Seq(Pages) BY DEF TypeOK
      <4>6. runs[i] \in Pages BY <4>5, ElementOf
      <4>7. runs[i] = [name |-> runs[i].name, found |-> runs[i].found] BY <4>6 DEF Pages
      <4> QED BY <4>3, <4>4, <4>7
    <3>5. record.status \in {"captcha", "error"} => unread # {} /\ DOMAIN record.found = {}
      BY <3>1, <3>3, CutFacts DEF SearchInv
    <3>6. ASSUME NEW i \in DOMAIN runs, NEW m \in runs[i].found
          PROVE  \/ m \in DOMAIN record.found /\ runs[i].name \in record.found[m]
                 \/ /\ m \notin DOMAIN record.found
                    /\ Cardinality(DOMAIN record.found) = MaxCandidates
                    /\ \A n \in DOMAIN record.found : ScoreFor[who][n] >= ScoreFor[who][m]
      <4>1. m \in DOMAIN Merge(runs) /\ runs[i].name \in Merge(runs)[m] BY MergeFacts
      <4> QED BY <3>1, <4>1, CutFacts
    <3>7. ASSUME NEW m \in DOMAIN record.found
          PROVE  record.found[m] \cap (unread \cup unseen) = {}
      <4>1. m \in DOMAIN Merge(runs) /\ record.found[m] = Merge(runs)[m] BY <3>1, CutFacts
      <4>2. ASSUME NEW s \in Merge(runs)[m] PROVE s \notin unread /\ s \notin unseen
        <5>1. PICK i \in DOMAIN runs : runs[i].name = s /\ m \in runs[i].found
          BY <4>1, MergeFacts
        <5> QED BY <5>1 DEF SearchInv
      <4> QED BY <4>1, <4>2
    <3> QED BY <3>4, <3>5, <3>6, <3>7 DEF RowTellsTheSearch
  <2> QED BY <2>1, <2>2 DEF RecordInv
<1> QED BY <1>1, <1>2, <1>3, FagSearchTypes, PTL DEF Spec
-----------------------------------------------------------------------------
(* The spouse pass.  A match is a candidate that was looked at and whose   *)
(* page names the husband.                                                 *)
InFile == {Widows[i] : i \in DOMAIN Widows}

IsMatch(w, r) ==
  /\ w \in Spoused /\ r \in Nat /\ r <= TopN /\ r <= Len(Ranked[w])
  /\ Ranked[w][r] # NoMemorial /\ w \in Names[Ranked[w][r]]

SpouseTypes ==
  /\ at \in Nat \ {0} /\ rank \in Nat \ {0}
  /\ passStep \in {"off", "rank", "keep", "write"}
  /\ passStep \in {"keep", "write"} => at <= Len(Widows)
  /\ matched \in [InFile -> Nat] /\ out \in [InFile -> Nat]

MatchInv ==
  \A w \in InFile :
    /\ matched[w] > 0 => IsMatch(w, matched[w])
    /\ out[w] > 0 => IsMatch(w, out[w])

(* The match of a row had its page in the cache when the pass began.       *)
IsCached(w) == matched[w] > 0 /\ Ranked[w][matched[w]] \in loaded

(* Such a row has a match again when it is written, as the candidates      *)
(* before its old match are looked at first and that one can not fail.     *)
PassInv ==
  /\ loaded \subseteq store
  /\ passStep # "off" =>
       \A i \in 1 .. Len(Widows) :
         LET w == Widows[i]
         IN  IsCached(w) =>
               /\ i < at => out[w] \in 1 .. matched[w]
               /\ i = at /\ passStep = "rank" => rank <= matched[w]
               /\ i = at /\ passStep # "rank" => out[w] \in 1 .. matched[w]

LEMMA FileFacts ==
  ASSUME S!SpousePassAssumption
  PROVE  /\ TopN \in Nat \ {0} /\ Len(Widows) \in Nat
         /\ \A i \in 1 .. Len(Widows) : Widows[i] \in InFile
         /\ \A w \in InFile : \E i \in 1 .. Len(Widows) : Widows[i] = w
         /\ Spoused \subseteq InFile
         /\ \A w \in InFile : Len(Ranked[w]) \in Nat
         /\ S!NoMatch = [w \in InFile |-> 0]
<1>1. S!Range(Widows) = InFile BY DEF S!Range, InFile
<1>2. Widows \in Seq(InFile) /\ TopN \in Nat \ {0} /\ Spoused \subseteq InFile
  BY <1>1 DEF S!SpousePassAssumption
<1>3. \A w \in InFile : Ranked[w] \in Seq(S!Range(Ranked[w]))
  BY <1>1 DEF S!SpousePassAssumption
<1>4. S!NoMatch = [w \in InFile |-> 0] BY <1>1 DEF S!NoMatch
<1>5. Len(Widows) \in Nat /\ DOMAIN Widows = 1 .. Len(Widows) BY <1>2
<1> QED BY <1>2, <1>3, <1>4, <1>5 DEF InFile

LEMMA SpouseStarts ==
  ASSUME S!SpousePassAssumption, S!SpouseInit
  PROVE  SpouseTypes /\ MatchInv /\ PassInv
<1>1. matched = [w \in InFile |-> 0] /\ out = [w \in InFile |-> 0]
  BY FileFacts DEF S!SpouseInit
<1> QED BY <1>1 DEF S!SpouseInit, SpouseTypes, MatchInv, PassInv

(* Who is looked at, and what it means that a candidate was left or taken. *)
LEMMA LookedAt ==
  ASSUME S!SpousePassAssumption, SpouseTypes, at <= Len(Widows)
  PROVE  /\ at \in 1 .. Len(Widows) /\ S!Widow = Widows[at] /\ S!Widow \in InFile
         /\ S!Judging /\ S!Memorial # NoMemorial /\ S!Confirms(S!Memorial) =>
              IsMatch(S!Widow, rank)
         /\ \A r : IsMatch(S!Widow, r) /\ rank <= r => ~S!NoneLeft
         /\ IsMatch(S!Widow, rank) =>
              S!Memorial # NoMemorial /\ S!Confirms(S!Memorial)
<1>1. at \in 1 .. Len(Widows) BY FileFacts DEF SpouseTypes
<1>2. S!Widow = Widows[at] /\ S!Widow \in InFile BY <1>1, FileFacts DEF S!Widow
<1>3. TopN \in Nat /\ rank \in Nat /\ Len(Ranked[S!Widow]) \in Nat
  BY <1>2, FileFacts DEF SpouseTypes
<1>4. S!Judging /\ S!Memorial # NoMemorial /\ S!Confirms(S!Memorial) =>
        IsMatch(S!Widow, rank)
  BY <1>3 DEF S!Judging, S!NoneLeft, S!Memorial, S!Confirms, IsMatch
<1>5. ASSUME NEW r, IsMatch(S!Widow, r), rank <= r PROVE ~S!NoneLeft
  <2>1. r \in Nat /\ r <= TopN /\ r <= Len(Ranked[S!Widow]) /\ S!Widow \in Spoused
    BY <1>5 DEF IsMatch
  <2> QED BY <1>3, <1>5, <2>1 DEF S!NoneLeft
<1>6. IsMatch(S!Widow, rank) => S!Memorial # NoMemorial /\ S!Confirms(S!Memorial)
  BY DEF IsMatch, S!Memorial, S!Confirms
<1> QED BY <1>1, <1>2, <1>4, <1>5, <1>6

(* The matches of the file and of the one being written are matches.       *)
LEMMA SpouseTypeStep ==
  ASSUME S!SpousePassAssumption, SpouseTypes, MatchInv, [S!SpouseNext]_S!spouseVars
  PROVE  SpouseTypes' /\ MatchInv'
<1> USE DEF SpouseTypes
<1>1. CASE UNCHANGED S!spouseVars BY <1>1 DEF S!spouseVars, MatchInv, IsMatch
<1>2. CASE S!BeginPass
  <2>1. out' = [w \in InFile |-> 0] /\ matched' = matched BY <1>2, FileFacts DEF S!BeginPass
  <2> QED BY <1>2, <2>1 DEF S!BeginPass, MatchInv, IsMatch
<1>3. ASSUME at <= Len(Widows), IsMatch(S!Widow, rank),
             out' = [out EXCEPT ![S!Widow] = rank], UNCHANGED <<matched, at, rank>>,
             passStep' \in {"write", "keep"}
      PROVE  SpouseTypes' /\ MatchInv'
  <2>1. S!Widow \in InFile BY <1>3, LookedAt
  <2>2. \A w \in InFile : out'[w] = IF w = S!Widow THEN rank ELSE out[w]
    BY <1>3, <2>1
  <2>3. MatchInv' BY <1>3, <2>2 DEF MatchInv, IsMatch
  <2> QED BY <1>3, <2>1, <2>3
<1>4. CASE S!FromCache
  <2>1. at <= Len(Widows) BY <1>4 DEF S!FromCache, S!Judging
  <2>2. CASE rank' = rank + 1 /\ UNCHANGED <<out, passStep>>
    BY <1>4, <2>2 DEF S!FromCache, MatchInv, IsMatch
  <2>3. CASE /\ S!Memorial # NoMemorial /\ S!Hit(S!Memorial)
             /\ out' = [out EXCEPT ![S!Widow] = rank] /\ passStep' = "write"
             /\ UNCHANGED rank
    <3>1. IsMatch(S!Widow, rank) BY <1>4, <2>1, <2>3, LookedAt DEF S!FromCache, S!Hit
    <3> QED BY <1>3, <1>4, <2>1, <2>3, <3>1 DEF S!FromCache
  <2> QED BY <1>4, <2>2, <2>3 DEF S!FromCache
<1>5. CASE S!Scraped
  <2>1. at <= Len(Widows) BY <1>5 DEF S!Scraped, S!Scrapes, S!Judging
  <2>2. CASE S!Confirms(S!Memorial)
    <3>1. IsMatch(S!Widow, rank) BY <1>5, <2>1, <2>2, LookedAt DEF S!Scraped, S!Scrapes
    <3> QED BY <1>3, <1>5, <2>1, <2>2, <3>1 DEF S!Scraped
  <2>3. CASE ~S!Confirms(S!Memorial) BY <1>5, <2>3 DEF S!Scraped, MatchInv, IsMatch
  <2> QED BY <2>2, <2>3
<1>6. CASE S!ScrapeFails BY <1>6 DEF S!ScrapeFails, MatchInv, IsMatch
<1>7. CASE S!Keep BY <1>7 DEF S!Keep, MatchInv, IsMatch
<1>8. CASE S!WriteRow BY <1>8 DEF S!WriteRow, MatchInv, IsMatch
<1>9. CASE S!Replace BY <1>9 DEF S!Replace, MatchInv, IsMatch
<1>10. CASE S!Killed BY <1>10 DEF S!Killed, MatchInv, IsMatch
<1>11. CASE S!GrowsOld BY <1>11 DEF S!GrowsOld, MatchInv, IsMatch
<1> QED BY <1>1, <1>2, <1>4, <1>5, <1>6, <1>7, <1>8, <1>9, <1>10, <1>11 DEF S!SpouseNext

(* A row whose match is cached is not passed by.                           *)
LEMMA PassStep ==
  ASSUME S!SpousePassAssumption, SpouseTypes, MatchInv, PassInv,
         [S!SpouseNext]_S!spouseVars
  PROVE  PassInv'
<1> USE DEF SpouseTypes, PassInv, IsCached
<1> DEFINE Good(i) ==
      LET w == Widows[i]
      IN  IsCached(w) =>
            /\ i < at => out[w] \in 1 .. matched[w]
            /\ i = at /\ passStep = "rank" => rank <= matched[w]
            /\ i = at /\ passStep # "rank" => out[w] \in 1 .. matched[w]
<1>0. ASSUME NEW i \in 1 .. Len(Widows)
      PROVE  Widows[i] \in InFile /\ matched[Widows[i]] \in Nat /\ i \in Nat
             /\ (matched[Widows[i]] > 0 => IsMatch(Widows[i], matched[Widows[i]]))
  BY FileFacts DEF MatchInv
<1>1. CASE UNCHANGED S!spouseVars BY <1>1 DEF S!spouseVars
<1>2. CASE S!BeginPass
  <2>1. \A i \in 1 .. Len(Widows) : IsCached(Widows[i]) => 1 <= matched[Widows[i]]
    BY <1>0
  <2> QED BY <1>2, <2>1, <1>0 DEF S!BeginPass
<1>3. passStep' = "off" /\ loaded' = loaded /\ store' = store => PassInv' OBVIOUS
<1>4. ASSUME at <= Len(Widows), passStep = "rank", IsMatch(S!Widow, rank),
             out' = [out EXCEPT ![S!Widow] = rank],
             UNCHANGED <<matched, at, rank, loaded, store>>,
             passStep' \in {"write", "keep"}
      PROVE  PassInv'
  <2>1. at \in 1 .. Len(Widows) /\ S!Widow = Widows[at] /\ S!Widow \in InFile
    BY <1>4, LookedAt
  <2>2. ASSUME NEW i \in 1 .. Len(Widows) PROVE Good(i)'
    <3>1. CASE Widows[i] = S!Widow
      <4>1. out'[Widows[i]] = rank BY <1>4, <2>1, <3>1
      <4>2. IsCached(S!Widow) => rank <= matched[S!Widow] BY <1>4, <2>1
      <4> QED BY <1>0, <1>4, <3>1, <4>1, <4>2
    <3>2. CASE Widows[i] # S!Widow
      <4>1. out'[Widows[i]] = out[Widows[i]] BY <1>0, <1>4, <3>2
      <4> QED BY <1>0, <1>4, <2>1, <3>2, <4>1
    <3> QED BY <3>1, <3>2
  <2> QED BY <1>4, <2>2
<1>5. ASSUME at <= Len(Widows), passStep = "rank",
             ~(IsCached(S!Widow) /\ rank = matched[S!Widow]),
             rank' = rank + 1, UNCHANGED <<matched, out, at, passStep, loaded, store>>
      PROVE  PassInv'
  <2>1. at \in 1 .. Len(Widows) /\ S!Widow = Widows[at] /\ S!Widow \in InFile
    BY <1>5, LookedAt
  <2>2. IsCached(S!Widow) => rank + 1 <= matched[S!Widow]
    BY <1>0, <1>5, <2>1
  <2> QED BY <1>0, <1>5, <2>1, <2>2
<1>6. ASSUME at <= Len(Widows), passStep = "rank", IsCached(S!Widow), rank = matched[S!Widow]
      PROVE  S!Memorial # NoMemorial /\ S!Hit(S!Memorial)
  <2>1. at \in 1 .. Len(Widows) /\ S!Widow = Widows[at] /\ S!Widow \in InFile
    BY <1>6, LookedAt
  <2>2. IsMatch(S!Widow, rank) BY <1>0, <1>6, <2>1
  <2>3. S!Memorial # NoMemorial /\ S!Confirms(S!Memorial) BY <1>6, <2>2, LookedAt
  <2>4. S!Memorial \in store BY <1>6 DEF S!Memorial
  <2> QED BY <2>3, <2>4 DEF S!Hit
<1>7. CASE S!FromCache
  <2>1. at <= Len(Widows) /\ passStep = "rank" BY <1>7 DEF S!FromCache, S!Judging
  <2>2. CASE S!Memorial = NoMemorial /\ rank' = rank + 1 /\ UNCHANGED <<out, passStep>>
    BY <1>5, <1>6, <1>7, <2>1, <2>2 DEF S!FromCache
  <2>3. CASE /\ S!Memorial # NoMemorial /\ S!Hit(S!Memorial)
             /\ out' = [out EXCEPT ![S!Widow] = rank] /\ passStep' = "write"
             /\ UNCHANGED rank
    <3>1. IsMatch(S!Widow, rank) BY <1>7, <2>1, <2>3, LookedAt DEF S!FromCache, S!Hit
    <3> QED BY <1>4, <1>7, <2>1, <2>3, <3>1 DEF S!FromCache
  <2> QED BY <1>7, <2>2, <2>3 DEF S!FromCache
<1>8. CASE S!Scraped
  <2>1. at <= Len(Widows) /\ passStep = "rank" BY <1>8 DEF S!Scraped, S!Scrapes, S!Judging
  <2>2. CASE S!Confirms(S!Memorial)
    <3>1. IsMatch(S!Widow, rank) BY <1>8, <2>1, <2>2, LookedAt DEF S!Scraped, S!Scrapes
    <3> QED BY <1>4, <1>8, <2>1, <2>2, <3>1 DEF S!Scraped
  <2>3. CASE ~S!Confirms(S!Memorial)
    BY <1>5, <1>6, <1>8, <2>1, <2>3 DEF S!Scraped, S!Scrapes
  <2> QED BY <2>2, <2>3
<1>9. CASE S!ScrapeFails
  <2>1. at <= Len(Widows) /\ passStep = "rank"
    BY <1>9 DEF S!ScrapeFails, S!Scrapes, S!Judging
  <2> QED BY <1>5, <1>6, <1>9, <2>1 DEF S!ScrapeFails, S!Scrapes
<1>10. CASE S!Keep
  <2>1. loaded' \subseteq store' BY <1>10 DEF S!Keep
  <2> QED BY <1>10, <2>1 DEF S!Keep
<1>11. CASE S!WriteRow
  <2>1. at <= Len(Widows) BY <1>11 DEF S!WriteRow
  <2>2. at \in 1 .. Len(Widows) /\ S!Widow = Widows[at] /\ S!Widow \in InFile
    BY <2>1, LookedAt
  <2>3. IsCached(S!Widow) => out[S!Widow] \in 1 .. matched[S!Widow]
    <3>1. CASE passStep = "write" BY <2>2, <3>1
    <3>2. CASE passStep = "rank" /\ S!NoneLeft
      <4>1. IsCached(S!Widow) => rank <= matched[S!Widow] BY <2>2, <3>2
      <4>2. IsCached(S!Widow) => IsMatch(S!Widow, matched[S!Widow]) BY <1>0, <2>2
      <4> QED BY <2>1, <3>2, <4>1, <4>2, LookedAt
    <3> QED BY <1>11, <3>1, <3>2 DEF S!WriteRow
  <2>4. ASSUME NEW i \in 1 .. Len(Widows) PROVE Good(i)'
    <3>1. i < at + 1 => i < at \/ i = at BY <1>0
    <3>2. IsCached(Widows[i]) /\ i < at + 1 => out[Widows[i]] \in 1 .. matched[Widows[i]]
      BY <2>2, <2>3, <3>1, <1>11 DEF S!WriteRow
    <3>3. IsCached(Widows[i]) => 1 <= matched[Widows[i]] BY <1>0
    <3> QED BY <1>11, <3>2, <3>3 DEF S!WriteRow
  <2> QED BY <1>11, <2>4 DEF S!WriteRow
<1>12. CASE S!Replace BY <1>3, <1>12 DEF S!Replace
<1>13. CASE S!Killed BY <1>3, <1>13 DEF S!Killed
<1>14. CASE S!GrowsOld BY <1>14 DEF S!GrowsOld
<1> QED BY <1>1, <1>2, <1>7, <1>8, <1>9, <1>10, <1>11, <1>12, <1>13, <1>14 DEF S!SpouseNext

(* CachedMatchesStand: repeating the spouse pass, whatever pages fail and  *)
(* whenever it is killed, costs no match whose page was in the cache when  *)
(* the pass began (spouse_compare.py).                                     *)
THEOREM MatchesStand == S!SpouseSpec => CachedMatchesStand
<1> DEFINE Inv == SpouseTypes /\ MatchInv /\ PassInv
           Stand == \A w \in DOMAIN matched :
                      matched[w] > 0 /\ Ranked[w][matched[w]] \in loaded
                        => matched'[w] \in 1 .. matched[w]
<1>1. S!SpouseInit => Inv BY BrowseAssumption, SpouseStarts
<1>2. Inv /\ [S!SpouseNext]_S!spouseVars => Inv'
  BY BrowseAssumption, SpouseTypeStep, PassStep
<1>3. Inv /\ [S!SpouseNext]_S!spouseVars => [Stand]_S!spouseVars
  <2> SUFFICES ASSUME Inv, S!SpouseNext, NEW w \in DOMAIN matched, IsCached(w)
               PROVE  matched'[w] \in 1 .. matched[w]
    BY DEF IsCached
  <2>1. w \in InFile /\ matched[w] \in 1 .. matched[w]
    BY DEF SpouseTypes, IsCached
  <2>2. matched' = matched \/ S!Replace
    BY DEF S!SpouseNext, S!BeginPass, S!FromCache, S!Scraped, S!ScrapeFails, S!Keep,
           S!WriteRow, S!Killed, S!GrowsOld
  <2>3. CASE S!Replace
    <3>1. PICK i \in 1 .. Len(Widows) : Widows[i] = w BY <2>1, BrowseAssumption, FileFacts
    <3>2. i < at BY <2>3, BrowseAssumption, FileFacts DEF S!Replace, SpouseTypes
    <3>3. out[w] \in 1 .. matched[w] BY <2>3, <3>1, <3>2 DEF S!Replace, PassInv
    <3> QED BY <2>3, <3>3 DEF S!Replace
  <2> QED BY <2>1, <2>2, <2>3
<1> QED BY <1>1, <1>2, <1>3, PTL
  DEF S!SpouseSpec, S!CachedMatchesStand, CachedMatchesStand
-----------------------------------------------------------------------------
(* The passes behind a run.                                                *)
PostSteps == {"down", "loop", "dd", "spouse", "enrichment", "sidecar", "pages", "view"}

PostTypes ==
  /\ postStep \in PostSteps
  /\ postRuns \in Nat
  /\ index \subseteq Applicants
  /\ DOMAIN rows \subseteq Applicants
  /\ rows = [p \in DOMAIN rows |-> rows[p]]
  /\ \A p \in DOMAIN rows :
       rows[p] \in [cgr : BOOLEAN, dd : BOOLEAN, spouse : BOOLEAN, pages : BOOLEAN]

PostFlags == came \in BOOLEAN /\ missed \in BOOLEAN /\ only \in BOOLEAN

(* The page there is while a run goes on is of an earlier run.             *)
PageInv ==
  view # NoFile =>
    /\ view.run \in Nat /\ view.run <= postRuns
    /\ postStep # "down" => view.run < postRuns

(* The matches due are where the passes that are through carried them.     *)
Due == index \cap DOMAIN rows
DueSeen == Due \subseteq P!Seen("dd")
DueInRows == \A p \in Due : rows[p].dd = TRUE
DueInSidecar == Due # {} => sidecar # NoFile /\ Due \subseteq sidecar

CarriedInv ==
  /\ came = FALSE \/ postStep = "down"
  /\ only = FALSE \/ postStep \in {"pages", "view", "down"}
  /\ only = FALSE /\ missed = FALSE =>
       /\ postStep \in {"spouse", "enrichment", "sidecar"} => DueSeen
       /\ postStep \in {"sidecar", "pages", "view"} => DueInRows
       /\ postStep \in {"pages", "view"} => DueInSidecar

LEMMA PostTypeStep ==
  ASSUME P!PostPassAssumption, PostTypes, [P!PostNext]_P!postVars
  PROVE  PostTypes'
<1> USE DEF PostTypes, PostSteps, P!disk, P!setup, P!counts, P!Held
<1> DEFINE Carried ==
      [cgr : BOOLEAN, dd : BOOLEAN, spouse : BOOLEAN, pages : BOOLEAN]
<1>1. CASE UNCHANGED P!postVars BY <1>1 DEF P!postVars
<1>2. ASSUME NEW ids \in Indexes, P!BeginRun(ids) PROVE PostTypes'
  BY <1>2 DEF P!BeginRun, P!PostPassAssumption
<1>3. ASSUME NEW p \in Applicants, P!WriteRow(p) PROVE PostTypes'
  <2>1. [P!Bare EXCEPT !.pages = caches.operator # NoFile /\ p \in caches.operator]
          \in Carried
    BY DEF P!Bare
  <2>2. \A q \in DOMAIN rows' : rows'[q] \in Carried BY <1>3, <2>1 DEF P!WriteRow
  <2> QED BY <1>3, <2>2 DEF P!WriteRow
<1>4. CASE P!EndLoop BY <1>4 DEF P!EndLoop, P!Pass, P!PostPasses
<1>5. CASE P!MatchDixieData BY <1>5 DEF P!MatchDixieData, P!Pass, P!PostPasses
<1>6. CASE P!MatchSpouses BY <1>6 DEF P!MatchSpouses, P!Pass, P!PostPasses
<1>7. CASE P!EnrichRows
  <2>1. \A p \in DOMAIN rows : P!Stamped[p] \in Carried BY DEF P!Stamped
  <2>2. DOMAIN P!Stamped = DOMAIN rows /\ P!Stamped = [p \in DOMAIN rows |-> P!Stamped[p]]
    BY DEF P!Stamped
  <2> QED BY <1>7, <2>1, <2>2 DEF P!EnrichRows, P!Pass, P!PostPasses
<1>8. CASE P!WriteSidecar BY <1>8 DEF P!WriteSidecar, P!Pass, P!PostPasses
<1>9. CASE P!AddPages
  <2>1. \A p \in DOMAIN rows' : rows'[p] \in Carried BY <1>9 DEF P!AddPages
  <2> QED BY <1>9, <2>1 DEF P!AddPages, P!Pass, P!PostPasses
<1>10. CASE P!CopyView BY <1>10 DEF P!CopyView, P!Pass, P!PostPasses
<1>11. CASE P!PostProcessOnly BY <1>11 DEF P!PostProcessOnly
<1>12. CASE P!Killed BY <1>12 DEF P!Killed
<1> QED
  BY <1>1, <1>2, <1>3, <1>4, <1>5, <1>6, <1>7, <1>8, <1>9, <1>10, <1>11, <1>12
  DEF P!PostNext

LEMMA FlagStep ==
  ASSUME PostFlags, [P!PostNext]_P!postVars
  PROVE  PostFlags'
<1> USE DEF PostFlags, P!setup
<1>1. CASE UNCHANGED P!postVars BY <1>1 DEF P!postVars
<1>2. ASSUME NEW ids \in Indexes, P!BeginRun(ids) PROVE PostFlags'
  BY <1>2, Zenon DEF P!BeginRun
<1>3. ASSUME NEW p \in Applicants, P!WriteRow(p) PROVE PostFlags' BY <1>3 DEF P!WriteRow
<1>4. CASE P!EndLoop \/ P!MatchSpouses \/ P!AddPages \/ P!Killed
  BY <1>4 DEF P!EndLoop, P!MatchSpouses, P!AddPages, P!Killed
<1>5. CASE P!MatchDixieData \/ P!EnrichRows \/ P!WriteSidecar
  <2>1. came' = came /\ only' = only
    BY <1>5 DEF P!MatchDixieData, P!EnrichRows, P!WriteSidecar
  <2>2. missed' = TRUE \/ missed' = missed
    BY <1>5 DEF P!MatchDixieData, P!EnrichRows, P!WriteSidecar, P!Fail, P!Fine
  <2> QED BY <2>1, <2>2, Zenon
<1>6. CASE P!CopyView
  <2>1. came' = ~only /\ only' = only /\ missed' = missed BY <1>6 DEF P!CopyView
  <2> QED BY <2>1, Zenon
<1>7. CASE P!PostProcessOnly
  <2>1. only' = TRUE /\ came' = FALSE /\ missed' = missed BY <1>7 DEF P!PostProcessOnly
  <2> QED BY <2>1, Zenon
<1> QED BY <1>1, <1>2, <1>3, <1>4, <1>5, <1>6, <1>7 DEF P!PostNext

LEMMA PageStep ==
  ASSUME PostTypes, PageInv, [P!PostNext]_P!postVars
  PROVE  PageInv'
<1> USE DEF PostTypes, PostSteps, PageInv, P!disk, P!setup, P!counts
<1>1. CASE UNCHANGED P!postVars BY <1>1 DEF P!postVars
<1>2. ASSUME NEW ids \in Indexes, P!BeginRun(ids) PROVE PageInv' BY <1>2 DEF P!BeginRun
<1>3. ASSUME NEW p \in Applicants, P!WriteRow(p) PROVE PageInv' BY <1>3 DEF P!WriteRow
<1>4. CASE P!CopyView
  <2>1. P!PageOfRows.run = postRuns BY DEF P!PageOfRows
  <2>2. view' = P!PageOfRows \/ view' = view BY <1>4 DEF P!CopyView
  <2>3. postStep' = "down" /\ postRuns' = postRuns
    BY <1>4 DEF P!CopyView, P!Pass, P!PostPasses
  <2> QED BY <2>1, <2>2, <2>3
<1>5. CASE P!PostProcessOnly BY <1>5 DEF P!PostProcessOnly
<1>6. CASE P!Killed
  <2> DEFINE cut == [P!PageOfRows EXCEPT !.rows = <<>>, !.dd = NoFile]
  <2>1. cut.run = postRuns BY DEF P!PageOfRows
  <2>2. view' = view \/ view' = NoFile \/ view' = cut BY <1>6 DEF P!Killed
  <2> HIDE DEF cut
  <2>3. postStep' = "down" /\ postRuns' = postRuns BY <1>6 DEF P!Killed
  <2> QED BY <2>1, <2>2, <2>3
<1>7. CASE \/ P!EndLoop \/ P!MatchDixieData \/ P!MatchSpouses \/ P!EnrichRows
           \/ P!WriteSidecar \/ P!AddPages
  BY <1>7 DEF P!EndLoop, P!MatchDixieData, P!MatchSpouses, P!EnrichRows, P!WriteSidecar,
              P!AddPages, P!Pass
<1> HIDE DEF PageInv, PostTypes
<1> QED BY <1>1, <1>2, <1>3, <1>4, <1>5, <1>6, <1>7 DEF P!PostNext

LEMMA CarriedStep ==
  ASSUME P!PostPassAssumption, PostTypes, PostFlags, CarriedInv, [P!PostNext]_P!postVars
  PROVE  CarriedInv'
<1> USE DEF PostTypes, PostSteps, CarriedInv, P!disk, P!setup, P!counts, P!Fail, P!Fine
<1>1. CASE UNCHANGED P!postVars
  BY <1>1 DEF P!postVars, Due, DueSeen, DueInRows, DueInSidecar, P!Seen
<1>2. ASSUME NEW ids \in Indexes, P!BeginRun(ids) PROVE CarriedInv' BY <1>2 DEF P!BeginRun
<1>3. ASSUME NEW p \in Applicants, P!WriteRow(p) PROVE CarriedInv' BY <1>3 DEF P!WriteRow
<1>4. CASE P!EndLoop BY <1>4 DEF P!EndLoop, P!Pass, P!PostPasses
<1>5. CASE P!MatchDixieData
  <2>1. obs' = obs \cup P!Observed("dd", Due) => DueSeen'
    BY <1>5 DEF P!MatchDixieData, P!Observed, P!Seen, Due, DueSeen
  <2>2. missed' = FALSE => obs' = obs \cup P!Observed("dd", Due)
    BY <1>5 DEF P!MatchDixieData, Due, P!Held
  <2> QED BY <1>5, <2>1, <2>2 DEF P!MatchDixieData, P!Pass, P!PostPasses
<1>6. CASE P!MatchSpouses
  <2>1. obs \subseteq obs' BY <1>6 DEF P!MatchSpouses
  <2>2. DueSeen => DueSeen'
    BY <1>6, <2>1 DEF P!MatchSpouses, DueSeen, Due, P!Seen
  <2> QED BY <1>6, <2>2 DEF P!MatchSpouses, P!Pass, P!PostPasses
<1>7. CASE P!EnrichRows
  <2>1. DueSeen /\ rows' = P!Stamped => DueSeen' /\ DueInRows'
    BY <1>7 DEF P!EnrichRows, P!Stamped, P!Held, DueSeen, DueInRows, Due, P!Seen
  <2>2. missed' = FALSE => rows' = P!Stamped /\ missed = FALSE /\ postStep' = "sidecar"
    BY <1>7 DEF P!EnrichRows, P!Pass, P!PostPasses
  <2> QED BY <1>7, <2>1, <2>2 DEF P!EnrichRows, P!Pass
<1>8. CASE P!WriteSidecar
  <2>1. missed' = FALSE =>
          missed = FALSE /\ sidecar' = IF P!Seen("dd") = {} THEN sidecar ELSE P!Seen("dd")
    BY <1>8 DEF P!WriteSidecar
  <2>2. DueInRows => DueInRows' BY <1>8 DEF P!WriteSidecar, DueInRows, Due
  <2>3. DueSeen /\ sidecar' = (IF P!Seen("dd") = {} THEN sidecar ELSE P!Seen("dd"))
          => DueInSidecar'
    <3>1. P!Seen("dd") # NoFile BY DEF P!Seen, P!PostPassAssumption
    <3> QED BY <1>8, <3>1 DEF P!WriteSidecar, DueSeen, DueInSidecar, Due
  <2> QED BY <1>8, <2>1, <2>2, <2>3 DEF P!WriteSidecar, P!Pass, P!PostPasses
<1>9. CASE P!AddPages
  <2>1. DueInRows => DueInRows' BY <1>9 DEF P!AddPages, P!Held, DueInRows, Due
  <2>2. DueInSidecar => DueInSidecar' BY <1>9 DEF P!AddPages, P!Held, DueInSidecar, Due
  <2> QED BY <1>9, <2>1, <2>2 DEF P!AddPages, P!Pass, P!PostPasses
<1>10. CASE P!CopyView BY <1>10 DEF P!CopyView, P!Pass, P!PostPasses
<1>11. CASE P!PostProcessOnly BY <1>11 DEF P!PostProcessOnly
<1>12. CASE P!Killed BY <1>12 DEF P!Killed
<1> QED
  BY <1>1, <1>2, <1>3, <1>4, <1>5, <1>6, <1>7, <1>8, <1>9, <1>10, <1>11, <1>12
  DEF P!PostNext

(* Once the passes are through nothing changes until the next run begins.  *)
LEMMA ReachStep ==
  ASSUME PostTypes, PostFlags, PageInv, CarriedInv, P!MatchesReachEverything,
         [P!PostNext]_P!postVars
  PROVE  P!MatchesReachEverything'
<1> USE DEF P!MatchesReachEverything, P!disk, P!setup, P!counts, P!Held
<1>1. CASE UNCHANGED P!postVars BY <1>1 DEF P!postVars
<1>2. CASE P!CopyView
  <2> SUFFICES ASSUME came', ~missed' PROVE P!MatchesReachEverything' OBVIOUS
  <2>1. only = FALSE /\ missed = FALSE /\ postStep = "view"
    BY <1>2 DEF P!CopyView, P!Pass, PostFlags
  <2>2. DueInRows /\ DueInSidecar BY <2>1 DEF CarriedInv
  <2>3. view'.run = postRuns' =>
          view' = [rows |-> IF "rows" \in source THEN rows ELSE NoFile,
                   dd |-> IF "matches" \in source THEN sidecar ELSE NoFile,
                   run |-> postRuns]
    BY <1>2, <2>1 DEF P!CopyView, P!PageOfRows, PageInv
  <2> QED BY <1>2, <2>2, <2>3 DEF P!CopyView, DueInRows, DueInSidecar, Due
<1>3. CASE ~P!CopyView /\ P!PostNext
  <2>1. came' = FALSE
    BY <1>3 DEF P!PostNext, P!BeginRun, P!WriteRow, P!EndLoop, P!MatchDixieData,
      P!MatchSpouses, P!EnrichRows, P!WriteSidecar, P!AddPages, P!PostProcessOnly,
      P!Killed, P!Pass, CarriedInv, PostTypes
  <2> QED BY <2>1
<1> QED BY <1>1, <1>2, <1>3

(* MatchesReachEverything: a run that came through its passes without a    *)
(* warning carried every match of its index into the row, the sidecar and  *)
(* its page, if that has a place for them (run_unified.py,                 *)
(* scripts/post_pass).                                                     *)
THEOREM MatchesReach == P!PostSpec => []MatchesReachEverything
<1> DEFINE Inv == PostTypes /\ PostFlags /\ PageInv /\ CarriedInv /\ P!MatchesReachEverything
<1>1. P!PostInit => Inv
  <2>1. P!PostInit => PostFlags BY Zenon DEF P!PostInit, PostFlags
  <2> QED
    BY <2>1 DEF P!PostInit, PostTypes, PostSteps, PageInv, CarriedInv,
                P!MatchesReachEverything
<1>2. Inv /\ [P!PostNext]_P!postVars => Inv'
  BY BrowseAssumption, PostTypeStep, FlagStep, PageStep, CarriedStep, ReachStep
<1> QED BY <1>1, <1>2, PTL DEF P!PostSpec, MatchesReachEverything
-----------------------------------------------------------------------------
(* The recipe of a run.  A recipe has its keys, and a version and range    *)
(* that make sense.                                                        *)
Shaped(r) ==
  /\ r = [version |-> r.version, runname |-> r.runname, start |-> r.start,
          end |-> r.end, throttle |-> r.throttle, relax |-> r.relax,
          filter |-> r.filter, modules |-> r.modules, mode |-> r.mode,
          refinements |-> r.refinements]
  /\ r.version \in {1, 2} /\ r.start \in Nat /\ r.end \in Nat \cup {C!Unset}

RecipeTypes ==
  /\ Shaped(edited) /\ Shaped(config.recipe)
  /\ config.kind \in {"absent", "torn", "whole"}
  /\ recipeSpent.starts \in Nat
  /\ recipeSpent = [starts |-> recipeSpent.starts, stops |-> recipeSpent.stops]
  /\ moded \in BOOLEAN /\ plain \in BOOLEAN /\ finished \in BOOLEAN
  /\ run # C!Off =>
       /\ {"at", "recipe", "todo"} \subseteq DOMAIN run
       /\ Shaped(run.recipe)

(* Before its first start a run has done nothing.                          *)
FreshInv ==
  /\ config.kind = "absent" => recipeSpent.starts = 0
  /\ recipeSpent.starts = 0 => run = C!Off /\ done = {} /\ finished = FALSE

(* A recipe that stands for the one the operator wrote.                    *)
Stands(r) ==
  /\ C!Says(r) = C!Says(edited)
  /\ moded = FALSE /\ edited.version = 2 => r.mode = edited.mode

RecipeInv ==
  /\ config.kind = "whole" =>
       /\ Stands(config.recipe)
       /\ config.recipe.version = 1 => edited.version = 1
  /\ run # C!Off => Stands(run.recipe) /\ run.recipe.version = 2

(* What is done, what was passed over and what a run still means to do     *)
(* make up the range, each row once.                                       *)
Doing == {t.row : t \in run.todo}
OneEach == \A t, u \in run.todo : t.row = u.row => t = u

RangeInv ==
  plain = TRUE =>
    /\ done \subseteq C!Asked(edited)
    /\ run # C!Off =>
         /\ OneEach /\ deferred \subseteq C!Asked(edited) \ done
         /\ Doing = (C!Asked(edited) \ done) \ deferred
    /\ finished = TRUE => C!Asked(edited) \ done = deferred

LEMMA TemplateFacts ==
  /\ Shaped(C!Template) /\ C!Template.version = 2
  /\ C!Template.end = C!Unset /\ C!Template.relax = FALSE
  /\ C!Template.modules = C!DefaultModules
BY DEF C!Template, Shaped, C!DefaultInputs, C!DefaultEngine, C!DefaultMode, C!Unset

LEMMA EditFacts ==
  ASSUME C!RecipeAssumption, NEW r \in Edits
  PROVE  Shaped(r)
<1>1. r \in C!Recipes BY DEF C!RecipeAssumption
<1> QED BY <1>1 DEF C!Recipes, Shaped

(* Loading keeps what a recipe says, and completes one of version 1.       *)
LEMMA LoadFacts ==
  ASSUME Shaped(config.recipe)
  PROVE  /\ Shaped(C!Loaded) /\ C!Loaded.version = 2
         /\ C!Says(C!Loaded) = C!Says(config.recipe)
         /\ config.recipe.version = 2 => C!Loaded.mode = config.recipe.mode
<1> DEFINE r == config.recipe
<1>1. CASE r.version = 1
  <2>1. C!Loaded = [C!Template EXCEPT !.runname = r.runname, !.start = r.start,
                      !.end = r.end, !.throttle = r.throttle, !.filter = r.filter]
    BY <1>1 DEF C!Loaded, C!Upgraded
  <2>2. /\ Shaped(C!Loaded)
        /\ C!Loaded.version = 2 /\ C!Loaded.relax = FALSE
        /\ C!Loaded.modules = C!DefaultModules
        /\ C!Loaded.start = r.start /\ C!Loaded.end = r.end
        /\ C!Loaded.throttle = r.throttle /\ C!Loaded.filter = r.filter
    BY <2>1, TemplateFacts DEF Shaped
  <2>3. C!Says(C!Loaded) = C!Says(r) BY <1>1, <2>2 DEF C!Says
  <2> QED BY <1>1, <2>2, <2>3
<1>2. CASE r.version # 1
  <2>1. r.version = 2 BY <1>2 DEF Shaped
  <2>2. C!Loaded = [r EXCEPT !.refinements = C!Refinements(r)] BY <1>2 DEF C!Loaded
  <2>3. /\ Shaped(C!Loaded)
        /\ C!Loaded.version = 2 /\ C!Loaded.relax = r.relax
        /\ C!Loaded.modules = r.modules /\ C!Loaded.mode = r.mode
        /\ C!Loaded.start = r.start /\ C!Loaded.end = r.end
        /\ C!Loaded.throttle = r.throttle /\ C!Loaded.filter = r.filter
    BY <2>1, <2>2 DEF Shaped
  <2>4. C!Says(C!Loaded) = C!Says(r) BY <2>1, <2>3 DEF C!Says
  <2> QED BY <2>3, <2>4
<1> QED BY <1>1, <1>2

LEMMA ModeFacts ==
  ASSUME NEW r, Shaped(r), NEW args
  PROVE  /\ Shaped(C!WithMode(r, args))
         /\ C!WithMode(r, args).version = r.version
         /\ C!Says(C!WithMode(r, args)) = C!Says(r)
         /\ args.mode = "unset" => C!WithMode(r, args) = r
<1>1. CASE args.mode = "unset" BY <1>1 DEF C!WithMode
<1>2. CASE args.mode # "unset"
  <2> DEFINE s == C!WithMode(r, args)
  <2>1. s = [r EXCEPT !.mode = args.mode, !.refinements = Preset[args.mode]]
    BY <1>2 DEF C!WithMode
  <2>2. /\ Shaped(s) /\ s.version = r.version /\ s.relax = r.relax
        /\ s.modules = r.modules /\ s.start = r.start /\ s.end = r.end
        /\ s.throttle = r.throttle /\ s.filter = r.filter
    BY <2>1 DEF Shaped
  <2>3. C!Says(s) = C!Says(r) BY <2>2 DEF C!Says
  <2> QED BY <1>2, <2>2, <2>3
<1> QED BY <1>1, <1>2

(* Without overrides the rows to do are those of the range not yet done.   *)
LEMMA RangeFacts ==
  ASSUME C!RecipeAssumption, NEW r, Shaped(r), NEW args, C!IsPlain(args),
         NEW order \in C!Orders(args)
  PROVE  /\ {t.row : t \in C!ToDo(order, r, args)} = C!Asked(r) \ done
         /\ \A t, u \in C!ToDo(order, r, args) : t.row = u.row => t = u
<1>1. /\ r.start \in Nat /\ r.end \in Nat \cup {-1} /\ Length \in Nat
      /\ args.start = 0 /\ args.limit = -1
  BY DEF Shaped, C!IsPlain, C!Unset, C!RecipeAssumption
<1>2. order = [n \in 1 .. Length |-> n - 1] BY DEF C!Orders, C!IsPlain
<1>3. C!StartFrom(r, args) = r.start BY <1>1 DEF C!StartFrom
<1>4. C!Limit(r, args) = IF r.end > r.start THEN r.end - r.start ELSE -1
  BY <1>1 DEF C!Limit, C!Unset
<1> DEFINE B == C!Bounded(C!StartFrom(r, args) + 1, C!Limit(r, args))
<1>5. \A j : j \in B <=> j \in 1 .. Length /\ j - 1 \in C!Asked(r)
  BY <1>1, <1>3, <1>4 DEF C!Bounded, C!Asked, C!Unset
<1>6. \A t \in C!ToDo(order, r, args) :
        t.row \in C!Asked(r) \ done /\ t = [place |-> t.row + 1, row |-> t.row]
  BY <1>1, <1>2, <1>5 DEF C!ToDo
<1>7. ASSUME NEW n \in C!Asked(r) \ done
      PROVE  [place |-> n + 1, row |-> n] \in C!ToDo(order, r, args)
  <2>1. n \in 0 .. Length - 1 BY DEF C!Asked
  <2>2. n + 1 \in 1 .. Length /\ (n + 1) - 1 = n BY <1>1, <2>1
  <2>3. n + 1 \in B BY <1>5, <2>2
  <2>4. order[n + 1] = n BY <1>2, <2>2
  <2> QED BY <2>3, <2>4 DEF C!ToDo
<1>8. ASSUME NEW n \in C!Asked(r) \ done
      PROVE  n \in {t.row : t \in C!ToDo(order, r, args)}
  <2>1. PICK t \in C!ToDo(order, r, args) : t.row = n BY <1>7
  <2> QED BY <2>1
<1>9. \A t, u \in C!ToDo(order, r, args) : t.row = u.row => t = u BY <1>6
<1> QED BY <1>6, <1>8, <1>9

(* A start of the program: what it takes from the recipe.                  *)
LEMMA Launches ==
  ASSUME C!RecipeAssumption, RecipeTypes, FreshInv, RecipeInv, RangeInv,
         NEW args, C!Launch(args)
  PROVE  RecipeTypes' /\ FreshInv' /\ RecipeInv' /\ RangeInv'
<1>1. PICK order \in C!Orders(args) :
        run' = [at |-> "scripts", recipe |-> C!WithMode(C!Loaded, args),
                mode |-> IF args.mode = "unset" THEN C!Loaded.mode ELSE args.mode,
                filter |-> C!Filter(C!Loaded, args),
                throttle |-> C!Throttle(C!Loaded, args),
                relax |-> args.relax \/ C!Loaded.relax,
                todo |-> C!ToDo(order, C!Loaded, args)]
  BY DEF C!Launch
<1>2. /\ {"at", "recipe", "todo"} \subseteq DOMAIN run'
      /\ run'.recipe = C!WithMode(C!Loaded, args)
      /\ run'.todo = C!ToDo(order, C!Loaded, args)
  BY <1>1
<1>3. /\ config' = config /\ done' = done /\ edited' = edited /\ finished' = FALSE
      /\ deferred' = {}
      /\ recipeSpent' = [recipeSpent EXCEPT !.starts = @ + 1]
      /\ plain' = (plain /\ C!IsPlain(args))
      /\ moded' = (moded \/ args.mode # "unset")
      /\ C!Loads
  BY DEF C!Launch
<1>4. config.kind = "whole" /\ Shaped(config.recipe) BY <1>3 DEF C!Loads, RecipeTypes
<1>5. /\ Shaped(C!Loaded) /\ C!Loaded.version = 2
      /\ C!Says(C!Loaded) = C!Says(edited)
      /\ config.recipe.version = 2 => C!Loaded.mode = config.recipe.mode
  BY <1>3, <1>4, LoadFacts DEF RecipeInv, Stands
<1>6. /\ Shaped(run'.recipe) /\ run'.recipe.version = 2
      /\ C!Says(run'.recipe) = C!Says(edited)
      /\ args.mode = "unset" => run'.recipe.mode = C!Loaded.mode
  BY <1>2, <1>5, ModeFacts
<1>7. recipeSpent'.starts = recipeSpent.starts + 1
      /\ recipeSpent' = [starts |-> recipeSpent'.starts, stops |-> recipeSpent'.stops]
  BY <1>3 DEF RecipeTypes
<1>8. RecipeTypes'
  <2>1. moded' \in BOOLEAN /\ plain' \in BOOLEAN /\ finished' \in BOOLEAN
    BY <1>3, Zenon
  <2> QED BY <1>2, <1>3, <1>6, <1>7, <2>1 DEF RecipeTypes
<1>9. FreshInv' BY <1>3, <1>4, <1>7 DEF FreshInv, RecipeTypes
<1>10. moded' = FALSE => moded = FALSE /\ args.mode = "unset"
  BY <1>3, Zenon DEF RecipeTypes
<1>11. RecipeInv'
  <2>1. moded' = FALSE /\ edited.version = 2 => run'.recipe.mode = edited.mode
    <3> SUFFICES ASSUME moded' = FALSE, edited.version = 2
                 PROVE  run'.recipe.mode = edited.mode
      OBVIOUS
    <3>1. config.recipe.version = 2 BY <1>4 DEF RecipeInv, Shaped
    <3>2. config.recipe.mode = edited.mode BY <1>4, <1>10 DEF RecipeInv, Stands
    <3> QED BY <1>5, <1>6, <1>10, <3>1, <3>2
  <2>2. Stands(run.recipe)' BY <1>3, <1>6, <2>1 DEF Stands
  <2>3. config'.kind = "whole" => Stands(config.recipe)'
    BY <1>3, <1>4, <1>10 DEF RecipeInv, Stands
  <2> QED BY <1>3, <1>4, <1>6, <2>2, <2>3 DEF RecipeInv
<1>12. RangeInv'
  <2> SUFFICES ASSUME plain' = TRUE PROVE RangeInv' BY DEF RangeInv
  <2>1. plain = TRUE /\ C!IsPlain(args) BY <1>3 DEF RecipeTypes
  <2>2. C!Loaded.start = edited.start /\ C!Loaded.end = edited.end
    BY <1>5 DEF C!Says
  <2>3. C!Asked(C!Loaded) = C!Asked(edited) BY <2>2 DEF C!Asked
  <2>5. Doing' = C!Asked(edited) \ done /\ OneEach'
    BY <1>2, <1>5, <2>1, <2>3, RangeFacts DEF Doing, OneEach
  <2>6. C!Asked(edited)' = C!Asked(edited) BY <1>3 DEF C!Asked
  <2> QED BY <1>3, <2>1, <2>5, <2>6 DEF RangeInv
<1> QED BY <1>8, <1>9, <1>11, <1>12

LEMMA RecipeStep ==
  ASSUME C!RecipeAssumption, RecipeTypes, FreshInv, RecipeInv, RangeInv, [C!RecipeNext]_C!recipeVars
  PROVE  RecipeTypes' /\ FreshInv' /\ RecipeInv' /\ RangeInv'
<1> DEFINE Inv == RecipeTypes /\ FreshInv /\ RecipeInv /\ RangeInv
<1>0. \A r : Stands(r) <=> /\ C!Says(r) = C!Says(edited)
                           /\ moded = FALSE /\ edited.version = 2 => r.mode = edited.mode
  BY DEF Stands
<1>1. CASE UNCHANGED C!recipeVars
  BY <1>1 DEF C!recipeVars, RecipeTypes, FreshInv, RecipeInv, RangeInv, Stands, Doing,
              OneEach, C!Asked
<1>2. CASE C!InitBatch
  <2>1. /\ config' = [kind |-> "whole", recipe |-> C!Template] /\ edited' = C!Template
        /\ config.kind = "absent"
        /\ UNCHANGED <<run, done, scripts, recipeSpent, plain, moded, deferred, finished>>
    BY <1>2 DEF C!InitBatch, C!Whole
  <2>2. RecipeTypes' BY <2>1, TemplateFacts DEF RecipeTypes, FreshInv
  <2>3. FreshInv' BY <2>1 DEF FreshInv
  <2>4. RecipeInv' BY <2>1, TemplateFacts DEF FreshInv, RecipeInv, Stands
  <2>5. RangeInv' BY <2>1 DEF FreshInv, RangeInv
  <2> QED BY <2>2, <2>3, <2>4, <2>5
<1>3. CASE C!Edit
  <2>1. /\ edited' \in Edits /\ config' = [kind |-> "whole", recipe |-> edited']
        /\ recipeSpent.starts = 0
        /\ UNCHANGED <<run, done, scripts, recipeSpent, plain, moded, deferred, finished>>
    BY <1>3 DEF C!Edit, C!Whole
  <2>2. RecipeTypes' BY <2>1, EditFacts DEF RecipeTypes, FreshInv
  <2>3. FreshInv' BY <2>1 DEF FreshInv
  <2>4. RecipeInv' BY <2>1 DEF FreshInv, RecipeInv, Stands
  <2>5. RangeInv' BY <2>1 DEF FreshInv, RangeInv
  <2> QED BY <2>2, <2>3, <2>4, <2>5
<1>4. CASE C!ByHand \/ C!ByRestart
  BY <1>4, Launches DEF C!ByHand, C!ByRestart
<1>5. CASE C!ByResume BY <1>5, Launches DEF C!ByResume
<1>6. CASE C!WriteScripts \/ C!Persist \/ C!StartSession \/ C!DoRow \/ C!EndRun
  <2> USE DEF C!At
  <2>1. run # C!Off
    BY <1>6 DEF C!WriteScripts, C!Persist, C!StartSession, C!DoRow, C!EndRun, C!Off
  <2>2. recipeSpent.starts # 0 BY <2>1 DEF FreshInv
  <2>3. UNCHANGED <<recipeSpent, edited, plain, moded>> /\ C!Asked(edited)' = C!Asked(edited)
    BY <1>6 DEF C!WriteScripts, C!Persist, C!StartSession, C!DoRow, C!EndRun, C!Asked
  <2>4. CASE C!WriteScripts
    <3>1. /\ run'.recipe = run.recipe /\ run'.todo = run.todo /\ DOMAIN run' = DOMAIN run
          /\ config' = [kind |-> "torn", recipe |-> C!Template]
          /\ UNCHANGED <<done, deferred, finished>>
      BY <2>1, <2>4 DEF C!WriteScripts, C!Torn, RecipeTypes
    <3>2. RecipeTypes' BY <2>1, <2>3, <3>1, TemplateFacts DEF RecipeTypes
    <3>3. RecipeInv' BY <2>1, <2>3, <3>1 DEF RecipeInv, Stands
    <3>4. RangeInv' BY <2>1, <2>3, <3>1 DEF RangeInv, Doing, OneEach
    <3>5. FreshInv' BY <2>2, <2>3, <3>1 DEF FreshInv
    <3> QED BY <3>2, <3>3, <3>4, <3>5
  <2>5. CASE C!Persist
    <3>1. /\ run'.recipe = run.recipe /\ run'.todo = run.todo /\ DOMAIN run' = DOMAIN run
          /\ config' = [kind |-> "whole", recipe |-> run.recipe]
          /\ UNCHANGED <<done, deferred, finished>>
      BY <2>1, <2>5 DEF C!Persist, C!Whole, RecipeTypes
    <3>2. RecipeTypes' BY <2>1, <2>3, <3>1 DEF RecipeTypes
    <3>3. RecipeInv' BY <2>1, <2>3, <3>1 DEF RecipeInv, Stands
    <3>4. RangeInv' BY <2>1, <2>3, <3>1 DEF RangeInv, Doing, OneEach
    <3>5. FreshInv' BY <2>2, <2>3, <3>1 DEF FreshInv
    <3> QED BY <3>2, <3>3, <3>4, <3>5
  <2>6. CASE C!StartSession
    <3>1. /\ run' = C!Off \/ /\ run'.recipe = run.recipe /\ run'.todo = run.todo
                             /\ DOMAIN run' = DOMAIN run
          /\ UNCHANGED <<config, done, deferred, finished>>
      BY <2>1, <2>6 DEF C!StartSession, RecipeTypes
    <3>2. RecipeTypes' BY <2>1, <2>3, <3>1 DEF RecipeTypes
    <3>3. RecipeInv' BY <2>1, <2>3, <3>1 DEF RecipeInv, Stands
    <3>4. RangeInv' BY <2>1, <2>3, <3>1 DEF RangeInv, Doing, OneEach
    <3>5. FreshInv' BY <2>2, <2>3, <3>1 DEF FreshInv
    <3> QED BY <3>2, <3>3, <3>4, <3>5
  <2>7. CASE C!DoRow
    <3>1. PICK t \in run.todo :
            /\ run' = [run EXCEPT !.todo = @ \ {t}]
            /\ \/ done' = done \cup {t.row} /\ deferred' = deferred
               \/ deferred' = deferred \cup {t.row} /\ done' = done
      BY <2>7 DEF C!DoRow
    <3>2. /\ run'.recipe = run.recipe /\ run'.todo = run.todo \ {t}
          /\ DOMAIN run' = DOMAIN run /\ UNCHANGED <<config, finished>>
      BY <2>1, <2>7, <3>1 DEF C!DoRow, RecipeTypes
    <3>3. RecipeTypes' BY <2>1, <2>3, <3>2 DEF RecipeTypes
    <3>4. RecipeInv' BY <2>1, <2>3, <3>2 DEF RecipeInv, Stands
    <3>5. FreshInv' BY <2>2, <2>3, <3>2 DEF FreshInv
    <3>6. RangeInv'
      <4> SUFFICES ASSUME plain = TRUE PROVE RangeInv' BY <2>3 DEF RangeInv
      <4>1. /\ OneEach /\ deferred \subseteq C!Asked(edited) \ done
            /\ Doing = (C!Asked(edited) \ done) \ deferred
            /\ done \subseteq C!Asked(edited)
        BY <2>1 DEF RangeInv
      <4>2. t.row \in Doing /\ Doing' = Doing \ {t.row} /\ OneEach'
        BY <3>1, <3>2, <4>1 DEF Doing, OneEach
      <4>3. finished # TRUE BY <4>1, <4>2 DEF RangeInv
      <4> QED BY <2>3, <3>1, <3>2, <4>1, <4>2, <4>3 DEF RangeInv
    <3> QED BY <3>3, <3>4, <3>5, <3>6
  <2>8. CASE C!EndRun
    <3>1. /\ run' = C!Off /\ finished' = TRUE /\ run.todo = {}
          /\ UNCHANGED <<config, done, deferred>>
      BY <2>8 DEF C!EndRun
    <3>2. Doing = {} BY <3>1 DEF Doing
    <3>3. RangeInv' BY <2>1, <2>3, <3>1, <3>2 DEF RangeInv
    <3>4. RecipeTypes' /\ RecipeInv' /\ FreshInv'
      BY <2>2, <2>3, <3>1 DEF RecipeTypes, RecipeInv, Stands, FreshInv
    <3> QED BY <3>3, <3>4
  <2> QED BY <1>6, <2>4, <2>5, <2>6, <2>7, <2>8
<1>7. CASE C!Interrupt \/ C!Kill
  <2>1. /\ run' = C!Off /\ run # C!Off
        /\ recipeSpent' = [recipeSpent EXCEPT !.stops = @ + 1]
        /\ UNCHANGED <<config, done, edited, plain, moded, deferred, finished>>
    BY <1>7 DEF C!Interrupt, C!Kill, C!Stop
  <2>2. /\ recipeSpent'.starts = recipeSpent.starts
        /\ recipeSpent' = [starts |-> recipeSpent'.starts, stops |-> recipeSpent'.stops]
    BY <2>1 DEF RecipeTypes
  <2>3. C!Asked(edited)' = C!Asked(edited) BY <2>1 DEF C!Asked
  <2>4. RecipeTypes' BY <2>1, <2>2 DEF RecipeTypes
  <2>5. FreshInv' /\ RecipeInv' BY <2>1, <2>2 DEF FreshInv, RecipeInv, Stands
  <2>6. RangeInv' BY <2>1, <2>3 DEF RangeInv
  <2> QED BY <2>4, <2>5, <2>6
<1> QED BY <1>1, <1>2, <1>3, <1>4, <1>5, <1>6, <1>7 DEF C!RecipeNext

(* RunIsItsRecipe: the rows done are of the range in the recipe, a run     *)
(* that ended lacks none but those it passed over, and the recipe written  *)
(* back says what the operator wrote, through any stops and starts         *)
(* (cli_main, batch_config.py).                                            *)
THEOREM RunFollowsRecipe == C!RecipeSpec => []RunIsItsRecipe
<1> DEFINE Inv == RecipeTypes /\ FreshInv /\ RecipeInv /\ RangeInv
<1>1. C!RecipeInit => Inv
  <2> SUFFICES ASSUME C!RecipeInit PROVE Inv OBVIOUS
  <2>1. /\ config = [kind |-> "absent", recipe |-> C!Template] /\ run = C!Off /\ done = {}
        /\ recipeSpent = [starts |-> 0, stops |-> 0] /\ edited = C!Template
        /\ plain = TRUE /\ moded = FALSE /\ finished = FALSE
    BY DEF C!RecipeInit, C!Absent
  <2>2. RecipeTypes BY <2>1, TemplateFacts DEF RecipeTypes
  <2> QED BY <2>1, <2>2 DEF FreshInv, RecipeInv, RangeInv
<1>2. Inv /\ [C!RecipeNext]_C!recipeVars => Inv'
  BY BrowseAssumption, RecipeStep
<1>3. Inv => C!RunIsItsRecipe
  <2> SUFFICES ASSUME Inv PROVE C!RunIsItsRecipe OBVIOUS
  <2>1. C!RangeIsRun BY DEF RangeInv, RecipeTypes, C!RangeIsRun
  <2>2. C!RecipeStands BY DEF RecipeInv, Stands, RecipeTypes, C!RecipeStands
  <2> QED BY <2>1, <2>2 DEF C!RunIsItsRecipe
<1> QED BY <1>1, <1>2, <1>3, PTL DEF C!RecipeSpec, RunIsItsRecipe
=============================================================================
