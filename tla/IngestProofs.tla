---------------------------- MODULE IngestProofs ----------------------------
(***************************************************************************)
(* Proofs about CardIngest for any images, slices, thresholds, kills and   *)
(* faults: types, what a mark of the checkpoint watcher stands for, and    *)
(* that the writers of the results file keep each other's work; and about  *)
(* the two programs of Records, DeathDate and Registry, each by its own    *)
(* specification, whatever the other does.                                 *)
(***************************************************************************)
EXTENDS CardIngest, Records, SequencesExt, FiniteSetTheorems, SequenceTheorems,
        WellFoundedInduction, TLAPS

(* What the watcher is about to fire was due when it read the file, and    *)
(* between the commit and the mark the commit is there.                    *)
Reached(t) == 100 * watcher.count >= t * Target
Committed(t) ==
  bullets[t] = 1 /\ \E c \in git : c[1] = t /\ 100 * c[2] >= t * Target

WatchInv ==
  /\ watcher.at \in {"fire", "mark"} => \A t \in watcher.due : Reached(t)
  /\ watcher.at = "mark" => watcher.due # {} /\ Committed(Min(watcher.due))
  /\ \A t \in fired : Committed(t)

(* Between saves the file is the last whole one, unless a save was cut.    *)
FileInv == ~cut /\ saving = "no" => file.recs = best

(* The writer's memory has all that the last whole file had, and what it   *)
(* has still to read is not in it: no record for the pilot, no text and no *)
(* date for EasyOCR.                                                       *)
MemoryInv ==
  /\ ~cut /\ ~sliced /\ writer # "none" => Kept(best, mem)
  /\ writer = "pilot" => todo \cap DOMAIN mem = {}
  /\ writer \in {"pool", "serial"} => todo \subseteq Targets(mem)

(* What an EasyOCR pass has read is in its memory, and is in the file or   *)
(* still to be read as far as the file knows, as what it has to read is.   *)
ReadInv ==
  writer \in {"pool", "serial"} =>
    /\ \A i \in read : /\ i \in DOMAIN mem /\ mem[i].easy = TextOf(i)
                       /\ i \in EasyDated => mem[i].date # "none"
    /\ file.kind = "whole" =>
         /\ todo \subseteq Targets(file.recs)
         /\ \A i \in read :
              \/ i \in Targets(file.recs)
              \/ i \in DOMAIN file.recs /\ file.recs[i].easy = TextOf(i)

(* The images whose Tesseract date the records have lost.                  *)
Gone(recs) == {i \in ever \cap DOMAIN recs : recs[i].date # "tesseract"}

(* A date of Tesseract is one of a whole image it can read, no more of them*)
(* are lost from a record than readings failed, and the pilot has those    *)
(* without a record before it.                                             *)
DatesInv ==
  /\ \A i \in ever \cup TessOf(mem) \cup TessOf(file.recs) :
       i \in TessDated /\ img[i] = "whole"
  /\ Cardinality(Gone(mem)) <= faults /\ Cardinality(Gone(file.recs)) <= faults
  /\ writer = "pilot" => ever \subseteq todo \cup DOMAIN mem
  /\ writer = "pilot" /\ saving = "last" => todo = {}
-----------------------------------------------------------------------------
(* Sets of thresholds, and records.                                        *)

(* A set of thresholds has a lowest one.                                   *)
LEMMA MinIsLeast ==
  ASSUME NEW S \in SUBSET Nat, S # {}
  PROVE  Min(S) \in S
<1>1. PICK x \in S : \A y \in S : ~(<<y, x>> \in OpToRel(<, Nat))
  BY WFMin, NatLessThanWellFounded
<1>2. \A y \in S : ~(y < x) BY <1>1 DEF OpToRel
<1>3. \A y \in S : x <= y BY <1>2
<1>4. QED BY <1>3 DEF Min

(* How many records of a file are of a kind is a number.                   *)
LEMMA CountsAreNumbers ==
  ASSUME NEW r, DOMAIN r \subseteq Images, NEW S \in SUBSET DOMAIN r
  PROVE  Cardinality(S) \in Nat
<1>1. S \subseteq Images OBVIOUS
<1>2. QED BY <1>1, CardIngestAssumption, FS_Subset, FS_CardinalityType

(* Nothing done is lost by leaving everything as it is.                    *)
LEMMA KeptItself == ASSUME NEW r PROVE Kept(r, r)
BY DEF Kept

(* An image read by Tesseract gets a record, the others keep theirs.       *)
LEMMA PilotMerge ==
  ASSUME NEW r, NEW i \in Images, NEW readable \in BOOLEAN
  PROVE  LET new == WithRecord(r, i, PilotRecord(i, readable)) IN
         /\ DOMAIN new = DOMAIN r \cup {i}
         /\ \A j \in DOMAIN r : j # i => new[j] = r[j]
         /\ IsRecords(r) => IsRecords(new)
<1>1. PilotRecord(i, readable) \in Record BY DEF PilotRecord, Record
<1>2. QED BY <1>1 DEF WithRecord, IsRecords

(* An image read by EasyOCR gets its text, and a date if it had none; the  *)
(* others keep their records.                                              *)
LEMMA EasyMerge ==
  ASSUME NEW r, IsRecords(r), NEW i \in Images
  PROVE  LET new == Merged(r, i, TextOf(i)) IN
         /\ DOMAIN new = DOMAIN r
         /\ \A j \in DOMAIN r : j # i => new[j] = r[j]
         /\ i \in DOMAIN r =>
              new[i] = [ocr |-> r[i].ocr, easy |-> TextOf(i),
                        date |-> IF r[i].date = "none" /\ i \in EasyDated
                                 THEN "easyocr" ELSE r[i].date]
         /\ IsRecords(new)
<1> DEFINE new == Merged(r, i, TextOf(i))
<1>1. /\ DOMAIN new = DOMAIN r
      /\ \A j \in DOMAIN r : j # i => new[j] = r[j]
  BY DEF Merged
<1>2. ASSUME i \in DOMAIN r
      PROVE  /\ r[i] \in Record
             /\ new[i] = [ocr |-> r[i].ocr, easy |-> TextOf(i),
                          date |-> IF r[i].date = "none" /\ i \in EasyDated
                                   THEN "easyocr" ELSE r[i].date]
  <2>1. r[i] \in Record BY <1>2 DEF IsRecords
  <2>2. QED BY <1>2, <2>1 DEF Merged, Record
<1>3. TextOf(i) \in {"none", "blank"} \cup Images BY DEF TextOf
<1>4. i \in DOMAIN r => new[i] \in Record BY <1>2, <1>3 DEF Record
<1> HIDE DEF new
<1>5. IsRecords(new) BY <1>1, <1>4 DEF IsRecords
<1>6. QED BY <1>1, <1>2, <1>5 DEF new
-----------------------------------------------------------------------------
(* Types.                                                                  *)

LEMMA ImageStep ==
  ASSUME ImageTypes, [Next]_vars
  PROVE  ImageTypes'
<1>1. CASE Downloading
  BY <1>1 DEF Downloading, Download, TileWritten, DownloadEnds, SkipTile, FetchTile, Fault,
    ImageTypes, bounds
<1>2. CASE Reading
  <2>1. UNCHANGED images /\ UNCHANGED kills /\ (UNCHANGED faults \/ Fault)
    BY <1>2 DEF Reading, RunPilot, PilotEnds, RunEasy, EasyEnds, FinishSave, PilotReads,
      EasyReads, EasyFails, bounds
  <2>2. QED BY <2>1 DEF Fault, ImageTypes, images
<1>3. CASE RunDog \/ Dog
  BY <1>3 DEF RunDog, Dog, DogChecks, DogRestarts, DogGivesUp, DogPolls, ImageTypes, images,
    bounds
<1>4. CASE Watching
  <2>1. UNCHANGED images /\ UNCHANGED kills /\ (UNCHANGED faults \/ Fault)
    BY <1>4 DEF Watching, RunWatcher, WatcherReads, FireCheckpoint, MarkFired, WatcherSleeps,
      bounds
  <2>2. QED BY <2>1 DEF Fault, ImageTypes, images
<1>5. CASE Kill BY <1>5 DEF Kill, ImageTypes
<1>6. CASE UNCHANGED vars BY <1>6 DEF vars, ImageTypes, images, bounds
<1>7. QED BY <1>1, <1>2, <1>3, <1>4, <1>5, <1>6 DEF Next

(* A writer that ends, whether it dies or not.                             *)
LEMMA EndTypes ==
  ASSUME FileTypes, WriterEnds, UNCHANGED <<file, best, sliced, ever>>, cut' \in BOOLEAN
  PROVE  FileTypes'
<1>1. IsRecords(NoRecords) BY DEF IsRecords, NoRecords
<1>2. QED BY <1>1 DEF WriterEnds, FileTypes

LEMMA SaveTypes ==
  ASSUME FileTypes, writer # "none", UNCHANGED writer, NEW s \in {"more", "last"},
         BeginSave(s) \/ NoSave, saving = "no", IsRecords(mem'), todo' \subseteq Images,
         read' \subseteq Images, unflushed' \in Nat
  PROVE  FileTypes'
<1>1. IsRecords(Torn.recs) BY DEF IsRecords, NoRecords, Torn
<1>2. CASE BeginSave(s) BY <1>1, <1>2 DEF BeginSave, Torn, FileTypes
<1>3. CASE NoSave BY <1>3 DEF NoSave, results, FileTypes
<1>4. QED BY <1>2, <1>3

LEMMA FileStep ==
  ASSUME FileTypes, [Next]_vars
  PROVE  FileTypes'
<1>0. ASSUME UNCHANGED <<results, writing>> PROVE FileTypes'
  BY <1>0 DEF results, writing, FileTypes
<1>1. CASE Downloading
  BY <1>0, <1>1 DEF Downloading, Download, TileWritten, DownloadEnds, SkipTile, FetchTile
<1>2. CASE RunPilot \/ DogRestarts
  <2>1. StartPilot /\ UNCHANGED <<file, best, cut, ever>> BY <1>2 DEF RunPilot, DogRestarts
  <2>2. todo' \subseteq Images /\ IsRecords(mem')
    BY <2>1 DEF StartPilot, Existing, FileTypes
  <2>3. QED BY <2>1, <2>2 DEF StartPilot, FileTypes
<1>3. ASSUME NEW i \in Images, PilotReads(i) PROVE FileTypes'
  <2>1. PICK readable \in BOOLEAN : mem' = WithRecord(mem, i, PilotRecord(i, readable))
    BY <1>3 DEF PilotReads
  <2>2. IsRecords(mem') BY <2>1, PilotMerge DEF FileTypes
  <2>3. QED BY <1>3, <2>2, SaveTypes DEF PilotReads, FileTypes
<1>4. CASE PilotEnds BY <1>4, SaveTypes DEF PilotEnds, FileTypes
<1>5. CASE RunEasy
  <2>1. IsRecords(mem') /\ todo' \subseteq Images
    BY <1>5 DEF RunEasy, Restrict, Targets, IsRecords, FileTypes
  <2>2. writer' \in {"pool", "serial"} /\ sliced' \in BOOLEAN BY <1>5 DEF RunEasy
  <2>3. QED BY <1>5, <2>1, <2>2 DEF RunEasy, FileTypes
<1>6. ASSUME NEW i \in Images, EasyReads(i) PROVE FileTypes'
  <2>1. IsRecords(mem') BY <1>6, EasyMerge DEF EasyReads, FileTypes
  <2>2. QED BY <1>6, <2>1, SaveTypes DEF EasyReads, EasyRuns, FileTypes
<1>7. ASSUME NEW i \in Images, EasyFails(i) PROVE FileTypes'
  BY <1>7, SaveTypes DEF EasyFails, EasyRuns, FileTypes
<1>8. CASE EasyEnds
  <2>1. CASE LastSave BY <1>8, <2>1, SaveTypes DEF EasyEnds, EasyRuns, LastSave, FileTypes
  <2>2. CASE WriterEnds /\ UNCHANGED results
    BY <2>2, EndTypes DEF results, FileTypes
  <2>3. QED BY <1>8, <2>1, <2>2 DEF EasyEnds
<1>9. CASE FinishSave
  <2>1. /\ file' = Whole(mem) /\ best' = mem /\ cut' = FALSE /\ saving' = "no"
        /\ ever' = ever \cup TessOf(mem) /\ sliced' = sliced
    BY <1>9 DEF FinishSave, WriterEnds
  <2>2. /\ IsRecords(file'.recs) /\ IsRecords(best') /\ file'.kind = "whole"
        /\ {cut', sliced'} \subseteq BOOLEAN /\ ever' \subseteq Images
    BY <2>1 DEF Whole, TessOf, IsRecords, FileTypes
  <2>3. /\ IsRecords(mem') /\ unflushed' \in Nat
        /\ todo' \subseteq Images /\ read' \subseteq Images
        /\ writer' \in {"none", "pilot", "pool", "serial"}
    <3>1. IsRecords(NoRecords) BY DEF IsRecords, NoRecords
    <3>2. QED BY <1>9, <3>1 DEF FinishSave, WriterEnds, FileTypes
  <2>4. QED BY <2>1, <2>2, <2>3 DEF FileTypes
<1>10. CASE RunDog \/ DogChecks \/ DogGivesUp
  BY <1>0, <1>10 DEF RunDog, DogChecks, DogGivesUp
<1>11. ASSUME WriterDies, UNCHANGED <<file, best, sliced, ever>> PROVE FileTypes'
  <2>1. cut' \in BOOLEAN BY <1>11 DEF WriterDies, FileTypes
  <2>2. QED BY <1>11, <2>1, EndTypes DEF WriterDies
<1>12. CASE DogPolls
  BY <1>0, <1>11, <1>12 DEF DogPolls, results
<1>13. CASE Watching
  BY <1>0, <1>13 DEF Watching, RunWatcher, WatcherReads, FireCheckpoint, MarkFired,
    WatcherSleeps
<1>14. CASE Kill BY <1>0, <1>11, <1>14 DEF Kill, results
<1>15. CASE UNCHANGED vars BY <1>0, <1>15 DEF vars
<1>16. QED
  BY <1>1, <1>2, <1>3, <1>4, <1>5, <1>6, <1>7, <1>8, <1>9, <1>10, <1>12, <1>13, <1>14, <1>15
    DEF Next, Reading, Dog

LEMMA DogStep ==
  ASSUME FileTypes, DogTypes, [Next]_vars
  PROVE  DogTypes'
<1>1. Count \in Nat BY CountsAreNumbers DEF Count, FileTypes, IsRecords
<1>2. CASE RunDog \/ Dog
  <2>1. CASE RunDog BY <1>1, <2>1 DEF RunDog, DogTypes
  <2>2. CASE DogChecks BY <2>2 DEF DogChecks, DogTypes
  <2>3. CASE DogRestarts \/ DogGivesUp
    <3>1. PICK at \in {"poll", "off"} :
            dog' = [dog EXCEPT !.at = at, !.restarts = dog.restarts + 1]
      BY <2>3 DEF DogRestarts, DogGivesUp
    <3>2. dog.restarts + 1 \in Nat BY DEF DogTypes
    <3>3. QED BY <3>1, <3>2 DEF DogTypes
  <2>4. CASE DogPolls
    <3>1. PICK idle \in {dog.idle + 1, 0}, at \in {"off", "check"} :
            dog' = [at |-> at, idle |-> idle, restarts |-> dog.restarts, last |-> Count]
      BY <2>4 DEF DogPolls
    <3>2. QED BY <1>1, <3>1 DEF DogTypes
  <2>5. QED BY <1>2, <2>1, <2>2, <2>3, <2>4 DEF Dog
<1>3. CASE Downloading
  BY <1>3 DEF Downloading, Download, TileWritten, DownloadEnds, SkipTile, FetchTile, DogTypes
<1>4. CASE Reading
  BY <1>4 DEF Reading, RunPilot, PilotEnds, RunEasy, EasyEnds, FinishSave, PilotReads,
    EasyReads, EasyFails, DogTypes
<1>5. CASE Watching
  BY <1>5 DEF Watching, RunWatcher, WatcherReads, FireCheckpoint, MarkFired, WatcherSleeps,
    DogTypes
<1>6. CASE Kill \/ UNCHANGED vars BY <1>6 DEF Kill, vars, DogTypes
<1>7. QED BY <1>2, <1>3, <1>4, <1>5, <1>6 DEF Next

(* Only its own steps and a kill change what the checkpoint watcher knows. *)
LEMMA WatcherFrame ==
  ASSUME [Next]_vars
  PROVE  \/ Watching
         \/ watcher' = WatcherOff /\ UNCHANGED <<fired, git, bullets>>
         \/ UNCHANGED progress
<1>1. CASE RunDog \/ Dog
  BY <1>1 DEF RunDog, Dog, DogChecks, DogRestarts, DogGivesUp, DogPolls
<1>2. CASE Downloading
  BY <1>2 DEF Downloading, Download, TileWritten, DownloadEnds, SkipTile, FetchTile
<1>3. CASE Reading
  BY <1>3 DEF Reading, RunPilot, PilotEnds, RunEasy, EasyEnds, FinishSave, PilotReads,
    EasyReads, EasyFails
<1>4. CASE Kill BY <1>4 DEF Kill, progress
<1>5. CASE UNCHANGED vars BY <1>5 DEF vars
<1>6. QED BY <1>1, <1>2, <1>3, <1>4, <1>5 DEF Next

LEMMA FirstDue ==
  ASSUME WatcherTypes, watcher.due # {}
  PROVE  Min(watcher.due) \in watcher.due /\ Min(watcher.due) \in Thresholds
BY MinIsLeast, CardIngestAssumption DEF WatcherTypes

(* What the watcher's steps do to what it knows.                           *)
LEMMA WatcherStep ==
  ASSUME FileTypes, WatcherTypes, WatchInv, [Next]_vars
  PROVE  WatcherTypes' /\ WatchInv'
<1>0. ASSUME UNCHANGED <<fired, git, bullets>>
      PROVE  \A t : Committed(t) => Committed(t)'
  BY <1>0 DEF Committed
<1>1. CASE UNCHANGED progress
  BY <1>1 DEF progress, WatcherTypes, WatchInv, Reached, Committed
<1>2. CASE watcher' = WatcherOff /\ UNCHANGED <<fired, git, bullets>>
  BY <1>0, <1>2 DEF WatcherOff, WatcherTypes, WatchInv
<1>3. CASE RunWatcher
  BY <1>0, <1>3 DEF RunWatcher, WatcherPolls, WatcherTypes, WatchInv
<1>4. CASE WatcherReads
  <2>1. EasyCount \in Nat BY CountsAreNumbers DEF EasyCount, FileTypes, IsRecords
  <2>2. WatcherTypes' BY <1>4, <2>1 DEF WatcherReads, WatcherOff, WatcherTypes
  <2>3. watcher'.at # "mark" /\ (watcher'.at = "fire" => \A t \in watcher'.due : Reached(t)')
    BY <1>4 DEF WatcherReads, WatcherOff, Reached
  <2>4. QED BY <1>0, <1>4, <2>2, <2>3 DEF WatcherReads, WatchInv
<1>5. CASE WatcherSleeps
  BY <1>0, <1>5 DEF WatcherSleeps, WatcherOff, WatcherPolls, WatcherTypes, WatchInv
<1>6. CASE FireCheckpoint
  <2> DEFINE t == Min(watcher.due)
  <2>1. t \in watcher.due /\ t \in Thresholds BY <1>6, FirstDue DEF FireCheckpoint
  <2>2. /\ bullets' = [bullets EXCEPT ![t] = IF @ = 0 THEN 1 ELSE @]
        /\ bullets' \in [Thresholds -> {0, 1}] /\ bullets'[t] = 1
        /\ \A s \in Thresholds : bullets[s] = 1 => bullets'[s] = 1
        /\ fired' = fired /\ Reached(t) /\ watcher.at = "fire"
    BY <1>6, <2>1 DEF FireCheckpoint, WatcherTypes, WatchInv
  <2>3. git \subseteq git' BY <1>6 DEF FireCheckpoint
  <2>4. \A s \in fired' : Committed(s)'
    BY <2>2, <2>3 DEF WatchInv, WatcherTypes, Committed
  <2>5. CASE /\ git' = git \cup {<<t, watcher.count>>}
             /\ watcher' = [watcher EXCEPT !.at = "mark"]
    <3>1. watcher'.due = watcher.due /\ watcher'.count = watcher.count /\ watcher'.at = "mark"
          /\ watcher' \in [at : {"off", "poll", "fire", "mark"}, due : SUBSET Thresholds,
                           count : Nat]
      BY <2>5 DEF WatcherTypes
    <3>2. Committed(t)'
      <4> DEFINE c == <<t, watcher.count>>
      <4>1. c \in git' /\ c[1] = t /\ 100 * c[2] >= t * Target
        BY <2>2, <2>5 DEF Reached
      <4>2. QED BY <2>2, <3>1, <4>1 DEF Committed
    <3>3. \A s \in watcher'.due : Reached(s)'
      BY <2>2, <3>1 DEF WatchInv, Reached
    <3>4. git' \subseteq Thresholds \X Nat BY <2>1, <2>5 DEF WatcherTypes
    <3>5. QED
      BY <2>1, <2>2, <2>4, <3>1, <3>2, <3>3, <3>4 DEF WatchInv, WatcherTypes
  <2>6. CASE LeaveDue(t) /\ UNCHANGED git
    <3>1. watcher'.due = watcher.due \ {t} /\ watcher'.count = watcher.count
          /\ watcher'.at = "fire"
          /\ watcher' \in [at : {"off", "poll", "fire", "mark"}, due : SUBSET Thresholds,
                           count : Nat]
      BY <2>2, <2>6 DEF LeaveDue, WatcherTypes
    <3>2. \A s \in watcher'.due : Reached(s)'
      BY <2>2, <3>1 DEF WatchInv, Reached
    <3>3. QED BY <2>2, <2>4, <2>6, <3>1, <3>2 DEF WatchInv, WatcherTypes
  <2>7. QED BY <1>6, <2>5, <2>6 DEF FireCheckpoint
<1>7. CASE MarkFired
  <2> DEFINE t == Min(watcher.due)
  <2>1. t \in Thresholds /\ Committed(t) BY <1>7, FirstDue DEF MarkFired, WatchInv
  <2>2. watcher'.due = watcher.due \ {t} /\ watcher'.count = watcher.count
        /\ watcher'.at = "fire"
        /\ watcher' \in [at : {"off", "poll", "fire", "mark"}, due : SUBSET Thresholds,
                         count : Nat]
    BY <1>7 DEF MarkFired, WatcherTypes
  <2>3. \A s \in watcher'.due : Reached(s)'
    BY <1>7, <2>2 DEF MarkFired, WatchInv, Reached
  <2>4. fired' = fired \cup {t} /\ UNCHANGED <<git, bullets>> BY <1>7 DEF MarkFired
  <2>5. \A s \in fired' : Committed(s)'
    BY <2>1, <2>4 DEF WatchInv, Committed
  <2>6. QED BY <2>1, <2>2, <2>3, <2>4, <2>5 DEF WatchInv, WatcherTypes
<1>8. QED
  BY <1>1, <1>2, <1>3, <1>4, <1>5, <1>6, <1>7, WatcherFrame DEF Watching

LEMMA StartTypes == Init => TypeOK /\ WatchInv
<1>1. IsRecords(NoRecords) BY DEF IsRecords, NoRecords
<1>2. Init => ImageTypes BY DEF Init, ImageTypes
<1>3. ASSUME Init PROVE FileTypes
  <2>1. /\ file = Absent /\ best = NoRecords /\ cut = FALSE
        /\ writer = "none" /\ todo = {} /\ mem = NoRecords /\ unflushed = 0
        /\ saving = "no" /\ read = {} /\ sliced = FALSE /\ ever = {}
    BY <1>3 DEF Init
  <2>2. file.recs = NoRecords /\ file.kind = "absent" BY <2>1 DEF Absent
  <2>3. IsRecords(file.recs) /\ IsRecords(mem) /\ IsRecords(best) BY <1>1, <2>1, <2>2
  <2>4. QED BY <2>1, <2>2, <2>3 DEF FileTypes
<1>4. Init => DogTypes BY DEF Init, DogTypes
<1>5. Init => WatcherTypes /\ WatchInv BY DEF Init, WatcherTypes, WatchInv
<1>6. QED BY <1>2, <1>3, <1>4, <1>5 DEF TypeOK

(* Every variable keeps its type.                                          *)
THEOREM CardIngestTypes == Spec => []TypeOK
<1>1. TypeOK /\ WatchInv /\ [Next]_vars => TypeOK' /\ WatchInv'
  BY ImageStep, FileStep, DogStep, WatcherStep DEF TypeOK
<1>2. QED BY <1>1, StartTypes, PTL DEF Spec

(* However often the watcher dies between the commit and the mark, and     *)
(* whatever becomes of the results file meanwhile, a threshold marked as   *)
(* fired was committed with a count that reaches it, and has one line.     *)
THEOREM MarkMeansCommit == Spec => []FiredIsCommitted
<1>1. TypeOK /\ WatchInv /\ [Next]_vars => TypeOK' /\ WatchInv'
  BY ImageStep, FileStep, DogStep, WatcherStep DEF TypeOK
<1>2. WatchInv => FiredIsCommitted BY DEF WatchInv, Committed, FiredIsCommitted
<1>3. QED BY <1>1, <1>2, StartTypes, PTL DEF Spec
-----------------------------------------------------------------------------
(* The writers of the results file.                                        *)

WorkInv == FileInv /\ MemoryInv /\ ReadInv

(* A whole file is the last whole one.                                     *)
LEMMA WholeIsBest ==
  ASSUME FileTypes, FileInv, ~cut, file.kind = "whole"
  PROVE  Kept(best, file.recs)
<1>1. saving = "no" BY DEF FileTypes, Torn
<1>2. QED BY <1>1, KeptItself DEF FileInv

(* An image that is there stays there, and one that is whole stays whole.  *)
LEMMA ImagesStay ==
  ASSUME ImageTypes, [Next]_vars, NEW i \in Images
  PROVE  /\ Present(i) => Present(i)'
         /\ img[i] = "whole" => img'[i] = "whole"
<1>1. CASE Downloading
  BY <1>1 DEF Downloading, Download, TileWritten, DownloadEnds, SkipTile, FetchTile,
    Present, ImageTypes
<1>2. CASE Reading
  BY <1>2 DEF Reading, RunPilot, PilotEnds, RunEasy, EasyEnds, FinishSave, PilotReads,
    EasyReads, EasyFails, images, Present
<1>3. CASE RunDog \/ Dog
  BY <1>3 DEF RunDog, Dog, DogChecks, DogRestarts, DogGivesUp, DogPolls, images, Present
<1>4. CASE Watching
  BY <1>4 DEF Watching, RunWatcher, WatcherReads, FireCheckpoint, MarkFired,
    WatcherSleeps, images, Present
<1>5. CASE Kill \/ UNCHANGED vars BY <1>5 DEF Kill, vars, images, Present
<1>6. QED BY <1>1, <1>2, <1>3, <1>4, <1>5 DEF Next

(* So what EasyOCR has still to read of the same records stays so.         *)
LEMMA TargetsStay ==
  ASSUME FileTypes, ImageTypes, [Next]_vars
  PROVE  /\ UNCHANGED mem => Targets(mem) \subseteq Targets(mem)'
         /\ UNCHANGED file => Targets(file.recs) \subseteq Targets(file.recs)'
<1>1. DOMAIN mem \subseteq Images /\ DOMAIN file.recs \subseteq Images
  BY DEF FileTypes, IsRecords
<1>2. QED BY <1>1, ImagesStay DEF Targets

(* A writer that is gone has nothing in hand.                              *)
LEMMA EndWork ==
  ASSUME FileInv, WriterEnds, UNCHANGED <<file, best>>, cut' \/ (~cut /\ saving = "no")
  PROVE  WorkInv'
BY DEF FileInv, WriterEnds, WorkInv, MemoryInv, ReadInv

LEMMA WorkStep ==
  ASSUME ImageTypes, FileTypes, WorkInv, [Next]_vars
  PROVE  WorkInv'
<1>0. ASSUME UNCHANGED <<results, writing>> PROVE WorkInv'
  <2>1. UNCHANGED <<file, best, cut, sliced, writer, todo, mem, saving, read>>
    BY <1>0 DEF results, writing
  <2>2. /\ Targets(mem) \subseteq Targets(mem)'
        /\ Targets(file.recs) \subseteq Targets(file.recs)'
    BY <2>1, TargetsStay
  <2>3. FileInv' BY <2>1 DEF WorkInv, FileInv
  <2>4. MemoryInv' BY <2>1, <2>2 DEF WorkInv, MemoryInv, Kept
  <2>5. ReadInv' BY <2>1, <2>2 DEF WorkInv, ReadInv
  <2>6. QED BY <2>3, <2>4, <2>5 DEF WorkInv
<1>1. CASE Downloading
  BY <1>0, <1>1 DEF Downloading, Download, TileWritten, DownloadEnds, SkipTile, FetchTile
<1>2. CASE RunPilot \/ DogRestarts
  <2>1. StartPilot /\ UNCHANGED <<file, best, cut>> /\ writer = "none"
    BY <1>2 DEF RunPilot, DogRestarts
  <2>2. saving = "no" BY <2>1 DEF FileTypes
  <2>3. ~cut => Kept(best, file.recs) BY <2>2, KeptItself DEF WorkInv, FileInv
  <2>4. QED
    BY <2>1, <2>2, <2>3 DEF StartPilot, Existing, WorkInv, FileInv, MemoryInv, ReadInv
<1>3. ASSUME NEW i \in Images, PilotReads(i) PROVE WorkInv'
  <2>1. PICK readable \in BOOLEAN : mem' = WithRecord(mem, i, PilotRecord(i, readable))
    BY <1>3 DEF PilotReads
  <2>2. /\ i \in todo /\ todo' = todo \ {i} /\ writer = "pilot" /\ writer' = "pilot"
        /\ best' = best /\ cut' = cut /\ sliced' = sliced /\ i \notin DOMAIN mem
    BY <1>3 DEF PilotReads, BeginSave, NoSave, results, WorkInv, MemoryInv
  <2>3. DOMAIN mem' = DOMAIN mem \cup {i} /\ \A j \in DOMAIN mem : mem'[j] = mem[j]
    BY <2>1, <2>2, PilotMerge
  <2>4. ~cut /\ ~sliced => Kept(best, mem') BY <2>2, <2>3 DEF WorkInv, MemoryInv, Kept
  <2>5. FileInv' BY <1>3 DEF PilotReads, BeginSave, NoSave, results, WorkInv, FileInv
  <2>6. QED BY <2>2, <2>3, <2>4, <2>5 DEF WorkInv, MemoryInv, ReadInv
<1>4. CASE PilotEnds
  BY <1>4 DEF PilotEnds, BeginSave, WorkInv, FileInv, MemoryInv, ReadInv
<1>5. CASE RunEasy
  <2>1. PICK slice \in Slices \cup {Images} :
          /\ mem' = Restrict(file.recs, slice \cap DOMAIN file.recs)
          /\ todo' = Targets(mem') /\ sliced' = (slice # Images)
    BY <1>5 DEF RunEasy
  <2>2. /\ UNCHANGED <<file, best, cut, img>> /\ writer = "none" /\ saving' = "no"
        /\ writer' \in {"pool", "serial"} /\ read' = {}
    BY <1>5 DEF RunEasy, images
  <2>3. saving = "no" /\ IsRecords(file.recs) BY <2>2 DEF FileTypes
  <2>4. ~cut => Kept(best, file.recs) BY <2>3, KeptItself DEF WorkInv, FileInv
  <2>5. /\ DOMAIN mem' \subseteq DOMAIN file.recs
        /\ \A j \in DOMAIN mem' : mem'[j] = file.recs[j]
        /\ slice = Images => DOMAIN mem' = DOMAIN file.recs
    <3>1. mem' = [j \in slice \cap DOMAIN file.recs |-> file.recs[j]]
      BY <2>1 DEF Restrict
    <3>2. QED BY <2>3, <3>1 DEF IsRecords
  <2>6. ~cut /\ ~sliced' => Kept(best, mem') BY <2>1, <2>4, <2>5 DEF Kept
  <2>7. todo' \subseteq Targets(mem)' /\ todo' \subseteq Targets(file.recs)'
    BY <2>1, <2>2, <2>5 DEF Targets, Present
  <2>8. FileInv' BY <2>2, <2>3 DEF WorkInv, FileInv
  <2>9. MemoryInv' BY <2>2, <2>6, <2>7 DEF MemoryInv
  <2>10. ReadInv' BY <2>2, <2>7 DEF ReadInv
  <2>11. QED BY <2>8, <2>9, <2>10 DEF WorkInv
<1>6. ASSUME NEW i \in Images, EasyReads(i) PROVE WorkInv'
  <2>1. /\ i \in todo /\ todo' = todo \ {i} /\ read' = read \cup {i} /\ img' = img
        /\ writer \in {"pool", "serial"} /\ writer' = writer
        /\ best' = best /\ cut' = cut /\ sliced' = sliced
        /\ mem' = Merged(mem, i, TextOf(i)) /\ file' \in {file, Torn}
    BY <1>6 DEF EasyReads, EasyRuns, BeginSave, NoSave, results, images
  <2>2. i \in DOMAIN mem /\ ~HasText(mem[i]) /\ mem[i].date = "none"
    BY <2>1 DEF WorkInv, MemoryInv, Targets
  <2>3. /\ DOMAIN mem' = DOMAIN mem /\ \A j \in DOMAIN mem : j # i => mem'[j] = mem[j]
        /\ mem'[i].easy = TextOf(i) /\ (i \in EasyDated => mem'[i].date # "none")
    <3>1. DOMAIN mem' = DOMAIN mem /\ \A j \in DOMAIN mem : j # i => mem'[j] = mem[j]
      BY <2>1, EasyMerge DEF FileTypes
    <3>2. mem'[i] = [ocr |-> mem[i].ocr, easy |-> TextOf(i),
                    date |-> IF mem[i].date = "none" /\ i \in EasyDated
                             THEN "easyocr" ELSE mem[i].date]
      BY <2>1, <2>2, EasyMerge DEF FileTypes
    <3>3. QED BY <2>2, <3>1, <3>2
  <2>4. ~cut /\ ~sliced => Kept(best, mem')
    <3>1. SUFFICES ASSUME ~cut, ~sliced, NEW j \in DOMAIN best
                   PROVE  /\ j \in DOMAIN mem'
                          /\ best[j].date # "none" => mem'[j].date = best[j].date
                          /\ HasText(best[j]) => mem'[j].easy = best[j].easy
      BY DEF Kept
    <3>2. /\ j \in DOMAIN mem
          /\ best[j].date # "none" => mem[j].date = best[j].date
          /\ HasText(best[j]) => mem[j].easy = best[j].easy
      BY <2>1, <3>1 DEF WorkInv, MemoryInv, Kept
    <3>3. QED BY <2>2, <2>3, <3>2 DEF HasText
  <2>5. FileInv' BY <1>6 DEF EasyReads, EasyRuns, BeginSave, NoSave, results, WorkInv, FileInv
  <2>6. todo' \subseteq Targets(mem)'
    BY <2>1, <2>3 DEF WorkInv, MemoryInv, Targets, Present
  <2>7. MemoryInv' BY <2>1, <2>4, <2>6 DEF MemoryInv
  <2>8. ReadInv'
    <3>1. ASSUME file'.kind = "whole"
          PROVE  file' = file /\ Targets(file.recs)' = Targets(file.recs)
      BY <2>1, <3>1 DEF Torn, Targets, Present
    <3>2. QED BY <2>1, <2>2, <2>3, <3>1 DEF WorkInv, ReadInv
  <2>9. QED BY <2>5, <2>7, <2>8 DEF WorkInv
<1>7. ASSUME NEW i \in Images, EasyFails(i) PROVE WorkInv'
  <2>1. /\ todo' \subseteq todo /\ UNCHANGED <<writer, mem, read, best, cut, sliced, img>>
        /\ file' \in {file, Torn} /\ writer \in {"pool", "serial"}
    BY <1>7 DEF EasyFails, EasyRuns, BeginSave, NoSave, results, images
  <2>2. FileInv' BY <1>7 DEF EasyFails, EasyRuns, BeginSave, NoSave, results, WorkInv, FileInv
  <2>3. Targets(mem)' = Targets(mem) BY <2>1 DEF Targets, Present
  <2>4. MemoryInv' BY <2>1, <2>3 DEF WorkInv, MemoryInv
  <2>5. ReadInv'
    <3>1. ASSUME file'.kind = "whole"
          PROVE  file' = file /\ Targets(file.recs)' = Targets(file.recs)
      BY <2>1, <3>1 DEF Torn, Targets, Present
    <3>2. QED BY <2>1, <3>1 DEF WorkInv, ReadInv
  <2>6. QED BY <2>2, <2>4, <2>5 DEF WorkInv
<1>8. CASE EasyEnds
  <2>1. CASE LastSave
    <3>1. /\ UNCHANGED <<writer, todo, mem, read, best, cut, sliced, img>>
          /\ file' = Torn /\ saving' = "last"
      BY <1>8, <2>1 DEF EasyEnds, LastSave, BeginSave, images
    <3>2. Targets(mem)' = Targets(mem) BY <3>1 DEF Targets, Present
    <3>3. QED BY <3>1, <3>2 DEF Torn, WorkInv, FileInv, MemoryInv, ReadInv
  <2>2. CASE WriterEnds /\ UNCHANGED results
    BY <1>8, <2>2, EndWork DEF EasyEnds, EasyRuns, results, WorkInv
  <2>3. QED BY <1>8, <2>1, <2>2 DEF EasyEnds
<1>9. CASE FinishSave
  <2>1. file'.recs = mem /\ best' = mem /\ img' = img BY <1>9 DEF FinishSave, Whole, images
  <2>2. CASE WriterEnds BY <2>1, <2>2 DEF WriterEnds, WorkInv, FileInv, MemoryInv, ReadInv
  <2>3. CASE UNCHANGED <<writer, todo, mem, read>>
    <3>1. Kept(best', mem') BY <2>1, <2>3, KeptItself
    <3>2. Targets(mem)' = Targets(mem) /\ Targets(file.recs)' = Targets(mem)
      BY <2>1, <2>3 DEF Targets, Present
    <3>3. FileInv' BY <2>1, <2>3 DEF FileInv
    <3>4. MemoryInv' BY <2>3, <3>1, <3>2 DEF WorkInv, MemoryInv
    <3>5. ReadInv' BY <2>1, <2>3, <3>2 DEF WorkInv, MemoryInv, ReadInv
    <3>6. QED BY <3>3, <3>4, <3>5 DEF WorkInv
  <2>4. QED BY <1>9, <2>2, <2>3 DEF FinishSave
<1>10. CASE RunDog \/ DogChecks \/ DogGivesUp
  BY <1>0, <1>10 DEF RunDog, DogChecks, DogGivesUp
<1>11. ASSUME WriterDies, UNCHANGED <<file, best>> PROVE WorkInv'
  BY <1>11, EndWork DEF WriterDies, WorkInv
<1>12. CASE DogPolls
  BY <1>0, <1>11, <1>12 DEF DogPolls, results
<1>13. CASE Watching
  BY <1>0, <1>13 DEF Watching, RunWatcher, WatcherReads, FireCheckpoint, MarkFired,
    WatcherSleeps
<1>14. CASE Kill BY <1>0, <1>11, <1>14 DEF Kill, results
<1>15. CASE UNCHANGED vars BY <1>0, <1>15 DEF vars
<1>16. QED
  BY <1>1, <1>2, <1>3, <1>4, <1>5, <1>6, <1>7, <1>8, <1>9, <1>10, <1>12, <1>13, <1>14, <1>15
    DEF Next, Reading, Dog

(* A file becomes whole by a save only, and what a save writes is the      *)
(* memory of the writer.                                                   *)
LEMMA OnlySavesMakeWhole ==
  ASSUME FileTypes, [Next]_vars, file'.kind = "whole", file' # file
  PROVE  FinishSave
<1>0. Torn.kind # "whole" BY DEF Torn
<1>1. CASE Downloading
  BY <1>1 DEF Downloading, Download, TileWritten, DownloadEnds, SkipTile, FetchTile, results
<1>2. CASE Reading
  BY <1>0, <1>2 DEF Reading, RunPilot, PilotEnds, RunEasy, EasyEnds, LastSave, PilotReads,
    EasyReads, EasyFails, BeginSave, NoSave, results
<1>3. CASE RunDog \/ Dog
  BY <1>3 DEF RunDog, Dog, DogChecks, DogRestarts, DogGivesUp, DogPolls, results
<1>4. CASE Watching
  BY <1>4 DEF Watching, RunWatcher, WatcherReads, FireCheckpoint, MarkFired, WatcherSleeps,
    results
<1>5. CASE Kill \/ UNCHANGED vars BY <1>5 DEF Kill, vars, results
<1>6. QED BY <1>1, <1>2, <1>3, <1>4, <1>5 DEF Next

(* An EasyOCR pass ends by its last save, or without one if it is serial   *)
(* or killed.                                                              *)
LEMMA EndOfEasy ==
  ASSUME FileTypes, kills \in Nat, [Next]_vars, EasyPassEnds
  PROVE  \/ FinishSave
         \/ UNCHANGED <<file, img>> /\ (writer = "serial" \/ kills' # kills)
<1> USE DEF EasyPassEnds
<1>1. CASE Downloading
  BY <1>1 DEF Downloading, Download, TileWritten, DownloadEnds, SkipTile, FetchTile, writing
<1>2. CASE Reading
  BY <1>2 DEF Reading, RunPilot, PilotEnds, RunEasy, EasyEnds, LastSave, PilotReads,
    EasyReads, EasyFails, StartPilot, results, images
<1>3. CASE RunDog \/ Dog
  BY <1>3 DEF RunDog, Dog, DogChecks, DogRestarts, DogGivesUp, DogPolls, writing
<1>4. CASE Watching
  BY <1>4 DEF Watching, RunWatcher, WatcherReads, FireCheckpoint, MarkFired, WatcherSleeps,
    writing
<1>5. CASE Kill BY <1>5 DEF Kill, writing
<1>6. CASE UNCHANGED vars BY <1>6 DEF vars, writing
<1>7. QED BY <1>1, <1>2, <1>3, <1>4, <1>5, <1>6 DEF Next

(* Whichever of the writers is started, killed or given up, what a whole   *)
(* results file held is in the next one, unless a save was cut short or a  *)
(* slice passed the guard; what an EasyOCR pass with several workers has   *)
(* read is in the file it leaves, and what any pass has read and not saved *)
(* is read again.                                                          *)
THEOREM WritersKeepWork == Spec => WorkIsKept
<1>1. Init => WorkInv BY DEF Init, Absent, WorkInv, FileInv, MemoryInv, ReadInv
<1>2. TypeOK /\ WorkInv /\ [Next]_vars => WorkInv'
  BY WorkStep DEF TypeOK
<1>3. TypeOK /\ WorkInv /\ [Next]_vars
        => [file'.kind = "whole" /\ ~Kept(best, file'.recs) => cut \/ sliced]_vars
  <2>1. SUFFICES ASSUME TypeOK, WorkInv, [Next]_vars, ~cut, ~sliced, file'.kind = "whole"
                 PROVE  Kept(best, file'.recs)
    OBVIOUS
  <2>2. CASE file' = file BY <2>1, <2>2, WholeIsBest DEF TypeOK, WorkInv
  <2>3. CASE file' # file
    <3>1. FinishSave BY <2>1, <2>3, OnlySavesMakeWhole DEF TypeOK
    <3>2. file'.recs = mem /\ writer # "none" BY <2>1, <3>1 DEF FinishSave, Whole, TypeOK, FileTypes
    <3>3. QED BY <2>1, <3>2 DEF WorkInv, MemoryInv
  <2>4. QED BY <2>2, <2>3
<1>4. TypeOK /\ WorkInv /\ [Next]_vars
        => [EasyPassEnds /\ writer = "pool" /\ kills' = kills =>
              /\ file'.kind = "whole"
              /\ \A i \in read : /\ i \in DOMAIN file'.recs
                                 /\ file'.recs[i].easy = TextOf(i)
                                 /\ i \in EasyDated => file'.recs[i].date # "none"]_vars
  <2>1. SUFFICES ASSUME TypeOK, WorkInv, [Next]_vars,
                        EasyPassEnds, writer = "pool", kills' = kills
                 PROVE  /\ file'.kind = "whole"
                        /\ \A i \in read : /\ i \in DOMAIN file'.recs
                                           /\ file'.recs[i].easy = TextOf(i)
                                           /\ i \in EasyDated => file'.recs[i].date # "none"
    OBVIOUS
  <2>2. FinishSave BY <2>1, EndOfEasy DEF TypeOK, ImageTypes
  <2>3. file' = Whole(mem) BY <2>2 DEF FinishSave
  <2>4. QED BY <2>1, <2>3 DEF Whole, WorkInv, ReadInv
<1>5. TypeOK /\ WorkInv /\ [Next]_vars
        => [EasyPassEnds /\ file'.kind = "whole" =>
              \A i \in read :
                \/ i \in Targets(file'.recs)
                \/ i \in DOMAIN file'.recs /\ file'.recs[i].easy = TextOf(i)]_vars
  <2>1. SUFFICES ASSUME TypeOK, WorkInv, [Next]_vars,
                        EasyPassEnds, file'.kind = "whole", NEW i \in read
                 PROVE  \/ i \in Targets(file'.recs)
                        \/ i \in DOMAIN file'.recs /\ file'.recs[i].easy = TextOf(i)
    OBVIOUS
  <2>2. CASE FinishSave BY <2>1, <2>2 DEF EasyPassEnds, FinishSave, Whole, WorkInv, ReadInv
  <2>3. CASE UNCHANGED file BY <2>1, <2>3 DEF EasyPassEnds, WorkInv, ReadInv
  <2>4. QED BY <2>1, <2>2, <2>3, EndOfEasy DEF TypeOK, ImageTypes
<1>6. Spec => NothingDoneIsLost
  BY <1>1, <1>2, <1>3, CardIngestTypes, PTL DEF Spec, NothingDoneIsLost
<1>7. Spec => FinishedPassIsSaved
  BY <1>1, <1>2, <1>4, CardIngestTypes, PTL DEF Spec, FinishedPassIsSaved
<1>8. Spec => UnsavedIsReadAgain
  BY <1>1, <1>2, <1>5, CardIngestTypes, PTL DEF Spec, UnsavedIsReadAgain
<1>9. QED BY <1>6, <1>7, <1>8 DEF WorkIsKept
-----------------------------------------------------------------------------
(* What a kill inside a save or a slice has cost.                          *)

(* A part of a small set is small, and one more element makes one more.    *)
LEMMA NoMore ==
  ASSUME NEW S, NEW T, S \subseteq T, T \subseteq Images, NEW m \in Nat, NEW n \in Nat,
         Cardinality(T) <= m, m <= n
  PROVE  Cardinality(S) <= n
<1>1. IsFiniteSet(T) BY CardIngestAssumption, FS_Subset
<1>2. Cardinality(S) <= Cardinality(T) /\ Cardinality(S) \in Nat /\ Cardinality(T) \in Nat
  BY <1>1, FS_Subset, FS_CardinalityType
<1>3. QED BY <1>2

LEMMA OneMore ==
  ASSUME NEW S, NEW T, NEW i \in Images, S \subseteq T \cup {i}, T \subseteq Images,
         NEW m \in Nat, Cardinality(T) <= m
  PROVE  Cardinality(S) <= m + 1
<1>1. IsFiniteSet(T) BY CardIngestAssumption, FS_Subset
<1>2. /\ Cardinality(T) \in Nat /\ IsFiniteSet(T \cup {i})
      /\ Cardinality(T \cup {i}) \in {Cardinality(T), Cardinality(T) + 1}
  BY <1>1, FS_AddElement, FS_CardinalityType
<1>3. T \cup {i} \subseteq Images OBVIOUS
<1>4. Cardinality(T \cup {i}) <= m + 1 BY <1>2
<1>5. QED BY <1>3, <1>4, NoMore

(* What the records say of the dates, and the pilot of what it has to read.*)
DatesTrue ==
  \A i \in ever \cup TessOf(mem) \cup TessOf(file.recs) :
    i \in TessDated /\ img[i] = "whole"
FewGone == Cardinality(Gone(mem)) <= faults /\ Cardinality(Gone(file.recs)) <= faults
PilotGoesOn ==
  /\ writer = "pilot" => ever \subseteq todo \cup DOMAIN mem
  /\ writer = "pilot" /\ saving = "last" => todo = {}

LEMMA DatesParts == DatesInv <=> DatesTrue /\ FewGone /\ PilotGoesOn
BY DEF DatesInv, DatesTrue, FewGone, PilotGoesOn

(* A torn file has lost no date of anyone's: it has no records.            *)
LEMMA TornIsEmpty ==
  ASSUME file' = Torn
  PROVE  TessOf(file.recs)' = {} /\ Gone(file.recs)' = {}
BY DEF Torn, NoRecords, TessOf, Gone

(* Records with the dates of the memory or of the file, and a file that is *)
(* as it was or torn, are no worse than those were.                        *)
LEMMA DatesFrame ==
  ASSUME ImageTypes, FileTypes, DatesInv, [Next]_vars,
         faults' \in Nat, faults <= faults', UNCHANGED ever, file' \in {file, Torn},
         \/ \A j \in DOMAIN mem' : j \in DOMAIN mem /\ mem'[j].date = mem[j].date
         \/ \A j \in DOMAIN mem' : /\ j \in DOMAIN file.recs
                                    /\ mem'[j].date = file.recs[j].date
  PROVE  DatesTrue' /\ FewGone'
<1>1. /\ ever \subseteq Images /\ faults \in Nat
      /\ Gone(mem) \subseteq Images /\ Gone(file.recs) \subseteq Images
      /\ TessOf(mem) \subseteq Images /\ TessOf(file.recs) \subseteq Images
  BY DEF FileTypes, ImageTypes, IsRecords, Gone, TessOf
<1>2. \/ TessOf(mem)' \subseteq TessOf(mem) /\ Gone(mem)' \subseteq Gone(mem)
      \/ TessOf(mem)' \subseteq TessOf(file.recs) /\ Gone(mem)' \subseteq Gone(file.recs)
  <2>1. CASE \A j \in DOMAIN mem' : j \in DOMAIN mem /\ mem'[j].date = mem[j].date
    BY <2>1 DEF TessOf, Gone
  <2>2. CASE \A j \in DOMAIN mem' : /\ j \in DOMAIN file.recs
                                    /\ mem'[j].date = file.recs[j].date
    BY <2>2 DEF TessOf, Gone
  <2>3. QED BY <2>1, <2>2
<1>3. /\ TessOf(file.recs)' \subseteq TessOf(file.recs)
      /\ Gone(file.recs)' \subseteq Gone(file.recs)
  <2>1. CASE file' = file BY <2>1 DEF TessOf, Gone
  <2>2. CASE file' = Torn BY <2>2, TornIsEmpty
  <2>3. QED BY <2>1, <2>2
<1>4. DatesTrue'
  BY <1>1, <1>2, <1>3, ImagesStay, DatesParts DEF DatesTrue
<1>5. Cardinality(Gone(mem)) <= faults /\ Cardinality(Gone(file.recs)) <= faults
  BY DatesParts DEF FewGone
<1>6. Cardinality(Gone(mem)') <= faults'
  <2>1. CASE Gone(mem)' \subseteq Gone(mem) BY <1>1, <1>5, <2>1, NoMore
  <2>2. CASE Gone(mem)' \subseteq Gone(file.recs) BY <1>1, <1>5, <2>2, NoMore
  <2>3. QED BY <1>2, <2>1, <2>2
<1>7. Cardinality(Gone(file.recs)') <= faults' BY <1>1, <1>3, <1>5, NoMore
<1>8. QED BY <1>4, <1>6, <1>7 DEF FewGone

(* The pilot reads an image: one that has a date is read so again, unless  *)
(* the reading fails.                                                      *)
LEMMA PilotDates ==
  ASSUME ImageTypes, FileTypes, MemoryInv, DatesInv, [Next]_vars,
         NEW i \in Images, PilotReads(i)
  PROVE  DatesInv'
<1>0. /\ writer = "pilot" /\ writer' = "pilot" /\ i \in todo /\ todo' = todo \ {i}
      /\ UNCHANGED <<ever, img>> /\ file' \in {file, Torn} /\ i \notin DOMAIN mem
      /\ saving' # "last"
  BY DEF PilotReads, BeginSave, NoSave, results, images, MemoryInv
<1>1. PICK readable \in BOOLEAN :
        /\ mem' = WithRecord(mem, i, PilotRecord(i, readable))
        /\ \/ readable = (img[i] = "whole") /\ UNCHANGED faults
           \/ readable = FALSE /\ faults' = faults + 1
  BY DEF PilotReads, Fault
<1>2. /\ DOMAIN mem' = DOMAIN mem \cup {i} /\ \A j \in DOMAIN mem : mem'[j] = mem[j]
      /\ mem'[i].date = IF readable /\ i \in TessDated THEN "tesseract" ELSE "none"
  <2>1. mem'[i] = PilotRecord(i, readable) BY <1>1 DEF WithRecord
  <2>2. mem'[i].date = IF readable /\ i \in TessDated THEN "tesseract" ELSE "none"
    BY <2>1 DEF PilotRecord
  <2>3. DOMAIN mem' = DOMAIN mem \cup {i} /\ \A j \in DOMAIN mem : mem'[j] = mem[j]
    BY <1>0, <1>1, PilotMerge
  <2>4. QED BY <2>2, <2>3
<1>3. /\ ever \subseteq Images /\ faults \in Nat /\ Gone(mem) \subseteq Images
      /\ Gone(file.recs) \subseteq Images
      /\ Cardinality(Gone(mem)) <= faults /\ Cardinality(Gone(file.recs)) <= faults
      /\ \A j \in ever \cup TessOf(mem) \cup TessOf(file.recs) :
           j \in TessDated /\ img[j] = "whole"
  BY DatesParts DEF FileTypes, ImageTypes, IsRecords, Gone, DatesTrue, FewGone
<1>4. /\ TessOf(file.recs)' \subseteq TessOf(file.recs)
      /\ Gone(file.recs)' \subseteq Gone(file.recs)
  <2>1. CASE file' = file BY <1>0, <2>1 DEF TessOf, Gone
  <2>2. CASE file' = Torn BY <2>2, TornIsEmpty
  <2>3. QED BY <1>0, <2>1, <2>2
<1>5. \A j \in TessOf(mem)' : j \in TessDated /\ img[j] = "whole"
  <2>1. SUFFICES ASSUME NEW j \in DOMAIN mem', mem'[j].date = "tesseract"
                 PROVE  j \in TessDated /\ img[j] = "whole"
    BY DEF TessOf
  <2>2. CASE j = i BY <1>1, <1>2, <2>1, <2>2
  <2>3. CASE j # i BY <1>2, <1>3, <2>1, <2>3 DEF TessOf
  <2>4. QED BY <2>2, <2>3
<1>6. DatesTrue' BY <1>0, <1>3, <1>4, <1>5 DEF DatesTrue
<1>7. Gone(mem)' \subseteq Gone(mem) \cup {i} BY <1>0, <1>2 DEF Gone
<1>8. Cardinality(Gone(mem)') <= faults' /\ faults <= faults' /\ faults' \in Nat
  <2>1. CASE readable = (img[i] = "whole") /\ UNCHANGED faults
    <3>1. i \notin Gone(mem)' BY <1>0, <1>2, <1>3, <2>1 DEF Gone
    <3>2. Gone(mem)' \subseteq Gone(mem) BY <1>7, <3>1
    <3>3. QED BY <1>3, <2>1, <3>2, NoMore
  <2>2. CASE faults' = faults + 1 BY <1>3, <1>7, <2>2, OneMore
  <2>3. QED BY <1>1, <2>1, <2>2
<1>9. Cardinality(Gone(file.recs)') <= faults' BY <1>3, <1>4, <1>8, NoMore
<1>10. FewGone' BY <1>8, <1>9 DEF FewGone
<1>11. PilotGoesOn' BY <1>0, <1>2, DatesParts DEF PilotGoesOn
<1>12. QED BY <1>6, <1>10, <1>11, DatesParts DEF DatesInv, DatesTrue, FewGone, PilotGoesOn

(* A save puts the records of the memory in the file, and what dates they  *)
(* have are dates a file has had.                                          *)
LEMMA SavedDates ==
  ASSUME ImageTypes, FileTypes, DatesInv, FinishSave
  PROVE  DatesInv'
<1>1. /\ file'.recs = mem /\ ever' = ever \cup TessOf(mem) /\ img' = img
      /\ faults' = faults
  BY DEF FinishSave, Whole, images, bounds
<1>2. TessOf(file.recs)' = TessOf(mem) /\ Gone(file.recs)' = Gone(mem)
  BY <1>1 DEF TessOf, Gone
<1>3. \/ WriterEnds
      \/ saving' = "no" /\ UNCHANGED <<writer, todo, mem>>
  BY DEF FinishSave
<1>4. CASE WriterEnds
  <2>1. TessOf(mem)' = {} /\ Gone(mem)' = {} /\ writer' = "none"
    BY <1>4 DEF WriterEnds, NoRecords, TessOf, Gone
  <2>2. Cardinality({}) <= faults BY FS_EmptySet DEF ImageTypes
  <2>3. QED BY <1>1, <1>2, <2>1, <2>2 DEF DatesInv
<1>5. CASE saving' = "no" /\ UNCHANGED <<writer, todo, mem>>
  <2>1. TessOf(mem)' = TessOf(mem) /\ Gone(mem)' = Gone(mem)
    BY <1>1, <1>5 DEF TessOf, Gone
  <2>2. TessOf(mem) \subseteq DOMAIN mem BY DEF TessOf
  <2>3. QED BY <1>1, <1>2, <1>5, <2>1, <2>2 DEF DatesInv
<1>6. QED BY <1>3, <1>4, <1>5

LEMMA DatesStep ==
  ASSUME ImageTypes, FileTypes, MemoryInv, DatesInv, [Next]_vars
  PROVE  DatesInv'
<1> USE DatesParts
<1>a. faults \in Nat BY DEF ImageTypes
<1>b. UNCHANGED faults \/ Fault => faults' \in Nat /\ faults <= faults'
  BY <1>a DEF Fault
<1>0. ASSUME UNCHANGED <<results, writing>>, UNCHANGED faults \/ Fault PROVE DatesInv'
  <2>1. UNCHANGED <<file, ever, writer, todo, mem, saving>> BY <1>0 DEF results, writing
  <2>2. DatesTrue' /\ FewGone' BY <1>0, <1>b, <2>1, DatesFrame
  <2>3. PilotGoesOn' BY <2>1 DEF PilotGoesOn
  <2>4. QED BY <2>2, <2>3 DEF DatesInv, DatesTrue, FewGone, PilotGoesOn
<1>c. ASSUME DatesTrue', FewGone', PilotGoesOn' PROVE DatesInv'
  BY <1>c DEF DatesInv, DatesTrue, FewGone, PilotGoesOn
<1>1. CASE Downloading
  BY <1>0, <1>1 DEF Downloading, Download, TileWritten, DownloadEnds, SkipTile, FetchTile,
    bounds
<1>2. CASE RunPilot \/ DogRestarts
  <2>1. StartPilot /\ UNCHANGED <<file, ever, faults, img>>
    BY <1>2 DEF RunPilot, DogRestarts, images, bounds
  <2>2. /\ mem' = file.recs /\ saving' = "no"
        /\ todo' = {i \in Images : Present(i)} \ DOMAIN file.recs
    BY <2>1 DEF StartPilot, Existing
  <2>3. DatesTrue' /\ FewGone' BY <1>b, <2>1, <2>2, DatesFrame
  <2>4. \A i \in ever : i \in Images /\ Present(i)
    BY DEF DatesTrue, Present, FileTypes
  <2>5. PilotGoesOn' BY <2>1, <2>2, <2>4 DEF PilotGoesOn
  <2>6. QED BY <1>c, <2>3, <2>5
<1>3. ASSUME NEW i \in Images, PilotReads(i) PROVE DatesInv'
  BY <1>3, PilotDates
<1>4. CASE PilotEnds
  <2>1. /\ UNCHANGED <<ever, mem, todo, writer, faults>> /\ file' = Torn /\ todo = {}
    BY <1>4 DEF PilotEnds, BeginSave, bounds
  <2>2. DatesTrue' /\ FewGone' BY <1>b, <2>1, DatesFrame
  <2>3. PilotGoesOn' BY <2>1 DEF PilotGoesOn
  <2>4. QED BY <1>c, <2>2, <2>3
<1>5. CASE RunEasy
  <2>1. PICK slice \in Slices \cup {Images} :
          mem' = Restrict(file.recs, slice \cap DOMAIN file.recs)
    BY <1>5 DEF RunEasy
  <2>2. UNCHANGED <<ever, file, faults>> /\ writer' # "pilot"
    BY <1>5 DEF RunEasy, bounds
  <2>3. \A j \in DOMAIN mem' : j \in DOMAIN file.recs /\ mem'[j].date = file.recs[j].date
    BY <2>1 DEF Restrict
  <2>4. DatesTrue' /\ FewGone' BY <1>b, <2>2, <2>3, DatesFrame
  <2>5. PilotGoesOn' BY <2>2 DEF PilotGoesOn
  <2>6. QED BY <1>c, <2>4, <2>5
<1>6. ASSUME NEW i \in Images, EasyReads(i) PROVE DatesInv'
  <2>1. /\ UNCHANGED <<ever, faults, writer, img>> /\ file' \in {file, Torn}
        /\ writer \in {"pool", "serial"} /\ i \in todo /\ mem' = Merged(mem, i, TextOf(i))
    BY <1>6 DEF EasyReads, EasyRuns, BeginSave, NoSave, results, images, bounds
  <2>2. i \in DOMAIN mem /\ mem[i].date = "none" BY <2>1 DEF MemoryInv, Targets
  <2>3. /\ DOMAIN mem' = DOMAIN mem /\ \A j \in DOMAIN mem : j # i => mem'[j] = mem[j]
        /\ mem'[i].date # "tesseract"
    <3>1. DOMAIN mem' = DOMAIN mem /\ \A j \in DOMAIN mem : j # i => mem'[j] = mem[j]
      BY <2>1, EasyMerge DEF FileTypes
    <3>2. mem'[i] = [ocr |-> mem[i].ocr, easy |-> TextOf(i),
                    date |-> IF mem[i].date = "none" /\ i \in EasyDated
                             THEN "easyocr" ELSE mem[i].date]
      BY <2>1, <2>2, EasyMerge DEF FileTypes
    <3>3. QED BY <2>2, <3>1, <3>2
  <2>4. TessOf(mem)' = TessOf(mem) /\ Gone(mem)' = Gone(mem)
    BY <2>1, <2>2, <2>3 DEF TessOf, Gone
  <2>5. /\ TessOf(file.recs)' \subseteq TessOf(file.recs)
        /\ Gone(file.recs)' \in {Gone(file.recs), {}}
    <3>1. CASE file' = file BY <2>1, <3>1 DEF TessOf, Gone
    <3>2. CASE file' = Torn BY <3>2, TornIsEmpty
    <3>3. QED BY <2>1, <3>1, <3>2
  <2>6. DatesTrue' BY <2>1, <2>4, <2>5 DEF DatesTrue
  <2>7. Cardinality({}) <= faults BY <1>a, FS_EmptySet
  <2>8. FewGone' BY <2>1, <2>4, <2>5, <2>7 DEF FewGone
  <2>9. PilotGoesOn' BY <2>1 DEF PilotGoesOn
  <2>10. QED BY <1>c, <2>6, <2>8, <2>9
<1>7. ASSUME NEW i \in Images, EasyFails(i) PROVE DatesInv'
  <2>1. /\ UNCHANGED <<ever, mem, writer>> /\ file' \in {file, Torn}
        /\ writer \in {"pool", "serial"} /\ (UNCHANGED faults \/ Fault)
    BY <1>7 DEF EasyFails, EasyRuns, BeginSave, NoSave, results
  <2>2. DatesTrue' /\ FewGone' BY <1>b, <2>1, DatesFrame
  <2>3. PilotGoesOn' BY <2>1 DEF PilotGoesOn
  <2>4. QED BY <1>c, <2>2, <2>3
<1>11. ASSUME WriterEnds, UNCHANGED <<file, ever, faults>> PROVE DatesInv'
  <2>1. DOMAIN mem' = {} /\ writer' = "none" BY <1>11 DEF WriterEnds, NoRecords
  <2>2. DatesTrue' /\ FewGone' BY <1>b, <1>11, <2>1, DatesFrame
  <2>3. PilotGoesOn' BY <2>1 DEF PilotGoesOn
  <2>4. QED BY <1>c, <2>2, <2>3
<1>8. CASE EasyEnds
  <2>1. CASE LastSave
    <3>1. UNCHANGED <<ever, mem, writer, faults>> /\ file' = Torn /\ writer # "pilot"
      BY <1>8, <2>1 DEF EasyEnds, LastSave, BeginSave, bounds
    <3>2. DatesTrue' /\ FewGone' BY <1>b, <3>1, DatesFrame
    <3>3. PilotGoesOn' BY <3>1 DEF PilotGoesOn
    <3>4. QED BY <1>c, <3>2, <3>3
  <2>2. CASE WriterEnds /\ UNCHANGED results
    BY <1>8, <1>11, <2>2 DEF EasyEnds, results, bounds
  <2>3. QED BY <1>8, <2>1, <2>2 DEF EasyEnds
<1>9. CASE FinishSave BY <1>9, SavedDates
<1>10. CASE RunDog \/ DogChecks \/ DogGivesUp
  BY <1>0, <1>10 DEF RunDog, DogChecks, DogGivesUp, bounds
<1>12. CASE DogPolls
  BY <1>0, <1>11, <1>12 DEF DogPolls, WriterDies, results, bounds
<1>13. CASE Watching
  BY <1>0, <1>13 DEF Watching, RunWatcher, WatcherReads, FireCheckpoint, MarkFired,
    WatcherSleeps, bounds
<1>14. CASE Kill BY <1>0, <1>11, <1>14 DEF Kill, WriterDies, results
<1>15. CASE UNCHANGED vars BY <1>0, <1>15 DEF vars, bounds
<1>16. QED
  BY <1>1, <1>2, <1>3, <1>4, <1>5, <1>6, <1>7, <1>8, <1>9, <1>10, <1>12, <1>13, <1>14, <1>15
    DEF Next, Reading, Dog

(* Wherever the writers are killed, whatever slices are written over the   *)
(* file: when the pilot is through, the file has every Tesseract date a    *)
(* whole file ever held, up to one for each reading that failed.           *)
THEOREM PilotBringsDatesBack == Spec => DatesAreReread
<1>1. Init => WorkInv BY DEF Init, Absent, WorkInv, FileInv, MemoryInv, ReadInv
<1>2. ASSUME Init PROVE DatesInv
  <2>1. /\ ever = {} /\ mem = NoRecords /\ file.recs = NoRecords /\ writer = "none"
        /\ faults = 0
    BY <1>2 DEF Init, Absent
  <2>2. TessOf(mem) = {} /\ TessOf(file.recs) = {} /\ Gone(mem) = {} /\ Gone(file.recs) = {}
    BY <2>1 DEF TessOf, Gone, NoRecords
  <2>3. QED BY <2>1, <2>2, FS_EmptySet DEF DatesInv
<1>3. TypeOK /\ WorkInv /\ DatesInv /\ [Next]_vars => WorkInv' /\ DatesInv'
  BY WorkStep, DatesStep DEF TypeOK, WorkInv
<1>4. TypeOK /\ WorkInv /\ DatesInv /\ [Next]_vars
        => [writer = "pilot" /\ saving = "last" /\ file'.kind = "whole" =>
              Cardinality(ever \ TessOf(file'.recs)) <= faults]_vars
  <2>1. SUFFICES ASSUME TypeOK, WorkInv, DatesInv, [Next]_vars,
                        writer = "pilot", saving = "last", file'.kind = "whole"
                 PROVE  Cardinality(ever \ TessOf(file'.recs)) <= faults
    OBVIOUS
  <2>2. file = Torn BY <2>1 DEF TypeOK, FileTypes
  <2>3. FinishSave BY <2>1, <2>2, OnlySavesMakeWhole DEF TypeOK, Torn
  <2>4. file'.recs = mem BY <2>3 DEF FinishSave, Whole
  <2>5. ever \subseteq DOMAIN mem BY <2>1 DEF DatesInv
  <2>6. ever \ TessOf(file'.recs) = Gone(mem) BY <2>4, <2>5 DEF TessOf, Gone
  <2>7. QED BY <2>1, <2>6 DEF DatesInv
<1>5. QED BY <1>1, <1>2, <1>3, <1>4, CardIngestTypes, PTL DEF Spec, DatesAreReread
-----------------------------------------------------------------------------
(* A date on the record of a side, and what kind and year a text has.      *)
Finds(text) == D!FindDeathDate(text, D!PilotName)
SameDate(d, e) == d.kind = e.kind /\ d.year = e.year
IsDate(d) ==
  d = [kind |-> d.kind, year |-> d.year, keyword |-> d.keyword, named |-> d.named,
       granted |-> d.granted]
IsSide(r) ==
  /\ r = [red |-> r.red, full |-> r.full, easy |-> r.easy, date |-> r.date,
          source |-> r.source]
  /\ IsDate(r.date)

(* Where a date is Tesseract's, its own text has it, and the texts before  *)
(* and behind that one have none.                                          *)
SideInv(r) ==
  /\ IsSide(r)
  /\ \/ /\ r.source = "red" /\ Finds(r.red) # D!NoDate
        /\ SameDate(r.date, Finds(r.red)) /\ r.full = <<>> /\ r.easy = <<>>
     \/ /\ r.source = "full-fallback"
        /\ Finds(r.red) = D!NoDate /\ Finds(r.full) # D!NoDate
        /\ SameDate(r.date, Finds(r.full)) /\ r.easy = <<>>
     \/ /\ r.source \notin {"red", "full-fallback"}
        /\ Finds(r.red) = D!NoDate /\ Finds(r.full) = D!NoDate

SidesInv == DOMAIN rec = Sides /\ \A s \in Sides : SideInv(rec[s])

(* The parser gives a date or none; none of an empty text.                 *)
LEMMA ParserFacts ==
  ASSUME NEW text, NEW name
  PROVE  LET d == D!FindDeathDate(text, name) IN
         /\ IsDate(d)
         /\ d # D!NoDate => d.kind # "none"
         /\ text = <<>> => d = D!NoDate
<1> DEFINE d == D!FindDeathDate(text, name)
<1> SUFFICES IsDate(d) /\ (d # D!NoDate => d.kind # "none")
             /\ (text = <<>> => d = D!NoDate)
  OBVIOUS
<1>1. \/ d = D!NoDate
      \/ /\ text # <<>>
         /\ \E kind \in {"year-only", "date"} : \E year, keyword, named, granted :
              d = [kind |-> kind, year |-> year, keyword |-> keyword,
                   named |-> named, granted |-> granted]
  BY Zenon DEF D!FindDeathDate, D!KindOf
<1> HIDE DEF d
<1>2. CASE d = D!NoDate BY <1>2 DEF IsDate, D!NoDate
<1>3. CASE d # D!NoDate
  <2>1. PICK kind, year, keyword, named, granted :
          /\ kind \in {"year-only", "date"}
          /\ d = [kind |-> kind, year |-> year, keyword |-> keyword,
                  named |-> named, granted |-> granted]
    BY <1>1, <1>3
  <2>2. text # <<>> BY <1>1, <1>3
  <2> QED BY <1>3, <2>1, <2>2 DEF IsDate
<1> QED BY <1>2, <1>3

LEMMA TaggedFacts ==
  ASSUME NEW d, IsDate(d), NEW texts, NEW name, NEW e \in D!Tagged(d, texts, name)
  PROVE  IsDate(e) /\ SameDate(e, d)
BY DEF IsDate, SameDate, D!Tagged

LEMMA UnreadSide == SideInv(D!Unread)
BY ParserFacts DEF SideInv, IsSide, IsDate, D!Unread, D!NoDate, Finds

(* One side has changed.                                                   *)
LEMMA OneSide ==
  ASSUME SidesInv, NEW s \in Sides, NEW r, SideInv(r), rec' = [rec EXCEPT ![s] = r]
  PROVE  SidesInv'
BY DEF SidesInv, SideInv, Finds

LEMMA ImageRead ==
  ASSUME SidesInv, NEW s \in Sides, D!ProcessImage(s)
  PROVE  SidesInv' /\ \A o \in Sides : o # s => rec'[o] = rec[o]
<1>1. PICK red : 
        LET byRed == Finds(red) IN
        IF byRed # D!NoDate
        THEN \E date \in D!Tagged(byRed, <<red>>, D!PilotName) :
               rec' = [rec EXCEPT ![s] =
                 [red |-> red, full |-> <<>>, easy |-> <<>>, date |-> date,
                  source |-> "red"]]
        ELSE \E full : LET byFull == Finds(full) IN
               \E date \in IF byFull = D!NoDate THEN {D!NoDate}
                          ELSE D!Tagged(byFull, <<red, full>>, D!PilotName) :
                 rec' = [rec EXCEPT ![s] =
                   [red |-> red, full |-> full, easy |-> <<>>, date |-> date,
                    source |-> IF byFull = D!NoDate THEN "none" ELSE "full-fallback"]]
  BY Zenon DEF D!ProcessImage, Finds
<1>2. \E r : SideInv(r) /\ rec' = [rec EXCEPT ![s] = r]
  <2>1. CASE Finds(red) # D!NoDate
    <3>1. PICK date \in D!Tagged(Finds(red), <<red>>, D!PilotName) :
            rec' = [rec EXCEPT ![s] =
              [red |-> red, full |-> <<>>, easy |-> <<>>, date |-> date,
               source |-> "red"]]
      BY <1>1, <2>1
    <3>2. IsDate(date) /\ SameDate(date, Finds(red))
      BY <3>1, TaggedFacts, ParserFacts DEF Finds
    <3>3. SideInv([red |-> red, full |-> <<>>, easy |-> <<>>, date |-> date,
                   source |-> "red"])
      BY <2>1, <3>2 DEF SideInv, IsSide
    <3> QED BY <3>1, <3>3
  <2>2. CASE Finds(red) = D!NoDate
    <3>1. PICK full : 
            \E date \in IF Finds(full) = D!NoDate THEN {D!NoDate}
                       ELSE D!Tagged(Finds(full), <<red, full>>, D!PilotName) :
              rec' = [rec EXCEPT ![s] =
                [red |-> red, full |-> full, easy |-> <<>>, date |-> date,
                 source |-> IF Finds(full) = D!NoDate THEN "none" ELSE "full-fallback"]]
      BY <1>1, <2>2
    <3>2. CASE Finds(full) = D!NoDate
      <4>1. rec' = [rec EXCEPT ![s] =
                [red |-> red, full |-> full, easy |-> <<>>, date |-> D!NoDate,
                 source |-> "none"]]
        BY <3>1, <3>2
      <4>2. SideInv([red |-> red, full |-> full, easy |-> <<>>, date |-> D!NoDate,
                     source |-> "none"])
        BY <2>2, <3>2, ParserFacts DEF SideInv, IsSide, Finds
      <4> QED BY <4>1, <4>2
    <3>3. CASE Finds(full) # D!NoDate
      <4>1. PICK date \in D!Tagged(Finds(full), <<red, full>>, D!PilotName) :
              rec' = [rec EXCEPT ![s] =
                [red |-> red, full |-> full, easy |-> <<>>, date |-> date,
                 source |-> "full-fallback"]]
        BY <3>1, <3>3
      <4>2. IsDate(date) /\ SameDate(date, Finds(full))
        BY <4>1, TaggedFacts, ParserFacts DEF Finds
      <4>3. SideInv([red |-> red, full |-> full, easy |-> <<>>, date |-> date,
                     source |-> "full-fallback"])
        BY <2>2, <3>3, <4>2 DEF SideInv, IsSide
      <4> QED BY <4>1, <4>3
    <3> QED BY <3>2, <3>3
  <2> QED BY <2>1, <2>2
<1>3. DOMAIN rec = Sides BY DEF SidesInv
<1> QED BY <1>2, <1>3, OneSide

Changed(r, easy, date, source) ==
  [r EXCEPT !.easy = easy, !.date = date, !.source = source]

LEMMA SideWith ==
  ASSUME NEW r, IsSide(r), NEW easy, NEW date, NEW source
  PROVE  Changed(r, easy, date, source) =
           [red |-> r.red, full |-> r.full, easy |-> easy, date |-> date,
            source |-> source]
<1>1. PICK a, b, c, d, e :
        r = [red |-> a, full |-> b, easy |-> c, date |-> d, source |-> e]
  BY DEF IsSide
<1> DEFINE r1 == [r EXCEPT !.easy = easy]
           r2 == [r1 EXCEPT !.date = date]
           r3 == [r2 EXCEPT !.source = source]
<1>2. r1 = [red |-> a, full |-> b, easy |-> easy, date |-> d, source |-> e]
  BY <1>1
<1> HIDE DEF r1
<1>3. r2 = [red |-> a, full |-> b, easy |-> easy, date |-> date, source |-> e]
  BY <1>2
<1> HIDE DEF r2
<1>4. r3 = [red |-> a, full |-> b, easy |-> easy, date |-> date, source |-> source]
  BY <1>3
<1>5. Changed(r, easy, date, source) = r3
  BY Zenon DEF r1, r2, Changed
<1> HIDE DEF r3
<1> QED BY <1>1, <1>4, <1>5

LEMMA SameEasy ==
  ASSUME NEW r, IsSide(r), NEW date, NEW source
  PROVE  [r EXCEPT !.date = date, !.source = source] = Changed(r, r.easy, date, source)
<1> DEFINE r2 == [r EXCEPT !.date = date]
<1>1. r2 = [red |-> r.red, full |-> r.full, easy |-> r.easy, date |-> date,
            source |-> r.source]
  <2>1. PICK a, b, c, d, e :
          r = [red |-> a, full |-> b, easy |-> c, date |-> d, source |-> e]
    BY DEF IsSide
  <2> QED BY <2>1
<1>2. [r EXCEPT !.date = date, !.source = source] = [r2 EXCEPT !.source = source]
  BY Zenon
<1> HIDE DEF r2
<1>3. [r2 EXCEPT !.source = source] =
        [red |-> r.red, full |-> r.full, easy |-> r.easy, date |-> date,
         source |-> source]
  BY <1>1
<1>4. Changed(r, r.easy, date, source) =
        [red |-> r.red, full |-> r.full, easy |-> r.easy, date |-> date,
         source |-> source]
  BY SideWith
<1> QED BY Zenon, <1>2, <1>3, <1>4

(* A side that gets a date from elsewhere.                                 *)
LEMMA NewDate ==
  ASSUME NEW r, IsSide(r), Finds(r.red) = D!NoDate, Finds(r.full) = D!NoDate,
         NEW easy, NEW date, IsDate(date),
         NEW source, source \notin {"red", "full-fallback"}
  PROVE  SideInv(Changed(r, easy, date, source))
<1>1. Changed(r, easy, date, source) =
        [red |-> r.red, full |-> r.full, easy |-> easy, date |-> date,
         source |-> source]
  BY SideWith
<1> QED BY <1>1 DEF SideInv, IsSide

LEMMA EasyStep ==
  ASSUME SidesInv, NEW s \in Sides, D!EasyRead(s)
  PROVE  SidesInv' /\ rec[s].source \notin {"red", "full-fallback"}
         /\ \A o \in Sides : o # s => rec'[o] = rec[o]
<1> DEFINE r == rec[s]
<1>1. SideInv(r) /\ r.date = D!NoDate BY DEF SidesInv, D!EasyRead, D!IsTarget
<1>2. /\ r.source \notin {"red", "full-fallback"}
      /\ Finds(r.red) = D!NoDate /\ Finds(r.full) = D!NoDate
  <2>1. D!NoDate.kind = "none" BY DEF D!NoDate
  <2>2. \A text : Finds(text) # D!NoDate => Finds(text).kind # "none"
    BY ParserFacts DEF Finds
  <2> QED BY <1>1, <2>1, <2>2 DEF SideInv, SameDate
<1>3. PICK easy : 
        LET together == D!FindDeathDate(r.red \o r.full \o easy, D!PensionerName)
            new == IF together # D!NoDate THEN together
                   ELSE D!FindDeathDate(easy, D!PensionerName)
        IN  \E date \in IF new = D!NoDate THEN {D!NoDate}
                       ELSE D!Tagged(new, <<r.red, r.full, easy>>, D!PensionerName) :
              rec' = [rec EXCEPT ![s] = [r EXCEPT !.easy = easy,
                !.date = IF r.date = D!NoDate THEN date ELSE @,
                !.source = IF r.date = D!NoDate /\ date # D!NoDate THEN "easyocr"
                           ELSE @]]
  BY Zenon DEF D!EasyRead
<1>4. \E date : /\ IsDate(date)
                /\ rec' = [rec EXCEPT ![s] = [r EXCEPT !.easy = easy, !.date = date,
                     !.source = IF date # D!NoDate THEN "easyocr" ELSE @]]
  <2> DEFINE together == D!FindDeathDate(r.red \o r.full \o easy, D!PensionerName)
             new == IF together # D!NoDate THEN together
                    ELSE D!FindDeathDate(easy, D!PensionerName)
  <2>1. PICK date \in IF new = D!NoDate THEN {D!NoDate}
                     ELSE D!Tagged(new, <<r.red, r.full, easy>>, D!PensionerName) :
              rec' = [rec EXCEPT ![s] = [r EXCEPT !.easy = easy,
                !.date = IF r.date = D!NoDate THEN date ELSE @,
                !.source = IF r.date = D!NoDate /\ date # D!NoDate THEN "easyocr"
                           ELSE @]]
    BY <1>3
  <2>2. IsDate(new) BY ParserFacts
  <2> HIDE DEF new
  <2>3. IsDate(date) BY <2>1, <2>2, TaggedFacts DEF IsDate, D!NoDate
  <2> QED BY <1>1, <2>1, <2>3
<1>5. PICK date : /\ IsDate(date)
                  /\ rec' = [rec EXCEPT ![s] = [r EXCEPT !.easy = easy, !.date = date,
                       !.source = IF date # D!NoDate THEN "easyocr" ELSE @]]
  BY <1>4
<1>6. SideInv([r EXCEPT !.easy = easy, !.date = date,
                 !.source = IF date # D!NoDate THEN "easyocr" ELSE @])
  <2> DEFINE source == IF date # D!NoDate THEN "easyocr" ELSE r.source
  <2>1. IsSide(r) /\ source \notin {"red", "full-fallback"}
    BY <1>1, <1>2 DEF SideInv
  <2> HIDE DEF source
  <2>2. SideInv(Changed(r, easy, date, source))
    BY <1>2, <1>5, <2>1, NewDate
  <2> QED BY Zenon, <2>2 DEF source, Changed
<1>7. DOMAIN rec = Sides BY DEF SidesInv
<1> QED BY <1>2, <1>5, <1>6, <1>7, OneSide

LEMMA AcceptStep ==
  ASSUME SidesInv, NEW s \in Sides, D!Accept(s)
  PROVE  SidesInv' /\ rec[s].source \notin {"red", "full-fallback"}
         /\ \A o \in Sides : o # s => rec'[o] = rec[o]
<1> DEFINE r == rec[s]
<1>1. SideInv(r) /\ r.date = D!NoDate /\ DOMAIN rec = Sides
  BY DEF SidesInv, D!Accept
<1>2. /\ r.source \notin {"red", "full-fallback"}
      /\ Finds(r.red) = D!NoDate /\ Finds(r.full) = D!NoDate
  <2>1. D!NoDate.kind = "none" BY DEF D!NoDate
  <2>2. \A text : Finds(text) # D!NoDate => Finds(text).kind # "none"
    BY ParserFacts DEF Finds
  <2> QED BY <1>1, <2>1, <2>2 DEF SideInv, SameDate
<1>3. PICK date \in D!Proposals(r) :
        rec' = [rec EXCEPT ![s] = [r EXCEPT !.date = date, !.source = "recovered"]]
  BY Zenon DEF D!Accept
<1>4. IsDate(date) BY <1>3 DEF D!Proposals, IsDate
<1>5. rec' = [rec EXCEPT ![s] =
                Changed(r, r.easy, date, "recovered")]
  <2>1. IsSide(r) BY <1>1 DEF SideInv
  <2> HIDE DEF r
  <2>2. [r EXCEPT !.date = date, !.source = "recovered"] =
          Changed(r, r.easy, date, "recovered")
    BY Zenon, <2>1, SameEasy
  <2> QED BY <1>3, <2>2
<1>6. SideInv(Changed(r, r.easy, date, "recovered"))
  <2>1. "recovered" \notin {"red", "full-fallback"} OBVIOUS
  <2>2. IsSide(r) BY <1>1 DEF SideInv
  <2> HIDE DEF r
  <2> QED BY <1>2, <1>4, <2>1, <2>2, NewDate
<1> QED BY <1>1, <1>2, <1>5, <1>6, OneSide

(* A side whose texts are parsed anew.                                     *)
LEMMA ParsedAnew ==
  ASSUME ~Widow, NEW r, SideInv(r)
  PROVE  LET new == D!ReEnriched(r, D!PensionerName) IN
         /\ SideInv(new)
         /\ r.source \in {"red", "full-fallback"} =>
              new.source = r.source /\ SameDate(new.date, r.date)
<1> DEFINE name == D!PensionerName
           parsed == [n \in 1 .. 3 |-> D!FindDeathDate(D!TextsOf(r)[n], name)]
           hits == {n \in 1 .. 3 : parsed[n] # D!NoDate}
           top == CHOOSE n \in hits : \A o \in hits \ {n} :
                     D!Less(D!Preference(parsed[n], n), D!Preference(parsed[o], o))
           new == D!ReEnriched(r, name)
           words == D!FlattenSeq(D!TextsOf(r)[top])
<1> SUFFICES /\ SideInv(new)
             /\ r.source \in {"red", "full-fallback"} =>
                  new.source = r.source /\ SameDate(new.date, r.date)
  OBVIOUS
<1>1. name = D!PilotName BY DEF D!PensionerName, D!PilotName
<1>2. parsed[1] = Finds(r.red) /\ parsed[2] = Finds(r.full) /\ parsed[3] = Finds(r.easy)
  BY <1>1 DEF Finds, D!TextsOf
<1>3. Finds(<<>>) = D!NoDate BY ParserFacts DEF Finds
<1>4. \A n \in hits : IsDate(parsed[n]) BY ParserFacts
<1>5. new = IF hits = {} THEN [r EXCEPT !.date = D!NoDate, !.source = "none"]
            ELSE [r EXCEPT !.date = [parsed[top] EXCEPT
                             !.keyword = D!Has(words, D!Keywords),
                             !.named = name # "" /\ D!Has(words, {name})],
                           !.source = D!Sources[top]]
  BY Zenon DEF D!ReEnriched
<1>6. \A n : hits = {n} => top = n OBVIOUS
<1> HIDE DEF name, parsed, top, words, new
<1>7. ASSUME NEW n \in {1, 2, 3}, hits = {n}
      PROVE  \E date : /\ IsDate(date) /\ SameDate(date, parsed[n])
                       /\ new = Changed(r, r.easy, date, D!Sources[n])
  <2> DEFINE date == [parsed[n] EXCEPT
                       !.keyword = D!Has(words, D!Keywords),
                       !.named = name # "" /\ D!Has(words, {name})]
  <2>1. top = n /\ hits # {} /\ IsDate(parsed[n]) BY <1>4, <1>6, <1>7
  <2>2. IsDate(date) /\ SameDate(date, parsed[n])
    <3>1. PICK kind, year, keyword, named, granted :
            parsed[n] = [kind |-> kind, year |-> year, keyword |-> keyword,
                         named |-> named, granted |-> granted]
      BY <2>1 DEF IsDate
    <3> DEFINE k == D!Has(words, D!Keywords)
               w == (name # "" /\ D!Has(words, {name}))
               with == [parsed[n] EXCEPT !.keyword = k]
    <3>2. with = [kind |-> kind, year |-> year, keyword |-> k, named |-> named,
                  granted |-> granted]
      BY <3>1
    <3>3. date = [with EXCEPT !.named = w] BY Zenon
    <3> HIDE DEF k, w, with, date
    <3>4. date = [kind |-> kind, year |-> year, keyword |-> k, named |-> w,
                  granted |-> granted]
      BY <3>2, <3>3
    <3> QED BY <3>1, <3>4 DEF IsDate, SameDate
  <2>3. new = [r EXCEPT !.date = date, !.source = D!Sources[n]] BY <1>5, <2>1
  <2> HIDE DEF date
  <2>4. new = Changed(r, r.easy, date, D!Sources[n])
    BY Zenon, <2>3, SameEasy DEF SideInv
  <2> QED BY <2>2, <2>4
<1>8. CASE r.source \in {"red", "full-fallback"}
  <2> DEFINE n == IF r.source = "red" THEN 1 ELSE 2
  <2>1. hits = {n} /\ SameDate(r.date, parsed[n])
    BY <1>2, <1>3, <1>8 DEF SideInv
  <2>2. n \in {1, 2} /\ D!Sources[n] = r.source BY <1>8 DEF D!Sources
  <2> HIDE DEF n
  <2>3. PICK date : /\ IsDate(date) /\ SameDate(date, parsed[n])
                    /\ new = Changed(r, r.easy, date, D!Sources[n])
    BY <1>7, <2>1, <2>2
  <2>4. new = [red |-> r.red, full |-> r.full, easy |-> r.easy, date |-> date,
               source |-> r.source]
    BY <2>2, <2>3, SideWith DEF SideInv
  <2>5. SameDate(date, r.date) BY <2>1, <2>3 DEF SameDate
  <2>6. /\ IsSide(new) /\ new.red = r.red /\ new.full = r.full /\ new.easy = r.easy
        /\ new.date = date /\ new.source = r.source
    BY <2>3, <2>4 DEF IsSide
  <2>7. SideInv(new) BY <1>8, <2>5, <2>6 DEF SideInv, SameDate
  <2> QED BY <2>5, <2>6, <2>7
<1>9. CASE r.source \notin {"red", "full-fallback"}
  <2>1. /\ IsSide(r) /\ Finds(r.red) = D!NoDate /\ Finds(r.full) = D!NoDate
    BY <1>9 DEF SideInv
  <2>2. hits \subseteq {3} BY <1>2, <2>1
  <2>3. CASE hits = {}
    <3>1. new = Changed(r, r.easy, D!NoDate, "none")
      BY Zenon, <1>5, <2>1, <2>3, SameEasy
    <3>2. IsDate(D!NoDate) BY DEF IsDate, D!NoDate
    <3>3. "none" \notin {"red", "full-fallback"} OBVIOUS
    <3>4. SideInv(new) BY <2>1, <3>1, <3>2, <3>3, NewDate
    <3> QED BY <1>9, <3>4
  <2>4. CASE hits = {3}
    <3>1. PICK date : /\ IsDate(date) /\ SameDate(date, parsed[3])
                      /\ new = Changed(r, r.easy, date, D!Sources[3])
      BY <1>7, <2>4
    <3>2. D!Sources[3] \notin {"red", "full-fallback"} BY DEF D!Sources
    <3>3. SideInv(new) BY <2>1, <3>1, <3>2, NewDate
    <3> QED BY <1>9, <3>3
  <2> QED BY <2>2, <2>3, <2>4
<1> QED BY <1>8, <1>9

LEMMA AnewStep ==
  ASSUME SidesInv, ~Widow, D!ReEnrich
  PROVE  SidesInv' /\ \A s \in Sides :
           rec[s].source \in {"red", "full-fallback"} =>
             rec'[s].source = rec[s].source /\ SameDate(rec'[s].date, rec[s].date)
<1>1. rec' = [s \in Sides |-> D!ReEnriched(rec[s], D!PensionerName)]
  BY Zenon DEF D!ReEnrich
<1>2. ASSUME NEW s \in Sides
      PROVE  /\ SideInv(rec'[s])
             /\ rec[s].source \in {"red", "full-fallback"} =>
                  rec'[s].source = rec[s].source /\ SameDate(rec'[s].date, rec[s].date)
  <2>1. SideInv(rec[s]) BY DEF SidesInv
  <2>2. rec'[s] = D!ReEnriched(rec[s], D!PensionerName) BY <1>1
  <2> QED BY <2>1, <2>2, ParsedAnew
<1>3. SidesInv' BY <1>1, <1>2 DEF SidesInv, SideInv, Finds
<1> QED BY <1>2, <1>3

LEMMA SidesStart == ASSUME D!Init PROVE SidesInv
BY UnreadSide DEF SidesInv, D!Init

Stands ==
  \A s \in Sides : ~Widow /\ rec[s].source \in {"red", "full-fallback"} =>
    /\ rec'[s].source = rec[s].source
    /\ rec'[s].date.year = rec[s].date.year /\ rec'[s].date.kind = rec[s].date.kind

LEMMA CardStep ==
  ASSUME ~Widow, SidesInv, [D!Next]_D!vars
  PROVE  SidesInv' /\ Stands
<1>1. CASE UNCHANGED rec BY <1>1 DEF SidesInv, SideInv, Finds, Stands
<1>2. ASSUME NEW s \in Sides, D!ProcessImage(s) PROVE SidesInv' /\ Stands
  <2>1. rec[s].source = "none" BY <1>2 DEF D!ProcessImage, D!Unread
  <2> QED BY <1>2, <2>1, ImageRead DEF Stands
<1>3. ASSUME NEW s \in Sides, D!EasyRead(s) PROVE SidesInv' /\ Stands
  BY <1>3, EasyStep DEF Stands
<1>4. ASSUME NEW s \in Sides, D!Accept(s) PROVE SidesInv' /\ Stands
  BY <1>4, AcceptStep DEF Stands
<1>5. CASE D!ReEnrich BY <1>5, AnewStep DEF Stands, SameDate
<1>6. D!Enrich => UNCHANGED rec BY DEF D!Enrich
<1>7. UNCHANGED D!vars => UNCHANGED rec BY DEF D!vars
<1>8. \/ UNCHANGED rec \/ D!ReEnrich
      \/ \E s \in Sides : D!ProcessImage(s) \/ D!EasyRead(s) \/ D!Accept(s)
  BY <1>6, <1>7 DEF D!Next
<1> QED BY <1>1, <1>2, <1>3, <1>4, <1>5, <1>8

(* DeathDate keeps a date Tesseract gave: EasyOCR and people only add, and *)
(* parsing the saved texts anew comes to the same.                         *)
THEOREM DatesStand == D!Spec => TesseractStands
<1>1. CASE ~Widow
  <2>1. D!Init => SidesInv BY SidesStart
  <2>2. SidesInv /\ [D!Next]_D!vars => SidesInv' BY <1>1, CardStep
  <2>3. SidesInv /\ [D!Next]_D!vars => [Stands]_D!vars BY <1>1, CardStep
  <2> QED BY <2>1, <2>2, <2>3, PTL
       DEF D!Spec, TesseractStands, D!TesseractStands, Stands
<1>2. CASE Widow
  <2>1. [D!Next]_D!vars => [Stands]_D!vars BY <1>2 DEF Stands
  <2> QED BY <2>1, PTL DEF D!Spec, TesseractStands, D!TesseractStands, Stands
<1>3. Widow \in BOOLEAN BY RecordsAssumption DEF D!DeathDateAssumption
<1> QED BY <1>1, <1>2, <1>3
-----------------------------------------------------------------------------
(* The operators of the library mean the same in Registry.                 *)
LEMMA SameLibrary ==
  /\ \A S : R!IsFiniteSet(S) = IsFiniteSet(S)
  /\ \A S : R!Cardinality(S) = Cardinality(S)
  /\ \A S : R!Min(S) = Min(S)
<1>1. \A S : R!IsFiniteSet(S) = IsFiniteSet(S)
  BY DEF R!IsFiniteSet, IsFiniteSet
<1>2. \A S : R!Cardinality(S) = Cardinality(S)
  BY Zenon DEF R!Cardinality, Cardinality
<1>3. \A S : R!Min(S) = Min(S)
  BY Zenon DEF R!Min, Min
<1> QED BY <1>1, <1>2, <1>3

Strength(p, c) == R!RowStrength(p, records[c])

LEMMA RankFacts ==
  ASSUME NEW p, NEW c, NEW d
  PROVE  /\ R!Rank(Strength(p, c)) \in 0 .. 3
         /\ Strength(p, c) \in {"none", "weak", "medium", "strong"}
         /\ R!Rank(Strength(p, c)) = R!Rank(Strength(p, d)) =>
              Strength(p, c) = Strength(p, d)
         /\ R!Rank(Strength(p, c)) = 0 => Strength(p, c) = "none"
<1>1. \A e : Strength(p, e) \in {"none", "weak", "medium", "strong"}
  BY DEF Strength, R!RowStrength
<1> QED BY <1>1 DEF R!Rank

LEMMA BestFacts ==
  ASSUME NEW p, NEW K \in Nat, NEW s, DOMAIN s = 1 .. K
  PROVE  LET rank(i) == R!Rank(Strength(p, s[i])) IN
         \/ R!BestOf(p, s) = 0 /\ \A i \in 1 .. K : rank(i) = 0
         \/ /\ R!BestOf(p, s) \in 1 .. K /\ rank(R!BestOf(p, s)) > 0
            /\ \A i \in 1 .. K : rank(i) <= rank(R!BestOf(p, s))
<1> DEFINE rank(i) == R!Rank(Strength(p, s[i]))
           first == {i \in DOMAIN s : /\ rank(i) > 0
                                      /\ \A j \in DOMAIN s : rank(j) <= rank(i)}
<1>1. R!BestOf(p, s) = IF first = {} THEN 0 ELSE Min(first)
  BY Zenon, SameLibrary DEF R!BestOf, Strength
<1>2. \A i : rank(i) \in 0 .. 3 BY RankFacts
<1> HIDE DEF rank
<1>3. first = {} => \A i \in 1 .. K : rank(i) = 0
  <2> SUFFICES ASSUME first = {}, NEW i \in 1 .. K, rank(i) # 0 PROVE FALSE OBVIOUS
  <2>1. \A n \in 1 .. 3 : (\A j \in 1 .. K : rank(j) <= n)
                            => \A j \in 1 .. K : rank(j) < n
    <3> SUFFICES ASSUME NEW n \in 1 .. 3, \A j \in 1 .. K : rank(j) <= n,
                        NEW j \in 1 .. K, rank(j) >= n
                 PROVE FALSE
      BY <1>2
    <3>1. rank(j) = n BY <1>2
    <3>2. j \in first BY <3>1
    <3> QED BY <3>2
  <2>2. \A j \in 1 .. K : rank(j) <= 3 BY <1>2
  <2>3. \A j \in 1 .. K : rank(j) <= 2 BY <1>2, <2>1, <2>2
  <2>4. \A j \in 1 .. K : rank(j) <= 1 BY <1>2, <2>1, <2>3
  <2>5. \A j \in 1 .. K : rank(j) < 1 BY <2>1, <2>4
  <2> QED BY <1>2, <2>5
<1>4. first # {} => Min(first) \in first
  <2>1. first \subseteq Nat OBVIOUS
  <2> HIDE DEF first
  <2> QED BY <2>1, MinIsLeast
<1>5. CASE first = {} BY <1>1, <1>3, <1>5 DEF rank
<1>6. CASE first # {}
  <2>1. R!BestOf(p, s) \in first BY <1>1, <1>4, <1>6
  <2> QED BY <2>1 DEF rank
<1> QED BY <1>5, <1>6

(* What a verdict says of its candidates.                                  *)
LEMMA VerdictFacts ==
  ASSUME NEW p, NEW K \in Nat, NEW s, DOMAIN s = 1 .. K
  PROVE  LET v == R!Verdict(p, s)
             top == v.summary
         IN  /\ v.status = R!Status(p, top.strength)
             /\ v.count = IF v.status = "no_fag_match" THEN 0 ELSE Len(s)
             /\ \A i \in 1 .. K : R!Rank(Strength(p, s[i])) <= R!Rank(top.strength)
             /\ \/ top = R!NoSummary
                \/ /\ top.strength = Strength(p, top.cgr) /\ R!Rank(top.strength) > 0
                   /\ \E i \in 1 .. K : top.cgr = s[i]
                   /\ top = [cgr |-> top.cgr, strength |-> top.strength]
<1> DEFINE b == R!BestOf(p, s)
           top == IF b = 0 THEN R!NoSummary
                   ELSE [cgr |-> s[b], strength |-> R!RowStrength(p, records[s[b]])]
           status == R!Status(p, top.strength)
           count == IF status = "no_fag_match" THEN 0 ELSE Len(s)
           v == R!Verdict(p, s)
<1>1. v = [status |-> status, summary |-> top, count |-> count]
  BY Zenon DEF R!Verdict
<1>2. \/ b = 0 /\ \A i \in 1 .. K : R!Rank(Strength(p, s[i])) = 0
      \/ /\ b \in 1 .. K /\ R!Rank(Strength(p, s[b])) > 0
         /\ \A i \in 1 .. K : R!Rank(Strength(p, s[i])) <= R!Rank(Strength(p, s[b]))
  BY BestFacts
<1> HIDE DEF b
<1>3. CASE b = 0
  <2>1. top = R!NoSummary BY <1>3
  <2>2. R!Rank(R!NoSummary.strength) = 0 BY DEF R!NoSummary, R!Rank
  <2>3. \A i \in 1 .. K : R!Rank(Strength(p, s[i])) <= R!Rank(top.strength)
    BY <1>2, <1>3, <2>1, <2>2
  <2> HIDE DEF top
  <2>4. v.summary = top /\ v.status = status /\ v.count = count BY <1>1
  <2> QED BY <2>1, <2>3, <2>4
<1>4. CASE b # 0
  <2>1. top = [cgr |-> s[b], strength |-> Strength(p, s[b])] BY <1>4 DEF Strength
  <2>2. top.cgr = s[b] /\ top.strength = Strength(p, s[b]) BY <2>1
  <2>3. /\ \A i \in 1 .. K : R!Rank(Strength(p, s[i])) <= R!Rank(top.strength)
        /\ top.strength = Strength(p, top.cgr) /\ R!Rank(top.strength) > 0
        /\ \E i \in 1 .. K : top.cgr = s[i]
        /\ top = [cgr |-> top.cgr, strength |-> top.strength]
    BY <1>2, <1>4, <2>1, <2>2
  <2> HIDE DEF top
  <2>4. v.summary = top /\ v.status = status /\ v.count = count BY <1>1
  <2> QED BY <2>3, <2>4
<1> QED BY <1>3, <1>4

SameElements(s, t) ==
  /\ \A i \in DOMAIN s : \E j \in DOMAIN t : s[i] = t[j]
  /\ \A i \in DOMAIN t : \E j \in DOMAIN s : t[i] = s[j]

(* Of two lookups of a row: the second names nothing stronger that the     *)
(* first had.                                                              *)
LEMMA NoneStronger ==
  ASSUME NEW p, NEW K \in Nat, NEW s, NEW t, DOMAIN s = 1 .. K, DOMAIN t = 1 .. K,
         R!Verdict(p, t).summary.cgr \in {s[i] : i \in 1 .. K}
  PROVE  R!Rank(R!Verdict(p, t).summary.strength) <= R!Rank(R!Verdict(p, s).summary.strength)
<1> DEFINE old == R!Verdict(p, s).summary
           new == R!Verdict(p, t).summary
<1>1. /\ \A i \in 1 .. K : R!Rank(Strength(p, s[i])) <= R!Rank(old.strength)
      /\ old = R!NoSummary \/ R!Rank(old.strength) > 0
  BY VerdictFacts
<1>2. new = R!NoSummary \/ new.strength = Strength(p, new.cgr)
  BY VerdictFacts
<1>3. R!Rank(R!NoSummary.strength) = 0 BY DEF R!NoSummary, R!Rank
<1>4. R!Rank(old.strength) \in 0 .. 3 BY DEF R!Rank
<1> HIDE DEF old, new
<1>5. PICK i \in 1 .. K : new.cgr = s[i] BY DEF new
<1>6. new = R!NoSummary => R!Rank(new.strength) <= R!Rank(old.strength) BY <1>3, <1>4
<1>7. new.strength = Strength(p, new.cgr) => R!Rank(new.strength) <= R!Rank(old.strength)
  BY <1>1, <1>5
<1>8. R!Rank(new.strength) <= R!Rank(old.strength) BY <1>2, <1>6, <1>7
<1> QED BY <1>8 DEF old, new

(* Two orders of the same candidates have one verdict, up to records that  *)
(* are as strong as each other.                                            *)
LEMMA SameVerdict ==
  ASSUME NEW p, NEW K \in Nat, NEW s, NEW t, DOMAIN s = 1 .. K, DOMAIN t = 1 .. K,
         SameElements(s, t), Len(s) = K, Len(t) = K
  PROVE  LET old == R!Verdict(p, s)
             new == R!Verdict(p, t)
         IN  /\ new.status = old.status /\ new.count = old.count
             /\ new.summary # old.summary =>
                  \E i \in 1 .. K : t[i] # new.summary.cgr
                                   /\ Strength(p, t[i]) = new.summary.strength
<1> DEFINE old == R!Verdict(p, s).summary
           new == R!Verdict(p, t).summary
           rank(x) == R!Rank(Strength(p, x))
<1>1. /\ \A i \in 1 .. K : rank(s[i]) <= R!Rank(old.strength)
      /\ \/ old = R!NoSummary
         \/ /\ old.strength = Strength(p, old.cgr) /\ R!Rank(old.strength) > 0
            /\ \E i \in 1 .. K : old.cgr = s[i]
            /\ old = [cgr |-> old.cgr, strength |-> old.strength]
  BY VerdictFacts
<1>2. /\ \A i \in 1 .. K : rank(t[i]) <= R!Rank(new.strength)
      /\ \/ new = R!NoSummary
         \/ /\ new.strength = Strength(p, new.cgr) /\ R!Rank(new.strength) > 0
            /\ \E i \in 1 .. K : new.cgr = t[i]
            /\ new = [cgr |-> new.cgr, strength |-> new.strength]
  BY VerdictFacts
<1>3. /\ R!Verdict(p, s).status = R!Status(p, old.strength)
      /\ R!Verdict(p, t).status = R!Status(p, new.strength)
      /\ R!Verdict(p, s).count = IF R!Verdict(p, s).status = "no_fag_match" THEN 0 ELSE Len(s)
      /\ R!Verdict(p, t).count = IF R!Verdict(p, t).status = "no_fag_match" THEN 0 ELSE Len(t)
  BY VerdictFacts
<1>4. R!Rank(R!NoSummary.strength) = 0 BY DEF R!NoSummary, R!Rank
<1>5. \A x : R!Rank(x) \in 0 .. 3 BY DEF R!Rank
<1>6. \A x, y : rank(x) = rank(y) => Strength(p, x) = Strength(p, y) BY RankFacts
<1> HIDE DEF old, new
<1>7. old # R!NoSummary => \E j \in 1 .. K : old.cgr = t[j]
  BY <1>1 DEF SameElements
<1>8. new # R!NoSummary => \E j \in 1 .. K : new.cgr = s[j]
  BY <1>2 DEF SameElements
<1>9. R!Rank(old.strength) = R!Rank(new.strength)
  <2>1. old # R!NoSummary => R!Rank(old.strength) <= R!Rank(new.strength)
    BY <1>1, <1>2, <1>7
  <2>2. new # R!NoSummary => R!Rank(new.strength) <= R!Rank(old.strength)
    BY <1>1, <1>2, <1>8
  <2>3. /\ R!Rank(old.strength) \in 0 .. 3 /\ R!Rank(new.strength) \in 0 .. 3
        /\ old = R!NoSummary => R!Rank(old.strength) = 0
        /\ new = R!NoSummary => R!Rank(new.strength) = 0
    BY <1>4, <1>5
  <2> QED BY <2>1, <2>2, <2>3
<1>10. old = R!NoSummary <=> new = R!NoSummary
  <2>1. old = R!NoSummary => R!Rank(old.strength) = 0 BY <1>4
  <2>2. new = R!NoSummary => R!Rank(new.strength) = 0 BY <1>4
  <2>3. old # R!NoSummary => R!Rank(old.strength) > 0 BY <1>1
  <2>4. new # R!NoSummary => R!Rank(new.strength) > 0 BY <1>2
  <2> QED BY <2>1, <2>2, <2>3, <2>4, <1>9, <1>5
<1>11. old.strength = new.strength
  <2>1. CASE old = R!NoSummary BY <2>1, <1>10
  <2>2. CASE old # R!NoSummary
    <3>1. old.strength = Strength(p, old.cgr) /\ new.strength = Strength(p, new.cgr)
      BY <2>2, <1>1, <1>2, <1>10
    <3>2. rank(old.cgr) = rank(new.cgr) BY <1>9, <3>1
    <3> QED BY <1>6, <3>1, <3>2
  <2> QED BY <2>1, <2>2
<1>12. /\ R!Verdict(p, t).status = R!Verdict(p, s).status
       /\ R!Verdict(p, t).count = R!Verdict(p, s).count
  BY <1>3, <1>11
<1>13. ASSUME new # old
       PROVE  \E i \in 1 .. K : t[i] # new.cgr /\ Strength(p, t[i]) = new.strength
  <2>1. old # R!NoSummary /\ new # R!NoSummary BY <1>10, <1>13
  <2>2. /\ old = [cgr |-> old.cgr, strength |-> old.strength]
        /\ new = [cgr |-> new.cgr, strength |-> new.strength]
        /\ old.strength = Strength(p, old.cgr)
    BY <1>1, <1>2, <2>1
  <2>3. old.cgr # new.cgr BY <1>11, <1>13, <2>2
  <2>4. PICK i \in 1 .. K : old.cgr = t[i] BY <1>7, <2>1
  <2> QED BY <1>11, <2>2, <2>3, <2>4
<1> QED BY <1>12, <1>13 DEF old, new

(* A lookup has no candidate twice, so that another one that has only its  *)
(* candidates has them all; and so has every other one if nothing is cut.  *)
LEMMA LookupFacts ==
  ASSUME NEW p, NEW found \in R!Lookups(p)
  PROVE  \E K \in Nat :
           /\ DOMAIN found = 1 .. K /\ Len(found) = K
           /\ \A s \in R!Lookups(p) :
                /\ DOMAIN s = 1 .. K /\ Len(s) = K
                /\ \/ R!Range(s) = R!Range(found)
                   \/ R!Cardinality(R!Blocked(p)) <= Limit
                   => SameElements(found, s)
<1> DEFINE S == R!Blocked(p)
           n == Cardinality(S)
           K == IF n < Limit THEN n ELSE Limit
           T == R!Range(found)
<1>1. IsFiniteSet(Ids) /\ Limit \in Nat
  BY RecordsAssumption, SameLibrary DEF R!RegistryAssumption
<1>2. IsFiniteSet(S) /\ n \in Nat /\ K \in Nat
  <2>1. S \subseteq Ids BY DEF R!Blocked
  <2> HIDE DEF S
  <2>2. IsFiniteSet(S) /\ n \in Nat BY <1>1, <2>1, FS_Subset, FS_CardinalityType
  <2> QED BY <1>1, <2>2
<1>3. \A s \in R!Lookups(p) : s \in [1 .. K -> S] /\ R!IsInjective(s)
  BY SameLibrary, Zenon DEF R!Lookups
<1>4. R!Cardinality(S) = n BY SameLibrary
<1> HIDE DEF K, n, S
<1>5. IsFiniteSet(1 .. K) /\ Cardinality(1 .. K) = K
  <2>1. 1 \in Int /\ K \in Int BY <1>2
  <2> QED BY <1>2, <2>1, FS_Interval
<1>6. \A s \in R!Lookups(p) : DOMAIN s = 1 .. K /\ Len(s) = K /\ s \in Injection(1 .. K, S)
  <2> TAKE s \in R!Lookups(p)
  <2>1. s \in [1 .. K -> S] /\ R!IsInjective(s) BY <1>3
  <2>2. s \in Injection(1 .. K, S) BY <2>1 DEF Injection, R!IsInjective, IsInjective
  <2> QED BY <1>2, <2>1, <2>2
<1>7. ASSUME NEW s \in R!Lookups(p), R!Range(s) = T PROVE SameElements(found, s)
  <2>1. T = {found[i] : i \in 1 .. K} BY <1>6 DEF R!Range
  <2>2. R!Range(s) = {s[i] : i \in 1 .. K} BY <1>6 DEF R!Range
  <2> HIDE DEF T
  <2> QED BY <1>6, <1>7, <2>1, <2>2 DEF SameElements
<1>8. ASSUME NEW s \in R!Lookups(p), n <= Limit PROVE SameElements(found, s)
  <2>1. K = n BY <1>1, <1>2, <1>8 DEF K
  <2>2. IsFiniteSet(S) /\ Cardinality(S) = K BY <1>2, <2>1 DEF n
  <2>3. \A t \in R!Lookups(p) : \A c \in S : \E i \in 1 .. K : t[i] = c
    <3> TAKE t \in R!Lookups(p)
    <3>1. t \in Injection(1 .. K, S) BY <1>6
    <3>2. t \in Surjection(1 .. K, S) BY <1>5, <2>2, <3>1, FS_Injection
    <3> QED BY <3>2 DEF Surjection
  <2>4. \A t \in R!Lookups(p) : \A i \in 1 .. K : t[i] \in S BY <1>3
  <2> QED BY <1>6, <2>3, <2>4 DEF SameElements
<1>9. \A s \in R!Lookups(p) :
        /\ DOMAIN s = 1 .. K /\ Len(s) = K
        /\ R!Range(s) = T \/ n <= Limit => SameElements(found, s)
  BY <1>6, <1>7, <1>8
<1> QED BY <1>2, <1>4, <1>6, <1>9 DEF S

RowFields == {"last", "first", "born", "unit", "status", "fag"}

(* A row is judged at the end, by a lookup it keeps.                       *)
JudgedRow(r) ==
  \E p : \E s \in R!Lookups(p) :
    /\ RowFields \subseteq DOMAIN p
    /\ r = R!With(p, [found |-> s, dedup |-> R!Verdict(p, s)])

RowInv ==
  /\ phase \in {"pairs", "links"} => judged = R!NoRow
  /\ phase \in {"rows", "dixie", "dedup"} => RowFields \subseteq DOMAIN judged
  /\ phase = "done" => judged = R!NoRow \/ JudgedRow(judged)

(* What is judged depends on the records alone.                            *)
LEMMA JudgedStays ==
  ASSUME records' = records, NEW r, JudgedRow(r)
  PROVE  JudgedRow(r)'
<1>1. PICK p, s :
        /\ s \in R!Lookups(p) /\ RowFields \subseteq DOMAIN p
        /\ r = R!With(p, [found |-> s, dedup |-> R!Verdict(p, s)])
  BY DEF JudgedRow
<1>2. R!Lookups(p)' = R!Lookups(p) BY DEF R!Lookups, R!Blocked, R!SameBlock
<1>3. R!Verdict(p, s)' = R!Verdict(p, s)
  <2>1. R!BestOf(p, s)' = R!BestOf(p, s) BY DEF R!BestOf
  <2> QED BY <2>1 DEF R!Verdict
<1> QED BY <1>1, <1>2, <1>3 DEF JudgedRow, R!With

LEMMA WithFields ==
  ASSUME NEW p, NEW more
  PROVE  /\ DOMAIN R!With(p, more) = DOMAIN p \cup DOMAIN more
         /\ \A f \in DOMAIN p \ DOMAIN more : R!With(p, more)[f] = p[f]
         /\ \A f \in DOMAIN more : R!With(p, more)[f] = more[f]
BY DEF R!With

LEMMA RowStep ==
  ASSUME RowInv, [R!Next]_R!vars
  PROVE  RowInv'
<1>1. records' = records
  BY DEF R!Next, R!vars, R!file, R!ComparePair, R!Close, R!LinkPensioner, R!WriteDedup,
         R!CrossReference, R!AnnotateDixie, R!RunDedup
<1>2. CASE UNCHANGED <<judged, phase>> BY <1>1, <1>2, JudgedStays DEF RowInv
<1>3. R!ComparePair => UNCHANGED <<judged, phase>> BY DEF R!ComparePair
<1>4. \A q \in Pensioners : R!LinkPensioner(q) => UNCHANGED <<judged, phase>>
  BY DEF R!LinkPensioner
<1>5. CASE R!Close BY <1>5 DEF R!Close, RowInv
<1>6. CASE R!WriteDedup BY <1>6 DEF R!WriteDedup, RowInv
<1>7. CASE R!CrossReference
  <2>1. phase = "rows" /\ phase' = "dixie" /\ \E more : judged' = R!With(judged, more)
    BY <1>7, Zenon DEF R!CrossReference
  <2> QED BY <2>1, WithFields DEF RowInv
<1>8. CASE R!AnnotateDixie
  <2>1. phase = "dixie" /\ phase' = "dedup" /\ \E more : judged' = R!With(judged, more)
    BY <1>8, Zenon DEF R!AnnotateDixie
  <2> QED BY <2>1, WithFields DEF RowInv
<1>9. CASE R!RunDedup
  <2>1. phase = "dedup" /\ phase' = "done" BY <1>9 DEF R!RunDedup
  <2>2. PICK s \in R!Lookups(judged) :
          judged' = R!With(judged, [found |-> s, dedup |-> R!Verdict(judged, s)])
    BY <1>9, Zenon DEF R!RunDedup
  <2>3. RowFields \subseteq DOMAIN judged BY <2>1 DEF RowInv
  <2> DEFINE new == R!With(judged, [found |-> s, dedup |-> R!Verdict(judged, s)])
  <2>4. JudgedRow(new) BY <2>2, <2>3, Zenon DEF JudgedRow
  <2> QED BY <2>1, <2>2, <2>4, <1>1, JudgedStays DEF RowInv
<1>10. UNCHANGED R!vars => UNCHANGED <<judged, phase>> BY DEF R!vars
<1> QED BY <1>2, <1>3, <1>4, <1>5, <1>6, <1>7, <1>8, <1>9, <1>10 DEF R!Next

LEMMA RowsStart == ASSUME R!Init PROVE RowInv
<1>1. CASE phase = "pairs" /\ judged = R!NoRow BY <1>1 DEF RowInv
<1>2. CASE phase = "rows" /\ judged \in Rows
  BY <1>2, RecordsAssumption DEF RowInv, RowFields, R!RegistryAssumption
<1> QED BY <1>1, <1>2 DEF R!Init

LEMMA AgreeWhenJudged ==
  ASSUME RowInv
  PROVE  VerdictsAgree
<1> SUFFICES ASSUME R!Judged, NEW s \in R!Lookups(judged)
             PROVE  LET old == judged.dedup
                        new == R!Verdict(judged, s)
                        top == new.summary
                    IN  /\ R!Rank(top.strength) > R!Rank(old.summary.strength) =>
                             top.cgr \notin R!Range(judged.found)
                        /\ top.strength = old.summary.strength => new.status = old.status
                        /\ \/ R!Range(s) = R!Range(judged.found)
                           \/ R!Cardinality(R!Blocked(judged)) <= Limit
                           => /\ new.status = old.status /\ new.count = old.count
                              /\ top # old.summary =>
                                   \E c \in R!Range(s) \ {top.cgr} :
                                     R!RowStrength(judged, records[c]) = top.strength
  BY Zenon DEF VerdictsAgree, R!VerdictsAgree
<1>1. JudgedRow(judged) BY DEF RowInv, R!Judged
<1>2. PICK p, found :
        /\ found \in R!Lookups(p) /\ RowFields \subseteq DOMAIN p
        /\ judged = R!With(p, [found |-> found, dedup |-> R!Verdict(p, found)])
  BY <1>1 DEF JudgedRow
<1> DEFINE more == [found |-> found, dedup |-> R!Verdict(p, found)]
<1>3. /\ DOMAIN more = {"found", "dedup"}
      /\ more.found = found /\ more.dedup = R!Verdict(p, found)
  OBVIOUS
<1> HIDE DEF more
<1> DEFINE new == R!With(p, more)
<1>4. judged = new BY <1>2 DEF more
<1>5. /\ \A f \in DOMAIN p \ DOMAIN more : new[f] = p[f]
      /\ \A f \in DOMAIN more : new[f] = more[f]
  BY WithFields, Zenon
<1> HIDE DEF new
<1>6. judged.found = found /\ judged.dedup = R!Verdict(p, found)
  BY <1>3, <1>4, <1>5
<1>7. \A f \in RowFields : judged[f] = p[f]
  <2>1. \A f \in RowFields : f \in DOMAIN p \ DOMAIN more
    BY <1>2, <1>3 DEF RowFields
  <2> QED BY <1>4, <1>5, <2>1
<1>8. /\ judged.last = p.last /\ judged.first = p.first /\ judged.born = p.born
      /\ judged.unit = p.unit /\ judged.status = p.status /\ judged.fag = p.fag
  BY <1>7 DEF RowFields
<1>9. \A c : R!RowStrength(judged, c) = R!RowStrength(p, c)
  BY Zenon, <1>8 DEF R!RowStrength, R!FirstDiffers
<1>10. R!Verdict(judged, s) = R!Verdict(p, s)
  <2>1. R!BestOf(judged, s) = R!BestOf(p, s) BY <1>9 DEF R!BestOf
  <2>2. \A x : R!Status(judged, x) = R!Status(p, x) BY Zenon, <1>8 DEF R!Status
  <2> DEFINE b == R!BestOf(p, s)
             summary(q) == IF b = 0 THEN R!NoSummary
                           ELSE [cgr |-> s[b], strength |-> R!RowStrength(q, records[s[b]])]
             verdict(q) ==
               [status |-> R!Status(q, summary(q).strength), summary |-> summary(q),
                count |-> IF R!Status(q, summary(q).strength) = "no_fag_match" THEN 0
                          ELSE Len(s)]
  <2>3. R!Verdict(judged, s) = verdict(judged) BY Zenon, <2>1 DEF R!Verdict
  <2>4. R!Verdict(p, s) = verdict(p) BY Zenon DEF R!Verdict
  <2> HIDE DEF b
  <2>5. summary(judged) = summary(p) BY <1>9
  <2> HIDE DEF summary
  <2>6. verdict(judged) = verdict(p) BY <2>2, <2>5
  <2> QED BY <2>3, <2>4, <2>6
<1>11. R!Lookups(judged) = R!Lookups(p) /\ R!Blocked(judged) = R!Blocked(p)
  <2>1. \A c : R!SameBlock(judged, c) = R!SameBlock(p, c) BY Zenon, <1>8 DEF R!SameBlock
  <2>2. R!Blocked(judged) = R!Blocked(p) BY <2>1 DEF R!Blocked
  <2> QED BY <2>2 DEF R!Lookups
<1>12. PICK K \in Nat :
         /\ DOMAIN found = 1 .. K /\ Len(found) = K
         /\ \A t \in R!Lookups(p) :
              /\ DOMAIN t = 1 .. K /\ Len(t) = K
              /\ \/ R!Range(t) = R!Range(found)
                 \/ R!Cardinality(R!Blocked(p)) <= Limit
                 => SameElements(found, t)
  BY <1>2, LookupFacts
<1>13. s \in R!Lookups(p) BY <1>11
<1>14. DOMAIN s = 1 .. K /\ Len(s) = K BY <1>12, <1>13
<1> DEFINE old == R!Verdict(p, found)
           nw == R!Verdict(p, s)
<1>15. R!Rank(nw.summary.strength) > R!Rank(old.summary.strength) =>
         nw.summary.cgr \notin R!Range(found)
  <2>1. R!Range(found) = {found[i] : i \in 1 .. K} BY <1>12 DEF R!Range
  <2>2. nw.summary.cgr \in R!Range(found) =>
          R!Rank(nw.summary.strength) <= R!Rank(old.summary.strength)
    BY <1>12, <1>14, <2>1, NoneStronger
  <2>3. R!Rank(nw.summary.strength) \in 0 .. 3 /\ R!Rank(old.summary.strength) \in 0 .. 3
    BY DEF R!Rank
  <2> HIDE DEF old, nw
  <2> QED BY <2>2, <2>3
<1>16. /\ nw.status = R!Status(p, nw.summary.strength)
       /\ old.status = R!Status(p, old.summary.strength)
  BY <1>12, <1>14, VerdictFacts
<1>17. ASSUME R!Range(s) = R!Range(found) \/ R!Cardinality(R!Blocked(p)) <= Limit
       PROVE  /\ nw.status = old.status /\ nw.count = old.count
              /\ nw.summary # old.summary =>
                   \E c \in R!Range(s) \ {nw.summary.cgr} :
                     R!RowStrength(judged, records[c]) = nw.summary.strength
  <2>1. SameElements(found, s) BY <1>12, <1>13, <1>17
  <2>2. /\ nw.status = old.status /\ nw.count = old.count
        /\ nw.summary # old.summary =>
             \E i \in 1 .. K : s[i] # nw.summary.cgr
                              /\ Strength(p, s[i]) = nw.summary.strength
    BY <1>12, <1>14, <2>1, SameVerdict
  <2>3. \A i \in 1 .. K : s[i] \in R!Range(s) BY <1>14 DEF R!Range
  <2>4. \A c : R!RowStrength(judged, records[c]) = Strength(p, c) BY <1>9 DEF Strength
  <2> HIDE DEF old, nw
  <2> QED BY <2>2, <2>3, <2>4
<1>18. judged.dedup = old /\ R!Verdict(judged, s) = nw /\ judged.found = found
  BY <1>6, <1>10
<1> HIDE DEF old, nw
<1> QED BY <1>11, <1>15, <1>16, <1>17, <1>18

(* Registry: of one row a lookup in another order, or cut elsewhere, makes *)
(* the same verdict but for equally strong records, and what it did not    *)
(* have.                                                                   *)
THEOREM VerdictsDifferByLookup == R!Spec => []VerdictsAgree
<1>1. R!Init => RowInv BY RowsStart
<1>2. RowInv /\ [R!Next]_R!vars => RowInv' BY RowStep
<1>3. RowInv => VerdictsAgree BY AgreeWhenJudged
<1> QED BY <1>1, <1>2, <1>3, PTL DEF R!Spec
-----------------------------------------------------------------------------
LEMMA AllNumbers ==
  ASSUME NEW G, 0 \in G, \A n \in Nat : n \in G => n + 1 \in G
  PROVE  \A n \in Nat : n \in G
<1> SUFFICES ASSUME Nat \ G # {} PROVE FALSE OBVIOUS
<1>1. PICK x \in Nat \ G : \A y \in Nat \ G : ~(<<y, x>> \in OpToRel(<, Nat))
  <2>1. Nat \ G \subseteq Nat OBVIOUS
  <2> QED BY <2>1, WFMin, NatLessThanWellFounded
<1>2. \A y \in Nat \ G : ~(y < x) BY <1>1 DEF OpToRel
<1>3. x # 0 /\ x - 1 \in Nat OBVIOUS
<1>4. x - 1 \in G BY <1>2, <1>3
<1> QED BY <1>3, <1>4

(* A step can be iterated.                                                 *)
Iterated(g, S, a, K, F) ==
  g \in [0 .. K -> S] /\ g[0] = a /\ \A n \in 1 .. K : g[n] = F[g[n - 1]]

LEMMA Iterates ==
  ASSUME NEW S, NEW a \in S, NEW K \in Nat, NEW F \in [S -> S]
  PROVE  \E g : Iterated(g, S, a, K, F)
<1> DEFINE Runs(n) == {g \in [0 .. n -> S] :
                         g[0] = a /\ \A m \in 1 .. n : g[m] = F[g[m - 1]]}
           G == {n \in Nat : Runs(n) # {}}
<1>1. 0 \in G
  <2>1. [m \in 0 .. 0 |-> a] \in Runs(0) OBVIOUS
  <2> QED BY <2>1
<1>2. ASSUME NEW n \in Nat, n \in G PROVE n + 1 \in G
  <2>1. PICK g \in [0 .. n -> S] :
          g[0] = a /\ \A m \in 1 .. n : g[m] = F[g[m - 1]]
    BY <1>2
  <2> DEFINE h == [m \in 0 .. n + 1 |-> IF m = n + 1 THEN F[g[n]] ELSE g[m]]
  <2>2. F[g[n]] \in S BY <2>1
  <2>3. h \in [0 .. n + 1 -> S] BY <2>1, <2>2
  <2>4. h[0] = a BY <2>1
  <2>5. ASSUME NEW m \in 1 .. n + 1 PROVE h[m] = F[h[m - 1]]
    <3>1. m - 1 \in 0 .. n /\ h[m - 1] = g[m - 1] OBVIOUS
    <3>2. CASE m = n + 1 BY <3>1, <3>2
    <3>3. CASE m # n + 1 BY <3>1, <3>3, <2>1
    <3> QED BY <3>2, <3>3
  <2> HIDE DEF h
  <2>6. h \in Runs(n + 1) BY <2>3, <2>4, <2>5
  <2> QED BY <2>6
<1> HIDE DEF G
<1>3. K \in G BY <1>1, <1>2, AllNumbers
<1> QED BY <1>3 DEF G, Iterated
-----------------------------------------------------------------------------
(* The union-find.                                                         *)
Size == Cardinality(Ids)
Root(up, x) == R!RootOf(up, x)

LEMMA SizeFacts == Size \in Nat /\ IsFiniteSet(Ids) /\ R!Cardinality(Ids) = Size
<1>1. IsFiniteSet(Ids)
  BY RecordsAssumption, SameLibrary DEF R!RegistryAssumption
<1> QED BY <1>1, SameLibrary, FS_CardinalityType DEF Size

(* A path follows the parents.                                             *)
LEMMA PathSteps ==
  ASSUME NEW up \in [Ids -> Ids], NEW x \in Ids
  PROVE  \E p \in [0 .. Size -> Ids] :
           /\ R!PathOf(up, x) = p /\ Root(up, x) = p[Size]
           /\ p[0] = x /\ \A n \in 1 .. Size : p[n] = up[p[n - 1]]
<1> DEFINE Def(p) == p = [n \in 0 .. Size |-> IF n = 0 THEN x ELSE up[p[n - 1]]]
           q == CHOOSE p : Def(p)
<1>1. R!PathOf(up, x) = q BY SizeFacts, Zenon DEF R!PathOf
<1>2. PICK g \in [0 .. Size -> Ids] :
        g[0] = x /\ \A n \in 1 .. Size : g[n] = up[g[n - 1]]
  BY SizeFacts, Iterates DEF Iterated
<1>3. Def(g)
  <2> DEFINE d == [n \in 0 .. Size |-> IF n = 0 THEN x ELSE up[g[n - 1]]]
  <2>1. \A n \in 0 .. Size : g[n] = d[n] BY <1>2, SizeFacts
  <2>2. DOMAIN d = 0 .. Size /\ DOMAIN g = 0 .. Size BY <1>2
  <2>3. d = [n \in 0 .. Size |-> d[n]] /\ g = [n \in 0 .. Size |-> g[n]] BY <2>2
  <2> HIDE DEF d
  <2>4. g = d BY <2>1, <2>3
  <2> QED BY <2>4 DEF d
<1> HIDE DEF Def
<1>4. Def(q) BY <1>3
<1> HIDE DEF q
<1>5. /\ DOMAIN q = 0 .. Size
      /\ \A n \in 0 .. Size : q[n] = IF n = 0 THEN x ELSE up[q[n - 1]]
  BY <1>4 DEF Def
<1>6. q[0] = x /\ \A n \in 1 .. Size : q[n] = up[q[n - 1]] BY <1>5, SizeFacts
<1> DEFINE G == {n \in Nat : n <= Size => q[n] \in Ids}
<1>7. 0 \in G BY <1>6
<1>8. ASSUME NEW n \in Nat, n \in G PROVE n + 1 \in G
  <2> SUFFICES ASSUME n + 1 <= Size PROVE q[n + 1] \in Ids OBVIOUS
  <2>1. q[n] \in Ids BY <1>8, SizeFacts
  <2>2. q[n + 1] = up[q[(n + 1) - 1]] BY <1>6, SizeFacts
  <2> QED BY <2>1, <2>2
<1> HIDE DEF G
<1>9. \A n \in Nat : n \in G BY <1>7, <1>8, AllNumbers
<1>10. \A n \in 0 .. Size : q[n] \in Ids BY <1>9, SizeFacts DEF G
<1>11. q \in [0 .. Size -> Ids]
  <2>1. q = [n \in 0 .. Size |-> q[n]] BY <1>4 DEF Def
  <2> QED BY <1>10, <2>1
<1>12. Root(up, x) = q[Size] BY <1>1, SizeFacts DEF Root, R!RootOf
<1> QED BY <1>1, <1>6, <1>11, <1>12

(* Heights fall from the roots.                                            *)
Forest(up, h) ==
  /\ up \in [Ids -> Ids] /\ h \in [Ids -> Nat]
  /\ \A a \in Ids : up[a] = a \/ h[a] < h[up[a]]

(* So a path of as many steps as there are records ends in a root.         *)
LEMMA PathEnds ==
  ASSUME NEW up, NEW h, Forest(up, h), NEW x \in Ids
  PROVE  Root(up, x) \in Ids /\ up[Root(up, x)] = Root(up, x)
<1>1. up \in [Ids -> Ids] /\ h \in [Ids -> Nat] BY DEF Forest
<1>2. PICK p \in [0 .. Size -> Ids] :
        /\ Root(up, x) = p[Size]
        /\ p[0] = x /\ \A n \in 1 .. Size : p[n] = up[p[n - 1]]
  BY <1>1, PathSteps
<1>3. p[Size] \in Ids BY <1>2, SizeFacts
<1> SUFFICES ASSUME up[p[Size]] # p[Size] PROVE FALSE BY <1>2, <1>3
<1> DEFINE Back == {d \in Nat : d <= Size => up[p[Size - d]] # p[Size - d]}
<1>4. 0 \in Back BY SizeFacts
<1>5. ASSUME NEW d \in Nat, d \in Back PROVE d + 1 \in Back
  <2> SUFFICES ASSUME d + 1 <= Size, up[p[Size - (d + 1)]] = p[Size - (d + 1)]
               PROVE  FALSE
    OBVIOUS
  <2>1. Size - d \in 1 .. Size /\ (Size - d) - 1 = Size - (d + 1) BY SizeFacts
  <2>2. p[Size - d] = up[p[Size - (d + 1)]] BY <1>2, <2>1
  <2> QED BY <1>5, <2>1, <2>2, SizeFacts
<1> HIDE DEF Back
<1>6. \A d \in Nat : d \in Back BY <1>4, <1>5, AllNumbers
<1>7. ASSUME NEW n \in 0 .. Size PROVE up[p[n]] # p[n]
  <2>1. Size - n \in Nat /\ Size - n <= Size /\ Size - (Size - n) = n BY SizeFacts
  <2> QED BY <1>6, <2>1 DEF Back
<1> DEFINE Up == {n \in Nat : n <= Size => \A i \in 0 .. n - 1 : h[p[i]] < h[p[n]]}
<1>8. 0 \in Up OBVIOUS
<1>9. ASSUME NEW n \in Nat, n \in Up PROVE n + 1 \in Up
  <2> SUFFICES ASSUME n + 1 <= Size, NEW i \in 0 .. n PROVE h[p[i]] < h[p[n + 1]]
    BY SizeFacts
  <2>1. n \in 0 .. Size /\ n + 1 \in 1 .. Size /\ i \in 0 .. Size BY SizeFacts
  <2>2. p[n + 1] = up[p[n]] BY <1>2, <2>1
  <2>3. p[n] \in Ids /\ p[i] \in Ids /\ p[n + 1] \in Ids BY <1>2, <2>1
  <2>4. h[p[n]] < h[p[n + 1]] BY <1>7, <2>1, <2>2, <2>3 DEF Forest
  <2>5. h[p[n]] \in Nat /\ h[p[i]] \in Nat /\ h[p[n + 1]] \in Nat BY <1>1, <2>3
  <2>6. i = n \/ h[p[i]] < h[p[n]] BY <1>9, <2>1, SizeFacts
  <2> QED BY <2>4, <2>5, <2>6
<1> HIDE DEF Up
<1>10. \A n \in Nat : n \in Up BY <1>8, <1>9, AllNumbers
<1>11. \A i, j \in 0 .. Size : i < j => h[p[i]] < h[p[j]]
  BY <1>10, SizeFacts DEF Up
<1>12. \A i \in 0 .. Size : h[p[i]] \in Nat BY <1>1, <1>2
<1>13. \A i, j \in 0 .. Size : i # j => p[i] # p[j]
  BY <1>11, <1>12, SizeFacts
<1>14. IsFiniteSet(0 .. Size) /\ Cardinality(0 .. Size) = Size + 1
  <2>1. 0 \in Int /\ Size \in Int BY SizeFacts
  <2>2. /\ IsFiniteSet(0 .. Size)
        /\ Cardinality(0 .. Size) = IF 0 > Size THEN 0 ELSE Size - 0 + 1
    BY <2>1, FS_Interval
  <2> QED BY <2>2, SizeFacts
<1>15. Cardinality(Ids) < Cardinality(0 .. Size) BY <1>14, SizeFacts DEF Size
<1>16. \E i, j \in 0 .. Size : i # j /\ p[i] = p[j]
  BY <1>14, <1>15, SizeFacts, FS_PigeonHole
<1> QED BY <1>13, <1>16

(* What holds of x and goes from a record to its parent holds of its root; *)
(* the form is a set, for it is used by name.                              *)
LEMMA AlongPath ==
  ASSUME NEW up, NEW h, Forest(up, h), NEW x \in Ids, NEW S,
         x \in S, \A y \in Ids : y \in S => up[y] \in S
  PROVE  Root(up, x) \in S /\ R!Range(R!PathOf(up, x)) \subseteq S
<1>1. up \in [Ids -> Ids] /\ h \in [Ids -> Nat] BY DEF Forest
<1>2. PICK p \in [0 .. Size -> Ids] :
        /\ R!PathOf(up, x) = p /\ Root(up, x) = p[Size]
        /\ p[0] = x /\ \A n \in 1 .. Size : p[n] = up[p[n - 1]]
  BY <1>1, PathSteps
<1> DEFINE G == {n \in Nat : n <= Size => p[n] \in S}
<1>3. 0 \in G BY <1>2
<1>4. ASSUME NEW n \in Nat, n \in G PROVE n + 1 \in G
  <2> SUFFICES ASSUME n + 1 <= Size PROVE p[n + 1] \in S OBVIOUS
  <2>1. n \in 0 .. Size /\ n + 1 \in 1 .. Size /\ (n + 1) - 1 = n BY SizeFacts
  <2>2. p[n] \in Ids /\ p[n] \in S BY <1>2, <1>4, <2>1
  <2> QED BY <1>2, <2>1, <2>2
<1> HIDE DEF G
<1>5. \A n \in Nat : n \in G BY <1>3, <1>4, AllNumbers
<1>6. \A n \in 0 .. Size : p[n] \in S BY <1>5, SizeFacts DEF G
<1>7. Root(up, x) \in S BY <1>2, <1>6, SizeFacts
<1>8. R!Range(p) \subseteq S BY <1>2, <1>6 DEF R!Range
<1> QED BY <1>2, <1>7, <1>8

(* The roots are known by two laws.                                        *)
LEMMA RootUnique ==
  ASSUME NEW up, NEW h, Forest(up, h), NEW g,
         \A y \in Ids : up[y] = y => g[y] = y,
         \A y \in Ids : g[up[y]] = g[y]
  PROVE  \A x \in Ids : Root(up, x) = g[x]
<1> SUFFICES ASSUME NEW x \in Ids PROVE Root(up, x) = g[x] OBVIOUS
<1> DEFINE S == {y \in Ids : g[y] = g[x]}
<1>1. \A y \in Ids : up[y] \in Ids BY DEF Forest
<1>2. x \in S /\ \A y \in Ids : y \in S => up[y] \in S BY <1>1
<1>3. Root(up, x) \in S
  <2> HIDE DEF S
  <2> QED BY <1>2, AlongPath
<1>4. Root(up, x) \in Ids /\ up[Root(up, x)] = Root(up, x) BY PathEnds
<1> QED BY <1>3, <1>4

LEMMA RootLaws ==
  ASSUME NEW up, NEW h, Forest(up, h), NEW x \in Ids
  PROVE  /\ up[x] = x => Root(up, x) = x
         /\ Root(up, up[x]) = Root(up, x)
         /\ Root(up, x) = x \/ h[x] < h[Root(up, x)]
         /\ Root(up, Root(up, x)) = Root(up, x)
<1>1. up \in [Ids -> Ids] /\ h \in [Ids -> Nat] BY DEF Forest
<1>2. ASSUME NEW y \in Ids, up[y] = y PROVE Root(up, y) = y
  <2>1. y \in {y} /\ \A z \in Ids : z \in {y} => up[z] \in {y} BY <1>2
  <2>2. Root(up, y) \in {y} BY <2>1, AlongPath
  <2> QED BY <2>2
<1>3. Root(up, up[x]) = Root(up, x)
  <2>1. PICK p \in [0 .. Size -> Ids] :
          /\ Root(up, x) = p[Size]
          /\ p[0] = x /\ \A n \in 1 .. Size : p[n] = up[p[n - 1]]
    BY <1>1, PathSteps
  <2>2. PICK q \in [0 .. Size -> Ids] :
          /\ Root(up, up[x]) = q[Size]
          /\ q[0] = up[x] /\ \A n \in 1 .. Size : q[n] = up[q[n - 1]]
    <3>1. up[x] \in Ids BY <1>1
    <3> QED BY <1>1, <3>1, PathSteps
  <2> DEFINE G == {n \in Nat : n <= Size => q[n] = up[p[n]]}
  <2>3. 0 \in G BY <2>1, <2>2
  <2>4. ASSUME NEW n \in Nat, n \in G PROVE n + 1 \in G
    <3> SUFFICES ASSUME n + 1 <= Size PROVE q[n + 1] = up[p[n + 1]] OBVIOUS
    <3>1. n \in 0 .. Size /\ n + 1 \in 1 .. Size /\ (n + 1) - 1 = n BY SizeFacts
    <3>2. q[n] = up[p[n]] BY <2>4, <3>1
    <3> QED BY <2>1, <2>2, <3>1, <3>2
  <2> HIDE DEF G
  <2>5. Size \in G BY <2>3, <2>4, SizeFacts, AllNumbers
  <2>6. q[Size] = up[p[Size]] BY <2>5, SizeFacts DEF G
  <2> QED BY <2>1, <2>2, <2>6, PathEnds
<1>4. Root(up, x) = x \/ h[x] < h[Root(up, x)]
  <2> DEFINE S == {y \in Ids : y = x \/ h[x] < h[y]}
  <2>1. ASSUME NEW y \in Ids, y \in S PROVE up[y] \in S
    <3>1. up[y] \in Ids /\ h[y] \in Nat /\ h[x] \in Nat /\ h[up[y]] \in Nat BY <1>1
    <3> QED BY <2>1, <3>1 DEF Forest
  <2>2. x \in S OBVIOUS
  <2> HIDE DEF S
  <2>3. Root(up, x) \in S BY <2>1, <2>2, AlongPath
  <2> QED BY <2>3 DEF S
<1> QED BY <1>2, <1>3, <1>4, PathEnds

(* To hang a record under its root compresses the path and no more.        *)
LEMMA Compressed ==
  ASSUME NEW up, NEW h, Forest(up, h), NEW up2 \in [Ids -> Ids],
         \A y \in Ids : up2[y] = up[y] \/ up2[y] = Root(up, y)
  PROVE  Forest(up2, h) /\ \A y \in Ids : Root(up2, y) = Root(up, y)
<1> DEFINE g == [y \in Ids |-> Root(up, y)]
<1>1. /\ \A y \in Ids : up[y] = y => g[y] = y
      /\ \A y \in Ids : g[up[y]] = g[y] /\ (g[y] = y \/ h[y] < h[g[y]])
      /\ \A y \in Ids : g[y] \in Ids /\ up[g[y]] = g[y] /\ g[g[y]] = g[y]
      /\ \A y \in Ids : up[y] \in Ids
  <2>1. \A y \in Ids : up[y] \in Ids BY DEF Forest
  <2>2. \A y \in Ids :
          /\ up[y] = y => Root(up, y) = y
          /\ Root(up, up[y]) = Root(up, y)
          /\ Root(up, y) = y \/ h[y] < h[Root(up, y)]
          /\ Root(up, Root(up, y)) = Root(up, y)
    BY RootLaws
  <2>3. \A y \in Ids : Root(up, y) \in Ids /\ up[Root(up, y)] = Root(up, y)
    BY PathEnds
  <2> QED BY <2>1, <2>2, <2>3
<1>2. \A y \in Ids : up2[y] = up[y] \/ up2[y] = g[y] OBVIOUS
<1>3. \A y \in Ids : g[y] = Root(up, y) OBVIOUS
<1> HIDE DEF g
<1>4. Forest(up2, h)
  <2>1. \A y \in Ids : up2[y] = y \/ h[y] < h[up2[y]] BY <1>1, <1>2 DEF Forest
  <2> QED BY <2>1 DEF Forest
<1>5. \A y \in Ids : up2[y] = y => g[y] = y BY <1>1, <1>2
<1>6. \A y \in Ids : g[up2[y]] = g[y] BY <1>1, <1>2
<1>7. \A y \in Ids : Root(up2, y) = g[y] BY <1>4, <1>5, <1>6, RootUnique
<1> QED BY <1>3, <1>4, <1>7

(* find leaves the roots, and what it was asked for right under its root.  *)
LEMMA FindKeeps ==
  ASSUME NEW up, NEW h, Forest(up, h), NEW x \in Ids
  PROVE  LET found == R!Find(up, x) IN
         /\ Forest(found, h)
         /\ \A y \in Ids : Root(found, y) = Root(up, y)
         /\ \A y \in Ids : found[y] = up[y] \/ found[y] = Root(up, y)
         /\ found[x] = Root(up, x)
<1> DEFINE found == R!Find(up, x)
           path == R!Range(R!PathOf(up, x))
           S == {y \in Ids : Root(up, y) = Root(up, x)}
<1>1. found = [y \in Ids |-> IF y \in path THEN Root(up, x) ELSE up[y]]
  BY Zenon DEF R!Find, Root
<1>2. path \subseteq S
  <2>1. \A y \in Ids : up[y] \in Ids BY DEF Forest
  <2>2. \A y \in Ids : y \in S => up[y] \in S BY <2>1, RootLaws
  <2>3. x \in S OBVIOUS
  <2> HIDE DEF S
  <2> QED BY <2>2, <2>3, AlongPath
<1>3. x \in path
  <2>1. PICK p \in [0 .. Size -> Ids] : R!PathOf(up, x) = p /\ p[0] = x
    BY PathSteps DEF Forest
  <2>2. 0 \in DOMAIN p BY <2>1, SizeFacts
  <2> QED BY <2>1, <2>2 DEF R!Range
<1> HIDE DEF path
<1>4. Root(up, x) \in Ids BY PathEnds
<1>5. found \in [Ids -> Ids] BY <1>1, <1>4 DEF Forest
<1>6. \A y \in Ids : found[y] = up[y] \/ found[y] = Root(up, y) BY <1>1, <1>2
<1>7. found[x] = Root(up, x) BY <1>1, <1>3
<1> HIDE DEF found
<1>8. Forest(found, h) /\ \A y \in Ids : Root(found, y) = Root(up, y)
  BY <1>5, <1>6, Compressed
<1> QED BY <1>6, <1>7, <1>8 DEF found

(* union hangs one root under the other, and the heights stay right.       *)
LEMMA UnionJoins ==
  ASSUME Forest(parent, height), NEW a \in Ids, NEW b \in Ids, R!Union(a, b)
  PROVE  /\ Forest(parent', height')
         /\ \E low, top \in Ids :
              /\ {low, top} = {Root(parent, a), Root(parent, b)}
              /\ \A x \in Ids :
                   Root(parent', x) = IF Root(parent, x) = low THEN top
                                      ELSE Root(parent, x)
<1> DEFINE mid == R!Find(parent, a)
           up == R!Find(mid, b)
           ra == Root(parent, a)
           rb == Root(parent, b)
           top == IF height[up[a]] < height[up[b]] THEN up[b] ELSE up[a]
           low == IF top = up[a] THEN up[b] ELSE up[a]
<1>1. /\ Forest(mid, height) /\ mid[a] = ra
      /\ \A y \in Ids : Root(mid, y) = Root(parent, y)
  BY FindKeeps
<1> HIDE DEF mid
<1>2. /\ Forest(up, height) /\ up[b] = Root(mid, b)
      /\ \A y \in Ids : Root(up, y) = Root(mid, y)
      /\ up[a] = mid[a] \/ up[a] = Root(mid, a)
  BY <1>1, FindKeeps
<1>3. up[a] = ra /\ up[b] = rb /\ \A y \in Ids : Root(up, y) = Root(parent, y)
  BY <1>1, <1>2
<1>4. ra \in Ids /\ rb \in Ids /\ up[ra] = ra /\ up[rb] = rb
  <2>1. /\ Root(up, a) \in Ids /\ up[Root(up, a)] = Root(up, a)
        /\ Root(up, b) \in Ids /\ up[Root(up, b)] = Root(up, b)
    BY <1>2, PathEnds
  <2> QED BY <1>3, <2>1
<1>5. IF top = low
      THEN parent' = up /\ UNCHANGED height
      ELSE /\ parent' = [up EXCEPT ![low] = top]
           /\ height' = IF height[low] = height[top]
                        THEN [height EXCEPT ![top] = height[top] + 1] ELSE height
  BY Zenon DEF R!Union, mid
<1> HIDE DEF up
<1>6. /\ top \in Ids /\ low \in Ids /\ up[top] = top /\ up[low] = low
      /\ {low, top} = {ra, rb}
  BY <1>3, <1>4
<1>7. height[top] \in Nat /\ height[low] \in Nat /\ height[low] <= height[top]
  BY <1>3, <1>4 DEF Forest
<1> HIDE DEF top, low
<1>8. CASE top = low
  <2>1. \A x \in Ids : Root(parent', x) = IF Root(parent, x) = low THEN top
                                          ELSE Root(parent, x)
    BY <1>3, <1>5, <1>8
  <2> QED BY <1>2, <1>5, <1>6, <1>8, <2>1
<1>9. CASE top # low
  <2>1. /\ parent' = [up EXCEPT ![low] = top]
        /\ height' = IF height[low] = height[top]
                     THEN [height EXCEPT ![top] = height[top] + 1] ELSE height
    BY <1>5, <1>9
  <2>2. /\ up \in [Ids -> Ids] /\ height \in [Ids -> Nat]
        /\ \A y \in Ids : up[y] = y \/ height[y] < height[up[y]]
    BY <1>2 DEF Forest
  <2>3. parent' \in [Ids -> Ids] /\ height' \in [Ids -> Nat]
    BY <1>6, <1>7, <2>1, <2>2
  <2>4. /\ \A y \in Ids : parent'[y] = IF y = low THEN top ELSE up[y]
        /\ \A y \in Ids : height'[y] \in Nat /\ height[y] \in Nat /\ height[y] <= height'[y]
        /\ \A y \in Ids \ {top} : height'[y] = height[y]
        /\ height[low] < height'[top]
    BY <1>6, <1>7, <2>1, <2>2
  <2>5. ASSUME NEW y \in Ids PROVE parent'[y] = y \/ height'[y] < height'[parent'[y]]
    <3>1. CASE y = low BY <1>6, <1>9, <2>4, <3>1
    <3>2. CASE y = top BY <1>6, <1>9, <2>4, <3>2
    <3>3. CASE y # low /\ y # top
      <4>1. parent'[y] = up[y] /\ height'[y] = height[y] /\ up[y] \in Ids
        BY <2>2, <2>4, <3>3
      <4> QED BY <2>2, <2>4, <4>1
    <3> QED BY <3>1, <3>2, <3>3
  <2>6. Forest(parent', height') BY <2>3, <2>5 DEF Forest
  <2> DEFINE g == [x \in Ids |-> IF Root(up, x) = low THEN top ELSE Root(up, x)]
  <2>7. /\ \A y \in Ids : parent'[y] = y => g[y] = y
        /\ \A y \in Ids : g[parent'[y]] = g[y]
    <3>1. /\ \A y \in Ids : up[y] = y => Root(up, y) = y
          /\ \A y \in Ids : Root(up, up[y]) = Root(up, y)
      BY <1>2, RootLaws
    <3>2. Root(up, low) = low /\ Root(up, top) = top BY <1>6, <3>1
    <3>3. ASSUME NEW y \in Ids, parent'[y] = y PROVE g[y] = y
      <4>1. y # low /\ up[y] = y BY <1>9, <2>4, <3>3
      <4> QED BY <3>1, <4>1
    <3>4. ASSUME NEW y \in Ids PROVE g[parent'[y]] = g[y]
      <4>1. up[y] \in Ids BY <2>2
      <4> QED BY <1>6, <2>4, <3>1, <3>2, <4>1
    <3> QED BY <3>3, <3>4
  <2>8. \A x \in Ids : g[x] = IF Root(up, x) = low THEN top ELSE Root(up, x) OBVIOUS
  <2> HIDE DEF g
  <2>9. \A x \in Ids : Root(parent', x) = g[x] BY <2>6, <2>7, RootUnique
  <2>10. \A x \in Ids : Root(parent', x) = IF Root(parent, x) = low THEN top
                                           ELSE Root(parent, x)
    BY <1>3, <2>8, <2>9
  <2> QED BY <1>6, <2>6, <2>10
<1> QED BY <1>8, <1>9
-----------------------------------------------------------------------------
(* What was joined.                                                        *)
Closed(T, pairsOf) == \A c \in Ids, d \in T : {c, d} \in pairsOf => c \in T

(* What a record is connected with is closed: were it not, each step would *)
(* have found a record more, and so more than there are.                   *)
LEMMA ConnectedIs ==
  ASSUME NEW a \in Ids
  PROVE  \E T \in SUBSET Ids :
           /\ a \in T /\ Closed(T, joined)
           /\ \A b : R!Connected(a, b) <=> b \in T
           /\ \A U : a \in U /\ Closed(U, joined) => T \subseteq U
<1> DEFINE Next1(S) == S \cup {c \in Ids : \E d \in S : {c, d} \in joined}
           F == [S \in SUBSET Ids |-> Next1(S)]
           Def(r) == r = [n \in 0 .. Size |->
                            IF n = 0 THEN {a}
                            ELSE r[n - 1] \cup {c \in Ids : \E d \in r[n - 1] : {c, d} \in joined}]
           reach == CHOOSE r : Def(r)
<1>1. \A b : R!Connected(a, b) <=> b \in reach[Size]
  BY SizeFacts, Zenon DEF R!Connected
<1>2. F \in [SUBSET Ids -> SUBSET Ids] OBVIOUS
<1>3. PICK g \in [0 .. Size -> SUBSET Ids] :
        g[0] = {a} /\ \A n \in 1 .. Size : g[n] = F[g[n - 1]]
  <2> HIDE DEF F
  <2>1. {a} \in SUBSET Ids /\ Size \in Nat BY SizeFacts
  <2>2. \E g : Iterated(g, SUBSET Ids, {a}, Size, F) BY <1>2, <2>1, Iterates, Zenon
  <2> QED BY <2>2 DEF Iterated
<1>4. \A n \in 1 .. Size : g[n - 1] \in SUBSET Ids /\ g[n] = Next1(g[n - 1])
  <2> SUFFICES ASSUME NEW n \in 1 .. Size
               PROVE  g[n - 1] \in SUBSET Ids /\ g[n] = Next1(g[n - 1])
    OBVIOUS
  <2>1. n - 1 \in 0 .. Size BY SizeFacts
  <2>2. g[n - 1] \in SUBSET Ids BY <1>3, <2>1
  <2> QED BY <1>3, <2>2
<1>5. Def(g)
  <2> DEFINE d == [n \in 0 .. Size |->
                     IF n = 0 THEN {a}
                     ELSE g[n - 1] \cup {c \in Ids : \E e \in g[n - 1] : {c, e} \in joined}]
  <2>1. \A n \in 0 .. Size : g[n] = d[n]
    <3> SUFFICES ASSUME NEW n \in 0 .. Size PROVE g[n] = d[n] OBVIOUS
    <3>1. CASE n = 0 BY <1>3, <3>1
    <3>2. CASE n # 0
      <4>1. n \in 1 .. Size BY <3>2, SizeFacts
      <4>2. g[n] = Next1(g[n - 1]) BY <1>4, <4>1
      <4> QED BY <3>2, <4>2
    <3> QED BY <3>1, <3>2
  <2>2. DOMAIN d = 0 .. Size /\ DOMAIN g = 0 .. Size BY <1>3
  <2>3. d = [n \in 0 .. Size |-> d[n]] /\ g = [n \in 0 .. Size |-> g[n]] BY <2>2
  <2> HIDE DEF d
  <2>4. g = d BY <2>1, <2>3
  <2> QED BY <2>4 DEF d
<1> HIDE DEF Def
<1>6. Def(reach) BY <1>5
<1> HIDE DEF reach
<1>7. /\ reach[0] = {a}
      /\ \A n \in 1 .. Size : reach[n] = Next1(reach[n - 1])
  <2>1. \A n \in 0 .. Size : reach[n] = IF n = 0 THEN {a} ELSE Next1(reach[n - 1])
    BY <1>6 DEF Def
  <2> HIDE DEF Next1
  <2> QED BY <2>1, SizeFacts
<1>8. \A S : S \subseteq Next1(S) /\ (S \subseteq Ids => Next1(S) \subseteq Ids) OBVIOUS
<1> DEFINE C == reach[Size]
<1>9. \A S \in SUBSET Ids : Next1(S) = S => Closed(S, joined) BY DEF Closed
<1>10. \A S, U : S \subseteq U /\ Closed(U, joined) => Next1(S) \subseteq U BY DEF Closed
<1> HIDE DEF Next1
<1> DEFINE In(U) == {n \in Nat : n <= Size => reach[n] \subseteq U}
<1>11. ASSUME NEW U, a \in U, \A S : S \subseteq U => Next1(S) \subseteq U
       PROVE  \A n \in 0 .. Size : reach[n] \subseteq U
  <2>1. 0 \in In(U) BY <1>7, <1>11
  <2>2. ASSUME NEW n \in Nat, n \in In(U) PROVE n + 1 \in In(U)
    <3> SUFFICES ASSUME n + 1 <= Size PROVE reach[n + 1] \subseteq U OBVIOUS
    <3>1. n + 1 \in 1 .. Size /\ (n + 1) - 1 = n /\ n <= Size BY SizeFacts
    <3>2. reach[n] \subseteq U BY <2>2, <3>1
    <3> QED BY <1>7, <1>11, <3>1, <3>2
  <2> HIDE DEF In
  <2>3. \A n \in Nat : n \in In(U) BY <2>1, <2>2, AllNumbers
  <2> QED BY <2>3, SizeFacts DEF In
<1>12. \A n \in 0 .. Size : reach[n] \in SUBSET Ids BY <1>8, <1>11
<1>13. ASSUME NEW U, a \in U, Closed(U, joined) PROVE C \subseteq U
  <2>1. \A S : S \subseteq U => Next1(S) \subseteq U BY <1>10, <1>13
  <2> QED BY <1>11, <1>13, <2>1, SizeFacts
<1>14. a \in C
  <2> DEFINE G == {n \in Nat : n <= Size => a \in reach[n]}
  <2>1. 0 \in G BY <1>7
  <2>2. ASSUME NEW n \in Nat, n \in G PROVE n + 1 \in G
    <3> SUFFICES ASSUME n + 1 <= Size PROVE a \in reach[n + 1] OBVIOUS
    <3>1. n + 1 \in 1 .. Size /\ (n + 1) - 1 = n /\ n <= Size BY SizeFacts
    <3>2. a \in reach[n] BY <2>2, <3>1
    <3> QED BY <1>7, <1>8, <3>1, <3>2
  <2> HIDE DEF G
  <2>3. Size \in G BY <2>1, <2>2, AllNumbers, SizeFacts
  <2> QED BY <2>3, SizeFacts DEF G
<1>15. Next1(C) = C
  <2> SUFFICES ASSUME Next1(reach[Size]) # reach[Size] PROVE FALSE OBVIOUS
  <2> DEFINE Back == {d \in Nat : d <= Size => Next1(reach[Size - d]) # reach[Size - d]}
  <2>1. 0 \in Back BY SizeFacts
  <2>2. ASSUME NEW d \in Nat, d \in Back PROVE d + 1 \in Back
    <3> SUFFICES ASSUME d + 1 <= Size,
                        Next1(reach[Size - (d + 1)]) = reach[Size - (d + 1)]
                 PROVE  FALSE
      OBVIOUS
    <3>1. Size - d \in 1 .. Size /\ (Size - d) - 1 = Size - (d + 1) BY SizeFacts
    <3>2. reach[Size - d] = Next1(reach[Size - (d + 1)]) BY <1>7, <3>1
    <3> QED BY <2>2, <3>1, <3>2, SizeFacts
  <2> HIDE DEF Back
  <2>3. \A d \in Nat : d \in Back BY <2>1, <2>2, AllNumbers
  <2>4. ASSUME NEW n \in 0 .. Size PROVE Next1(reach[n]) # reach[n]
    <3>1. Size - n \in Nat /\ Size - n <= Size /\ Size - (Size - n) = n BY SizeFacts
    <3> QED BY <2>3, <3>1 DEF Back
  <2>5. \A S \in SUBSET Ids : IsFiniteSet(S) /\ Cardinality(S) \in Nat
    BY SizeFacts, FS_Subset, FS_CardinalityType
  <2> DEFINE G == {n \in Nat : n <= Size => Cardinality(reach[n]) >= n + 1}
  <2>6. 0 \in G
    <3>1. Cardinality({a}) = 1 BY FS_Singleton, Zenon
    <3>2. Cardinality(reach[0]) = 1 BY <1>7, <3>1
    <3> QED BY <3>2
  <2>7. ASSUME NEW n \in Nat, n \in G PROVE n + 1 \in G
    <3> SUFFICES ASSUME n + 1 <= Size PROVE Cardinality(reach[n + 1]) >= (n + 1) + 1
      OBVIOUS
    <3>1. n \in 0 .. Size /\ n + 1 \in 1 .. Size /\ (n + 1) - 1 = n /\ n + 1 \in 0 .. Size
      BY SizeFacts
    <3>2. Cardinality(reach[n]) >= n + 1 BY <2>7, <3>1, SizeFacts
    <3>3. reach[n + 1] = Next1(reach[n]) BY <1>7, <3>1
    <3>4. reach[n] \subseteq reach[n + 1] /\ reach[n] # reach[n + 1]
      BY <1>8, <2>4, <3>1, <3>3
    <3>5. reach[n + 1] \in SUBSET Ids /\ reach[n] \in SUBSET Ids BY <1>12, <3>1
    <3>6. /\ Cardinality(reach[n]) <= Cardinality(reach[n + 1])
          /\ Cardinality(reach[n + 1]) # Cardinality(reach[n])
      BY <2>5, <3>4, <3>5, FS_Subset
    <3>7. Cardinality(reach[n]) \in Nat /\ Cardinality(reach[n + 1]) \in Nat
      BY <2>5, <3>5
    <3> QED BY <3>2, <3>6, <3>7
  <2> HIDE DEF G
  <2>8. Size \in G BY <2>6, <2>7, AllNumbers, SizeFacts
  <2>9. Cardinality(reach[Size]) >= Size + 1 BY <2>8, SizeFacts DEF G
  <2>10. reach[Size] \in SUBSET Ids BY <1>12, SizeFacts
  <2>11. Cardinality(reach[Size]) <= Size BY <2>10, SizeFacts, FS_Subset DEF Size
  <2>12. Cardinality(reach[Size]) \in Nat BY <2>5, <2>10
  <2> QED BY <2>9, <2>11, <2>12, SizeFacts
<1>16. C \in SUBSET Ids BY <1>12, SizeFacts
<1>17. Closed(C, joined) BY <1>9, <1>15, <1>16
<1> HIDE DEF C
<1>18. \A b : R!Connected(a, b) <=> b \in C BY <1>1 DEF C
<1> QED BY <1>13, <1>14, <1>16, <1>17, <1>18

(* The classes are those of what was joined: the ends of a pair have one   *)
(* root, and no set closed under the pairs divides a class.                *)
ClassInv ==
  /\ Forest(parent, height)
  /\ \A c, d \in Ids : {c, d} \in joined => Root(parent, c) = Root(parent, d)
  /\ \A T \in SUBSET Ids : Closed(T, joined) =>
       \A x \in T, y \in Ids : Root(parent, x) = Root(parent, y) => y \in T
  /\ pairs \subseteq (DOMAIN order) \X (DOMAIN order)
  /\ phase = "pairs" => \A i \in DOMAIN order : order[i] \in Ids

LEMMA ClassesConnect == ASSUME ClassInv PROVE R!ClassesAreComponents
<1>1. ASSUME NEW a \in Ids, NEW b \in Ids
      PROVE  (R!RootOf(parent, a) = R!RootOf(parent, b)) <=> R!Connected(a, b)
  <2>1. PICK T \in SUBSET Ids :
           /\ a \in T /\ Closed(T, joined)
           /\ \A c : R!Connected(a, c) <=> c \in T
           /\ \A U : a \in U /\ Closed(U, joined) => T \subseteq U
    BY ConnectedIs
  <2>2. Root(parent, a) = Root(parent, b) => b \in T BY <2>1 DEF ClassInv
  <2>3. b \in T => Root(parent, a) = Root(parent, b)
    <3> DEFINE U == {c \in Ids : Root(parent, c) = Root(parent, a)}
    <3>1. a \in U /\ Closed(U, joined) BY DEF Closed, ClassInv
    <3> HIDE DEF U
    <3>2. T \subseteq U BY <2>1, <3>1
    <3> QED BY <3>2 DEF U
  <2> QED BY <2>1, <2>2, <2>3 DEF Root
<1>2. \A a \in Ids : parent[a] = a \/ height[a] < height[parent[a]]
  BY DEF ClassInv, Forest
<1> QED BY <1>1, <1>2 DEF R!ClassesAreComponents

LEMMA ClassesStart == ASSUME R!Init PROVE ClassInv
<1>1. parent = [c \in Ids |-> c] /\ height = [c \in Ids |-> 0] /\ joined = {}
  BY DEF R!Init
<1>2. Forest(parent, height) BY <1>1 DEF Forest
<1>3. \A x \in Ids : parent[x] = x BY <1>1
<1>4. \A x \in Ids : Root(parent, x) = x BY <1>2, <1>3, RootLaws
<1>5. pairs \subseteq (DOMAIN order) \X (DOMAIN order)
  BY DEF R!Init, R!Pairs
<1>6. phase = "pairs" => \A i \in DOMAIN order : order[i] \in Ids
  <2> SUFFICES ASSUME phase = "pairs", NEW i \in DOMAIN order PROVE order[i] \in Ids
    OBVIOUS
  <2>1. order \in Orders BY DEF R!Init
  <2>2. R!Range(order) = Ids BY <2>1, RecordsAssumption DEF R!RegistryAssumption
  <2> QED BY <2>2 DEF R!Range
<1> QED BY <1>1, <1>2, <1>4, <1>5, <1>6 DEF ClassInv

LEMMA ClassStep ==
  ASSUME ClassInv, [R!Next]_R!vars
  PROVE  ClassInv'
<1>1. CASE /\ UNCHANGED <<parent, height, joined, order>>
           /\ pairs' \subseteq pairs
           /\ phase' = "pairs" => phase = "pairs"
  <2>1. Forest(parent, height)' BY <1>1 DEF ClassInv, Forest
  <2>2. \A x : Root(parent, x)' = Root(parent, x)
    BY <1>1 DEF Root, R!RootOf, R!PathOf
  <2>3. \A T : Closed(T, joined)' = Closed(T, joined) BY <1>1 DEF Closed
  <2>4. /\ pairs' \subseteq (DOMAIN order') \X (DOMAIN order')
        /\ phase' = "pairs" => \A i \in DOMAIN order' : order'[i] \in Ids
    BY <1>1 DEF ClassInv
  <2> QED BY <1>1, <2>1, <2>2, <2>3, <2>4 DEF ClassInv
<1>2. CASE R!ComparePair
  <2>1. PICK p \in pairs :
          LET a == order[p[1]]  b == order[p[2]]
          IN  \/ R!Union(a, b) /\ joined' = joined \cup {{a, b}}
              \/ UNCHANGED <<parent, height, joined>>
    BY <1>2 DEF R!ComparePair, R!forest
  <2>2. phase = "pairs" /\ phase' = phase /\ order' = order /\ pairs' \subseteq pairs
    BY <1>2 DEF R!ComparePair, R!file
  <2> DEFINE a == order[p[1]]
             b == order[p[2]]
  <2>3. a \in Ids /\ b \in Ids
    <3>1. p[1] \in DOMAIN order /\ p[2] \in DOMAIN order BY DEF ClassInv
    <3> QED BY <2>2, <3>1 DEF ClassInv
  <2> HIDE DEF a, b
  <2>4. CASE UNCHANGED <<parent, height, joined>> BY <1>1, <2>2, <2>4
  <2>5. CASE R!Union(a, b) /\ joined' = joined \cup {{a, b}}
    <3>1. Forest(parent, height) BY DEF ClassInv
    <3>2. /\ Forest(parent', height')
          /\ \E low, top \in Ids :
               /\ {low, top} = {Root(parent, a), Root(parent, b)}
               /\ \A x \in Ids :
                    Root(parent', x) = IF Root(parent, x) = low THEN top
                                       ELSE Root(parent, x)
      BY <2>3, <2>5, <3>1, UnionJoins
    <3>3. PICK low, top \in Ids :
            /\ {low, top} = {Root(parent, a), Root(parent, b)}
            /\ \A x \in Ids :
                 Root(parent', x) = IF Root(parent, x) = low THEN top
                                    ELSE Root(parent, x)
      BY <3>2
    <3>4. \/ low = Root(parent, a) /\ top = Root(parent, b)
          \/ low = Root(parent, b) /\ top = Root(parent, a)
      BY <3>3
    <3>5. ASSUME NEW c \in Ids, NEW d \in Ids, {c, d} \in joined'
          PROVE  Root(parent', c) = Root(parent', d)
      <4>1. CASE {c, d} \in joined BY <3>3, <4>1 DEF ClassInv
      <4>2. CASE {c, d} = {a, b}
        <5>1. (c = a /\ d = b) \/ (c = b /\ d = a) BY <4>2
        <5> QED BY <3>3, <3>4, <5>1, <2>3
      <4> QED BY <2>5, <3>5, <4>1, <4>2
    <3>6. ASSUME NEW T \in SUBSET Ids, Closed(T, joined'),
                 NEW x \in T, NEW y \in Ids, Root(parent', x) = Root(parent', y)
          PROVE  y \in T
      <4>1. Closed(T, joined) BY <2>5, <3>6 DEF Closed
      <4>2. \A u \in T, v \in Ids : Root(parent, u) = Root(parent, v) => v \in T
        BY <4>1 DEF ClassInv
      <4>3. a \in T <=> b \in T
        <5>1. {a, b} \in joined' /\ {b, a} \in joined' BY <2>5
        <5> QED BY <2>3, <3>6, <5>1 DEF Closed
      <4>4. \/ Root(parent, x) = Root(parent, y)
            \/ Root(parent, x) = Root(parent, a) /\ Root(parent, y) = Root(parent, b)
            \/ Root(parent, x) = Root(parent, b) /\ Root(parent, y) = Root(parent, a)
        <5>1. x \in Ids OBVIOUS
        <5> QED BY <3>3, <3>4, <3>6, <5>1
      <4> QED BY <2>3, <4>2, <4>3, <4>4
    <3>7. pairs' \subseteq (DOMAIN order') \X (DOMAIN order') BY <2>2 DEF ClassInv
    <3>8. phase' = "pairs" => \A i \in DOMAIN order' : order'[i] \in Ids
      BY <2>2 DEF ClassInv
    <3>9. Forest(parent, height)' BY <3>2 DEF Forest
    <3>10. \A c, d \in Ids :
             {c, d} \in joined' => Root(parent, c)' = Root(parent, d)'
      BY <3>5 DEF Root, R!RootOf, R!PathOf
    <3>11. \A T \in SUBSET Ids : Closed(T, joined)' =>
             \A x \in T, y \in Ids : Root(parent, x)' = Root(parent, y)' => y \in T
      BY <3>6 DEF Root, R!RootOf, R!PathOf, Closed
    <3> QED BY <3>7, <3>8, <3>9, <3>10, <3>11 DEF ClassInv
  <2> QED BY <2>1, <2>4, <2>5 DEF a, b
<1>3. R!Close => /\ UNCHANGED <<parent, height, joined, order, pairs>>
                 /\ phase' = "links"
  BY DEF R!Close, R!file, R!forest
<1>4. \A q \in Pensioners :
        R!LinkPensioner(q) => UNCHANGED <<parent, height, joined, order, pairs, phase>>
  BY DEF R!LinkPensioner, R!file, R!forest
<1>5. R!WriteDedup => /\ UNCHANGED <<parent, height, joined, order, pairs>>
                      /\ phase' = "done"
  BY DEF R!WriteDedup, R!file, R!forest
<1>6. R!CrossReference \/ R!AnnotateDixie \/ R!RunDedup =>
        /\ UNCHANGED <<parent, height, joined, order, pairs>>
        /\ phase' \in {"dixie", "dedup", "done"}
  BY DEF R!CrossReference, R!AnnotateDixie, R!RunDedup, R!file, R!forest
<1>7. UNCHANGED R!vars => UNCHANGED <<parent, height, joined, order, pairs, phase>>
  BY DEF R!vars, R!file, R!forest
<1> QED BY <1>1, <1>2, <1>3, <1>4, <1>5, <1>6, <1>7 DEF R!Next
-----------------------------------------------------------------------------
(* The persons.                                                            *)

(* The names of records come in an order, that of their texts.             *)
PersonNames == {"person"} \X (1 .. 99)

LEMMA FirstIsOne ==
  ASSUME NEW names \in SUBSET PersonNames, names # {}
  PROVE  R!FirstName(names) \in names
<1> DEFINE key(n) == IF n < 10 THEN 11 * n ELSE 11 * (n \div 10) + (n % 10) + 1
           S == {key(p[2]) : p \in names}
<1>1. \A p \in names : p[2] \in 1 .. 99 /\ p = <<"person", p[2]>> BY DEF PersonNames
<1>2. \A n \in 1 .. 99 : key(n) \in Nat OBVIOUS
<1>3. S \in SUBSET Nat /\ S # {} BY <1>1, <1>2
<1>4. \A m, n \in 1 .. 99 : m # n /\ key(m) <= key(n) => R!TextBefore(m, n)
  <2> SUFFICES ASSUME NEW m \in 1 .. 99, NEW n \in 1 .. 99, m # n, key(m) <= key(n)
               PROVE  R!TextBefore(m, n)
    OBVIOUS
  <2>1. /\ m = 10 * (m \div 10) + (m % 10) /\ m % 10 \in 0 .. 9 /\ m \div 10 \in 0 .. 9
        /\ n = 10 * (n \div 10) + (n % 10) /\ n % 10 \in 0 .. 9 /\ n \div 10 \in 0 .. 9
    OBVIOUS
  <2>2. CASE m < 10 /\ n < 10 BY <2>1, <2>2 DEF R!TextBefore, R!Tens
  <2>3. CASE m < 10 /\ n >= 10 BY <2>1, <2>3 DEF R!TextBefore, R!Tens
  <2>4. CASE m >= 10 /\ n < 10 BY <2>1, <2>4 DEF R!TextBefore, R!Tens
  <2>5. CASE m >= 10 /\ n >= 10 BY <2>1, <2>5 DEF R!TextBefore, R!Tens
  <2> QED BY <2>2, <2>3, <2>4, <2>5
<1> HIDE DEF key
<1>5. PICK k \in S : \A l \in S : k <= l
  <2> HIDE DEF S
  <2>1. PICK x \in S : \A y \in S : ~(<<y, x>> \in OpToRel(<, Nat))
    BY <1>3, WFMin, NatLessThanWellFounded
  <2>2. \A y \in S : ~(y < x) BY <1>3, <2>1 DEF OpToRel
  <2> QED BY <1>3, <2>2
<1>6. PICK p \in names : k = key(p[2]) OBVIOUS
<1>7. \A r \in names \ {p} : R!TextBefore(p[2], r[2])
  <2> SUFFICES ASSUME NEW r \in names \ {p} PROVE R!TextBefore(p[2], r[2]) OBVIOUS
  <2>1. p[2] # r[2] BY <1>1
  <2>2. key(p[2]) <= key(r[2]) BY <1>5, <1>6
  <2> QED BY <1>1, <1>4, <2>1, <2>2
<1> HIDE DEF S
<1>8. \E u \in names : \A r \in names \ {u} : R!TextBefore(u[2], r[2]) BY <1>7
<1> QED BY <1>8, Zenon DEF R!FirstName

(* Every record is under one person, and every pensioner once it is linked;*)
(* before that it is under none, nor a person of its own.                  *)
Written ==
  /\ DOMAIN whoIs \subseteq Pensioners /\ DOMAIN personOf = Ids
  /\ \A p \in DOMAIN persons : {"members", "linked"} \subseteq DOMAIN persons[p]
  /\ \A c \in Ids : personOf[c] \in PersonNames /\ personOf[c] \in DOMAIN persons
  /\ \A c \in Ids, p \in DOMAIN persons :
       c \in persons[p].members <=> p = personOf[c]
  /\ \A q \in Pensioners, p \in DOMAIN persons :
       q \in persons[p].linked <=> (q \in DOMAIN whoIs /\ p = whoIs[q])
  /\ \A q \in DOMAIN whoIs : whoIs[q] \in DOMAIN persons
  /\ \A q \in Pensioners \ DOMAIN whoIs : <<"pensioner", q>> \notin DOMAIN persons

PersonInv ==
  /\ phase = "pairs" => DOMAIN whoIs = {}
  /\ phase = "links" => Written
  /\ phase = "done" /\ judged = R!NoRow => Written /\ DOMAIN whoIs = Pensioners

LEMMA OneEach == ASSUME PersonInv PROVE R!OnePersonEach
<1> SUFFICES ASSUME phase = "done", judged = R!NoRow
             PROVE  /\ \A c \in Ids :
                         {p \in DOMAIN persons : c \in persons[p].members} = {personOf[c]}
                    /\ \A q \in Pensioners :
                         {p \in DOMAIN persons : q \in persons[p].linked} = {whoIs[q]}
  BY DEF R!OnePersonEach
<1>1. Written /\ DOMAIN whoIs = Pensioners BY DEF PersonInv
<1>2. \A c \in Ids :
        {p \in DOMAIN persons : c \in persons[p].members} = {personOf[c]}
  BY <1>1 DEF Written
<1>3. \A q \in Pensioners :
        {p \in DOMAIN persons : q \in persons[p].linked} = {whoIs[q]}
  BY <1>1 DEF Written
<1> QED BY <1>2, <1>3

(* Close writes a person for each class.                                   *)
LEMMA CloseWrites ==
  ASSUME R!Close, DOMAIN whoIs = {} PROVE Written'
<1> DEFINE class(c) == {d \in Ids : R!RootOf(parent, d) = R!RootOf(parent, c)}
           name(c) == <<"person", R!Min(class(c))>>
           person(p) == [members |-> class(p[2]), linked |-> {},
                         data |-> R!Merged(class(p[2]))]
<1>1. /\ personOf' = [c \in Ids |-> name(c)]
      /\ persons' = [p \in {name(c) : c \in Ids} |-> person(p)]
      /\ whoIs' = whoIs
  BY Zenon DEF R!Close
<1>2. Ids \subseteq 1 .. 99 BY RecordsAssumption DEF R!RegistryAssumption
<1>3. \A c \in Ids : class(c) \subseteq Ids /\ class(c) # {} OBVIOUS
<1>4. \A c, d \in Ids : d \in class(c) <=> class(d) = class(c)
  <2>1. \A c, d \in Ids : d \in class(c) => class(d) = class(c) OBVIOUS
  <2>2. \A d \in Ids : d \in class(d) OBVIOUS
  <2> HIDE DEF class
  <2> QED BY <2>1, <2>2
<1>5. \A p : /\ person(p).members = class(p[2]) /\ person(p).linked = {}
             /\ DOMAIN person(p) = {"members", "linked", "data"}
  <2> HIDE DEF class
  <2> QED OBVIOUS
<1> HIDE DEF class, person
<1>6. \A c \in Ids : R!Min(class(c)) \in class(c)
  <2> SUFFICES ASSUME NEW c \in Ids PROVE R!Min(class(c)) \in class(c) OBVIOUS
  <2>1. PICK S : S = class(c) OBVIOUS
  <2>2. S \subseteq Ids /\ S # {} BY <1>3, <2>1
  <2>3. S \in SUBSET Nat BY <1>2, <2>2
  <2> QED BY <2>1, <2>2, <2>3, MinIsLeast, SameLibrary
<1>7. \A c \in Ids : /\ R!Min(class(c)) \in Ids
                     /\ class(R!Min(class(c))) = class(c)
  BY <1>3, <1>4, <1>6
<1> DEFINE least(c) == R!Min(class(c))
<1>8. \A c : name(c)[2] = least(c) OBVIOUS
<1>9. \A c, d \in Ids : name(c) = name(d) <=> class(c) = class(d)
  <2>1. \A c, d \in Ids : class(c) = class(d) => name(c) = name(d) BY Zenon
  <2>2. \A c, d \in Ids : name(c) = name(d) => least(c) = least(d) BY <1>8
  <2>3. \A c, d \in Ids : least(c) = least(d) => class(c) = class(d) BY <1>7
  <2> QED BY <2>1, <2>2, <2>3
<1>10. \A c \in Ids : name(c) \in PersonNames BY <1>2, <1>7 DEF PersonNames
<1>11. \A c \in Ids : class(name(c)[2]) = class(c) BY <1>7, <1>8
<1> HIDE DEF name
<1>12. /\ DOMAIN personOf' = Ids /\ \A c \in Ids : personOf'[c] = name(c)
       /\ DOMAIN persons' = {name(c) : c \in Ids}
       /\ \A c \in Ids : persons'[name(c)] = person(name(c))
  BY <1>1
<1>13. \A p \in DOMAIN persons' : \E c \in Ids : p = name(c) BY <1>12
<1>14. \A c, d \in Ids : d \in persons'[name(c)].members <=> name(c) = personOf'[d]
  <2> SUFFICES ASSUME NEW c \in Ids, NEW d \in Ids
               PROVE  d \in persons'[name(c)].members <=> name(c) = personOf'[d]
    OBVIOUS
  <2>1. persons'[name(c)].members = class(c) BY <1>5, <1>11, <1>12
  <2>2. personOf'[d] = name(d) BY <1>12
  <2> QED BY <1>4, <1>9, <2>1, <2>2
<1>15. \A p \in DOMAIN persons' :
         {"members", "linked"} \subseteq DOMAIN persons'[p] /\ persons'[p].linked = {}
  BY <1>5, <1>12, <1>13
<1>16. \A q : <<"pensioner", q>> \notin DOMAIN persons'
  <2>1. \A q : <<"pensioner", q>> \notin PersonNames BY DEF PersonNames
  <2> QED BY <1>10, <1>13, <2>1
<1>17. \A c \in Ids, p \in DOMAIN persons' :
         c \in persons'[p].members <=> p = personOf'[c]
  BY <1>13, <1>14
<1> QED BY <1>1, <1>10, <1>12, <1>15, <1>16, <1>17 DEF Written

(* A pensioner is put under one person, that of the first name or its own. *)
LEMMA LinkWrites ==
  ASSUME Written, NEW q \in Pensioners, R!LinkPensioner(q) PROVE Written'
<1> DEFINE names == IF q \in DOMAIN links
                    THEN {personOf[c] : c \in links[q] \cap Ids} ELSE {}
           own == <<"pensioner", q>>
           who == IF names = {} THEN own ELSE R!FirstName(names)
<1>1. /\ persons' = IF names = {} THEN R!Orphan(persons, q)
                    ELSE R!ListUnder(persons, q, names)
      /\ whoIs' = [r \in DOMAIN whoIs \cup {q} |-> IF r = q THEN who ELSE whoIs[r]]
      /\ personOf' = personOf /\ q \notin DOMAIN whoIs
  BY Zenon DEF R!LinkPensioner
<1>2. own \notin DOMAIN persons BY <1>1 DEF Written
<1>3. names \subseteq PersonNames /\ names \subseteq DOMAIN persons BY DEF Written
<1>4. /\ DOMAIN whoIs' = DOMAIN whoIs \cup {q} /\ whoIs'[q] = who
      /\ \A r \in DOMAIN whoIs : whoIs'[r] = whoIs[r]
  BY <1>1
<1>5. \A r \in Pensioners \ DOMAIN whoIs' : <<"pensioner", r>> # own
  BY <1>4
<1> HIDE DEF names
<1>6. CASE names = {}
  <2> DEFINE new == [members |-> {}, linked |-> {q}, data |-> << >>]
  <2>1. persons' = [p \in DOMAIN persons \cup {own} |->
                      IF p \in DOMAIN persons THEN persons[p] ELSE new]
    BY <1>1, <1>2, <1>6, Zenon DEF R!Orphan
  <2>2. new.members = {} /\ new.linked = {q} /\ {"members", "linked"} \subseteq DOMAIN new
    OBVIOUS
  <2> HIDE DEF new
  <2>3. /\ DOMAIN persons' = DOMAIN persons \cup {own} /\ persons'[own] = new
        /\ \A p \in DOMAIN persons : persons'[p] = persons[p]
    BY <1>2, <2>1
  <2>4. who = own BY <1>6
  <2> HIDE DEF who, own
  <2>5. \A c \in Ids, p \in DOMAIN persons' :
          c \in persons'[p].members <=> p = personOf[c]
    BY <1>2, <2>2, <2>3 DEF Written
  <2>6. \A r \in Pensioners, p \in DOMAIN persons' :
          r \in persons'[p].linked <=> (r \in DOMAIN whoIs' /\ p = whoIs'[r])
    <3> SUFFICES ASSUME NEW r \in Pensioners, NEW p \in DOMAIN persons'
                 PROVE  r \in persons'[p].linked <=> (r \in DOMAIN whoIs' /\ p = whoIs'[r])
      OBVIOUS
    <3>1. CASE p = own
      <4>1. r \in persons'[p].linked <=> r = q BY <2>2, <2>3, <3>1
      <4>2. r \in DOMAIN whoIs /\ r # q => whoIs'[r] # own
        BY <1>2, <1>4 DEF Written
      <4> QED BY <1>4, <2>4, <3>1, <4>1, <4>2
    <3>2. CASE p # own
      <4>1. p \in DOMAIN persons /\ persons'[p] = persons[p] BY <2>3, <3>2
      <4>2. r \in persons[p].linked <=> (r \in DOMAIN whoIs /\ p = whoIs[r])
        BY <4>1 DEF Written
      <4> QED BY <1>1, <1>4, <2>4, <3>2, <4>1, <4>2
    <3> QED BY <3>1, <3>2
  <2>7. \A r \in Pensioners \ DOMAIN whoIs' : <<"pensioner", r>> \notin DOMAIN persons'
    BY <1>4, <1>5, <2>3 DEF Written
  <2> QED BY <1>1, <1>4, <2>2, <2>3, <2>4, <2>5, <2>6, <2>7 DEF Written
<1>7. CASE names # {}
  <2>1. who \in names BY <1>3, <1>7, FirstIsOne
  <2>2. who \in DOMAIN persons BY <1>3, <2>1
  <2>3. who = R!FirstName(names) BY <1>7
  <2> HIDE DEF who
  <2> DEFINE new == [persons[who] EXCEPT !.linked = persons[who].linked \cup {q}]
  <2>4. persons' = [persons EXCEPT ![who] = new]
    BY <1>1, <1>7, <2>3, Zenon DEF R!ListUnder
  <2>5. /\ new.members = persons[who].members
        /\ new.linked = persons[who].linked \cup {q}
        /\ {"members", "linked"} \subseteq DOMAIN new
    BY <2>2 DEF Written
  <2> HIDE DEF new
  <2>6. /\ DOMAIN persons' = DOMAIN persons /\ persons'[who] = new
        /\ \A p \in DOMAIN persons \ {who} : persons'[p] = persons[p]
    BY <2>2, <2>4
  <2>7. \A c \in Ids, p \in DOMAIN persons' :
          c \in persons'[p].members <=> p = personOf[c]
    BY <2>2, <2>5, <2>6 DEF Written
  <2>8. \A r \in Pensioners, p \in DOMAIN persons' :
          r \in persons'[p].linked <=> (r \in DOMAIN whoIs' /\ p = whoIs'[r])
    <3> SUFFICES ASSUME NEW r \in Pensioners, NEW p \in DOMAIN persons
                 PROVE  r \in persons'[p].linked <=> (r \in DOMAIN whoIs' /\ p = whoIs'[r])
      BY <2>6
    <3>1. r \in persons[p].linked <=> (r \in DOMAIN whoIs /\ p = whoIs[r])
      BY DEF Written
    <3>2. CASE p = who
      <4>1. r \in persons'[p].linked <=> r \in persons[p].linked \/ r = q
        BY <2>5, <2>6, <3>2
      <4> QED BY <1>1, <1>4, <3>1, <3>2, <4>1
    <3>3. CASE p # who BY <1>1, <1>4, <2>6, <3>1, <3>3
    <3> QED BY <3>2, <3>3
  <2>9. \A r \in Pensioners \ DOMAIN whoIs' : <<"pensioner", r>> \notin DOMAIN persons'
    BY <1>4, <2>6 DEF Written
  <2> QED BY <1>1, <1>4, <2>2, <2>5, <2>6, <2>7, <2>8, <2>9 DEF Written
<1> QED BY <1>6, <1>7

LEMMA PersonStep ==
  ASSUME PersonInv, RowInv, [R!Next]_R!vars PROVE PersonInv'
<1>1. CASE UNCHANGED <<persons, personOf, whoIs, judged, phase>>
  BY <1>1 DEF PersonInv, Written
<1>2. R!ComparePair => UNCHANGED <<persons, personOf, whoIs, judged, phase>>
  BY DEF R!ComparePair, R!output
<1>3. CASE R!Close
  <2>1. phase = "pairs" /\ phase' = "links" BY <1>3 DEF R!Close
  <2> QED BY <1>3, <2>1, CloseWrites DEF PersonInv
<1>4. CASE \E q \in Pensioners : R!LinkPensioner(q)
  <2>1. phase = "links" /\ phase' = "links" BY <1>4 DEF R!LinkPensioner
  <2> QED BY <1>4, <2>1, LinkWrites DEF PersonInv
<1>5. CASE R!WriteDedup
  <2>1. /\ phase = "links" /\ DOMAIN whoIs = Pensioners /\ phase' = "done"
        /\ UNCHANGED <<persons, personOf, whoIs>>
    BY <1>5 DEF R!WriteDedup, R!output
  <2>2. Written' BY <2>1 DEF PersonInv, Written
  <2> QED BY <2>1, <2>2 DEF PersonInv
<1>6. CASE R!CrossReference \/ R!AnnotateDixie
  <2>1. phase' \in {"dixie", "dedup"}
    BY <1>6 DEF R!CrossReference, R!AnnotateDixie
  <2> QED BY <2>1 DEF PersonInv
<1>7. CASE R!RunDedup
  <2>1. phase' = "done" BY <1>7 DEF R!RunDedup
  <2>2. PICK s \in R!Lookups(judged) :
          judged' = R!With(judged, [found |-> s, dedup |-> R!Verdict(judged, s)])
    BY <1>7, Zenon DEF R!RunDedup
  <2> DEFINE more == [found |-> s, dedup |-> R!Verdict(judged, s)]
  <2>3. "found" \in DOMAIN more OBVIOUS
  <2> HIDE DEF more
  <2>4. judged' = R!With(judged, more) BY <2>2 DEF more
  <2>5. "found" \in DOMAIN judged' BY <2>3, <2>4, WithFields
  <2>6. judged' # R!NoRow BY <2>5 DEF R!NoRow
  <2> QED BY <2>1, <2>6 DEF PersonInv
<1>8. UNCHANGED R!vars => UNCHANGED <<persons, personOf, whoIs, judged, phase>>
  BY DEF R!vars, R!output
<1> QED BY <1>1, <1>2, <1>3, <1>4, <1>5, <1>6, <1>7, <1>8 DEF R!Next

(* Registry: the persons written are the components of the pairs joined,   *)
(* and every record and every pensioner is under exactly one of them.      *)
THEOREM PersonsAreComponents == R!Spec => []PersonsAreClasses
<1>1. R!Init => RowInv /\ ClassInv /\ PersonInv
  <2>1. R!Init => phase \in {"pairs", "rows"} /\ whoIs = << >> BY DEF R!Init
  <2> QED BY <2>1, RowsStart, ClassesStart DEF PersonInv
<1>2. RowInv /\ ClassInv /\ PersonInv /\ [R!Next]_R!vars
        => RowInv' /\ ClassInv' /\ PersonInv'
  BY RowStep, ClassStep, PersonStep
<1>3. ClassInv /\ PersonInv => PersonsAreClasses
  BY ClassesConnect, OneEach DEF PersonsAreClasses, R!PersonsAreClasses
<1> QED BY <1>1, <1>2, <1>3, PTL DEF R!Spec
-----------------------------------------------------------------------------
(* The rows of a sequence of sequences, put behind each other one by one.  *)
Layout(x, seqs, W) ==
  /\ x \in [0 .. Len(seqs) -> Seq(W)] /\ x[0] = <<>>
  /\ \A n \in 1 .. Len(seqs) : x[n] = x[n - 1] \o seqs[n]

LEMMA LayoutThere ==
  ASSUME NEW W, NEW seqs \in Seq(Seq(W))
  PROVE  \E x : Layout(x, seqs, W)
<1> DEFINE K == Len(seqs)
           S == [at : Nat, row : Seq(W)]
           F == [s \in S |-> [at |-> s.at + 1,
                          row |-> IF s.at + 1 \in 1 .. K THEN s.row \o seqs[s.at + 1]
                                  ELSE s.row]]
<1>1. F \in [S -> S]
  <2> SUFFICES ASSUME NEW s \in S PROVE F[s] \in S OBVIOUS
  <2>1. s.at \in Nat /\ s.row \in Seq(W) OBVIOUS
  <2>2. CASE s.at + 1 \in 1 .. K
    <3>1. seqs[s.at + 1] \in Seq(W) BY <2>2
    <3>2. s.row \o seqs[s.at + 1] \in Seq(W) BY <2>1, <3>1
    <3>3. F[s] = [at |-> s.at + 1, row |-> s.row \o seqs[s.at + 1]] BY <2>2
    <3> HIDE DEF F
    <3> QED BY <2>1, <3>2, <3>3
  <2>3. CASE s.at + 1 \notin 1 .. K
    <3>1. s.row \in Seq(W) OBVIOUS
    <3>2. F[s] = [at |-> s.at + 1, row |-> s.row] BY <2>3
    <3> QED BY <2>1, <3>1, <3>2
  <2> HIDE DEF F
  <2> QED BY <2>2, <2>3
<1>2. [at |-> 0, row |-> <<>>] \in S
  <2>1. <<>> \in Seq(W) BY EmptySeq
  <2> QED BY <2>1
<1>3. K \in Nat OBVIOUS
<1> HIDE DEF F, K
<1>4. PICK g : Iterated(g, S, [at |-> 0, row |-> <<>>], K, F) BY <1>1, <1>2, <1>3, Iterates
<1>5. g \in [0 .. K -> S] /\ g[0] = [at |-> 0, row |-> <<>>]
      /\ \A n \in 1 .. K : g[n] = F[g[n - 1]]
  BY <1>4 DEF Iterated
<1> DEFINE G == {n \in Nat : n <= K => g[n].at = n}
<1>6. 0 \in G BY <1>5
<1>7. ASSUME NEW n \in Nat, n \in G PROVE n + 1 \in G
  <2> SUFFICES ASSUME n + 1 <= K PROVE g[n + 1].at = n + 1 OBVIOUS
  <2>1. n + 1 \in 1 .. K /\ (n + 1) - 1 = n BY <1>3
  <2>2. g[n + 1] = F[g[n]] BY <1>5, <2>1
  <2>3. g[n] \in S /\ g[n].at = n BY <1>3, <1>5, <1>7, <2>1
  <2> QED BY <2>2, <2>3 DEF F
<1> HIDE DEF G
<1>8. \A n \in Nat : n \in G BY <1>6, <1>7, AllNumbers
<1> DEFINE x == [n \in 0 .. K |-> g[n].row]
<1>9. x \in [0 .. K -> Seq(W)] BY <1>5
<1>10. x[0] = <<>> BY <1>3, <1>5
<1>11. ASSUME NEW n \in 1 .. K PROVE x[n] = x[n - 1] \o seqs[n]
  <2>1. n - 1 \in 0 .. K /\ n - 1 \in Nat /\ n - 1 <= K BY <1>3
  <2>2. g[n - 1].at = n - 1 BY <1>8, <2>1 DEF G
  <2>3. g[n - 1] \in S BY <1>5, <2>1
  <2>4. g[n] = F[g[n - 1]] BY <1>5
  <2>5. (n - 1) + 1 = n /\ n \in 0 .. K BY <1>3
  <2> DEFINE s == g[n - 1]
  <2>8. g[n] = F[s] BY <2>4
  <2>6. F[s] = [at |-> s.at + 1, row |-> s.row \o seqs[n]] BY <2>2, <2>3, <2>5 DEF F
  <2>7. g[n].row = s.row \o seqs[n]
    <3> DEFINE next == s.row \o seqs[n]
               at == s.at + 1
    <3>1. g[n] = [at |-> at, row |-> next] BY <2>6, <2>8
    <3> HIDE DEF at, next
    <3>2. g[n].row = next BY <3>1
    <3> QED BY <3>2 DEF next
  <2> QED BY <2>1, <2>5, <2>7
<1> HIDE DEF x
<1> QED BY <1>9, <1>10, <1>11 DEF Layout, K

(* FlattenSeq is the last row of them.                                     *)
LEMMA FlattenIs ==
  ASSUME NEW W, NEW seqs \in Seq(Seq(W)), NEW x, Layout(x, seqs, W)
  PROVE  D!FlattenSeq(seqs) = x[Len(seqs)]
<1> DEFINE K == Len(seqs)
           Def(f) == f = [i \in 1 .. Len(seqs) |->
                            IF i = 1 THEN seqs[i] ELSE f[i - 1] \o seqs[i]]
           q == CHOOSE f : Def(f)
<1>1. K \in Nat OBVIOUS
<1>2. CASE K = 0
  <2>1. seqs = <<>> BY <1>2
  <2>2. D!FlattenSeq(seqs) = seqs BY <1>2, Zenon DEF D!FlattenSeq, K
  <2> QED BY <1>2, <2>1, <2>2 DEF Layout
<1>3. CASE K # 0
  <2>1. D!FlattenSeq(seqs) = q[K] BY <1>3, Zenon DEF D!FlattenSeq, K
  <2> DEFINE g == [i \in 1 .. K |-> x[i]]
             d == [i \in 1 .. K |-> IF i = 1 THEN seqs[i] ELSE g[i - 1] \o seqs[i]]
  <2>8. ASSUME NEW i \in 1 .. K
        PROVE  x[i] = IF i = 1 THEN seqs[i] ELSE x[i - 1] \o seqs[i]
    <3>1. x[i] = x[i - 1] \o seqs[i] BY DEF Layout
    <3>2. seqs[i] \in Seq(W) OBVIOUS
    <3>3. CASE i = 1
      <4>1. x[0] = <<>> BY DEF Layout
      <4>2. <<>> \o seqs[i] = seqs[i] BY <3>2
      <4>3. i - 1 = 0 BY <3>3
      <4> QED BY <3>1, <3>3, <4>1, <4>2, <4>3
    <3>4. CASE i # 1 BY <3>1, <3>4
    <3> QED BY <3>3, <3>4
  <2>2. ASSUME NEW i \in 1 .. K PROVE g[i] = d[i]
    <3>1. CASE i = 1 BY <2>8, <3>1
    <3>2. CASE i # 1
      <4>1. i - 1 \in 1 .. K BY <1>1, <3>2
      <4> QED BY <2>8, <3>2, <4>1
    <3> QED BY <3>1, <3>2
  <2>3. d = [i \in 1 .. K |-> d[i]] OBVIOUS
  <2> HIDE DEF d
  <2>4. g = d BY <2>2, <2>3
  <2> HIDE DEF g
  <2>5. Def(g) BY <2>4 DEF d
  <2> HIDE DEF Def
  <2>6. Def(q) BY <2>5
  <2> HIDE DEF q
  <2>7. \A i \in 1 .. K : q[i] = IF i = 1 THEN seqs[i] ELSE q[i - 1] \o seqs[i]
    BY <2>6 DEF Def
  <2> DEFINE G == {n \in Nat : n + 1 <= K => q[n + 1] = x[n + 1]}
  <2>9. 0 \in G
    <3> SUFFICES ASSUME 1 <= K PROVE q[1] = x[1] OBVIOUS
    <3>1. 1 \in 1 .. K BY <1>1
    <3> QED BY <2>7, <2>8, <3>1
  <2>10. ASSUME NEW n \in Nat, n \in G PROVE n + 1 \in G
    <3> SUFFICES ASSUME (n + 1) + 1 <= K PROVE q[(n + 1) + 1] = x[(n + 1) + 1] OBVIOUS
    <3>1. n + 1 <= K /\ (n + 1) + 1 \in 1 .. K /\ ((n + 1) + 1) - 1 = n + 1
      BY <1>1
    <3>2. q[n + 1] = x[n + 1] BY <2>10, <3>1
    <3> QED BY <2>7, <2>8, <3>1, <3>2
  <2> HIDE DEF G
  <2>11. \A n \in Nat : n \in G BY <2>9, <2>10, AllNumbers
  <2>12. K - 1 \in Nat /\ (K - 1) + 1 <= K /\ (K - 1) + 1 = K BY <1>1, <1>3
  <2> QED BY <2>1, <2>11, <2>12 DEF G
<1> QED BY <1>2, <1>3

LEMMA Behind ==
  ASSUME NEW W, NEW a \in Seq(W), NEW b \in Seq(W)
  PROVE  /\ a \o b \in Seq(W) /\ Len(a \o b) = Len(a) + Len(b)
         /\ \A p \in 1 .. Len(a) : (a \o b)[p] = a[p]
         /\ \A j \in 1 .. Len(b) : (a \o b)[Len(a) + j] = b[j]
<1>1. Len(a) \in Nat /\ Len(b) \in Nat OBVIOUS
<1> DEFINE c == a \o b
<1>2. /\ c \in Seq(W) /\ Len(c) = Len(a) + Len(b)
      /\ \A i \in 1 .. Len(a) + Len(b) : c[i] = IF i <= Len(a) THEN a[i] ELSE b[i - Len(a)]
  BY ConcatProperties
<1> HIDE DEF c
<1>3. \A p \in 1 .. Len(a) : c[p] = a[p] BY <1>1, <1>2
<1>4. ASSUME NEW j \in 1 .. Len(b) PROVE c[Len(a) + j] = b[j]
  <2>1. Len(a) + j \in 1 .. Len(a) + Len(b) /\ ~(Len(a) + j <= Len(a))
        /\ (Len(a) + j) - Len(a) = j
    BY <1>1
  <2> QED BY <1>2, <2>1
<1> QED BY <1>2, <1>3, <1>4 DEF c

(* Where the members of the rows stand in the whole.                       *)
Places(flat, seqs, off) ==
  /\ \A n \in 1 .. Len(seqs) : \A j \in 1 .. Len(seqs[n]) :
       off[n] + j \in 1 .. Len(flat) /\ flat[off[n] + j] = seqs[n][j]
  /\ \A p \in 1 .. Len(flat) : \E n \in 1 .. Len(seqs) : \E j \in 1 .. Len(seqs[n]) :
       p = off[n] + j

LEMMA FlattenPlaces ==
  ASSUME NEW W, NEW seqs \in Seq(Seq(W))
  PROVE  /\ D!FlattenSeq(seqs) \in Seq(W)
         /\ \E off \in [1 .. Len(seqs) -> Nat] : Places(D!FlattenSeq(seqs), seqs, off)
<1> DEFINE K == Len(seqs)
<1>1. K \in Nat /\ \A n \in 1 .. K : seqs[n] \in Seq(W) OBVIOUS
<1>2. PICK x : Layout(x, seqs, W) BY LayoutThere
<1>3. D!FlattenSeq(seqs) = x[K] BY <1>2, FlattenIs
<1>4. /\ x \in [0 .. K -> Seq(W)] /\ x[0] = <<>>
      /\ \A n \in 1 .. K : x[n] = x[n - 1] \o seqs[n]
  BY <1>2 DEF Layout
<1> HIDE DEF K
<1> DEFINE off == [n \in 1 .. K |-> Len(x[n - 1])]
<1>5. off \in [1 .. K -> Nat]
  <2>1. \A n \in 1 .. K : n - 1 \in 0 .. K BY <1>1
  <2>2. \A n \in 1 .. K : Len(x[n - 1]) \in Nat BY <1>4, <2>1
  <2> QED BY <2>2
<1>6. \A n \in 1 .. K : off[n] = Len(x[n - 1]) OBVIOUS
<1> HIDE DEF off
<1> DEFINE There(n) ==
             \A m \in 1 .. n : \A j \in 1 .. Len(seqs[m]) :
               off[m] + j \in 1 .. Len(x[n]) /\ x[n][off[m] + j] = seqs[m][j]
           Whence(n) ==
             \A p \in 1 .. Len(x[n]) : \E m \in 1 .. n : \E j \in 1 .. Len(seqs[m]) :
               p = off[m] + j
           G == {n \in Nat : n <= K => There(n) /\ Whence(n)}
<1>7. 0 \in G
  <2>1. There(0) OBVIOUS
  <2>2. Whence(0)
    <3>1. Len(x[0]) = 0 BY <1>4
    <3> QED BY <3>1
  <2> HIDE DEF There, Whence
  <2> QED BY <2>1, <2>2
<1>8. ASSUME NEW n \in Nat, n \in G PROVE n + 1 \in G
  <2> SUFFICES ASSUME n + 1 <= K PROVE There(n + 1) /\ Whence(n + 1) OBVIOUS
  <2>1. n + 1 \in 1 .. K /\ (n + 1) - 1 = n /\ n \in 0 .. K /\ n <= K BY <1>1
  <2>2. There(n) /\ Whence(n) BY <1>8, <2>1
  <2>3. x[n + 1] = x[n] \o seqs[n + 1] /\ off[n + 1] = Len(x[n])
    BY <1>4, <1>6, <2>1
  <2>4. x[n] \in Seq(W) /\ seqs[n + 1] \in Seq(W) BY <1>1, <1>4, <2>1
  <2> DEFINE a == x[n]
             b == seqs[n + 1]
             c == x[n + 1]
  <2>5. /\ Len(c) = Len(a) + Len(b)
        /\ \A p \in 1 .. Len(a) : c[p] = a[p]
        /\ \A j \in 1 .. Len(b) : c[Len(a) + j] = b[j]
    <3>1. a \in Seq(W) /\ b \in Seq(W) /\ c = a \o b BY <2>3, <2>4
    <3> HIDE DEF a, b, c
    <3> QED BY <3>1, Behind
  <2>6. Len(a) \in Nat /\ Len(b) \in Nat BY <2>4
  <2>7. There(n + 1)
    <3> SUFFICES ASSUME NEW m \in 1 .. n + 1, NEW j \in 1 .. Len(seqs[m])
                 PROVE  off[m] + j \in 1 .. Len(c) /\ c[off[m] + j] = seqs[m][j]
      OBVIOUS
    <3>1. CASE m \in 1 .. n
      <4>1. off[m] + j \in 1 .. Len(a) /\ a[off[m] + j] = seqs[m][j] BY <2>2, <3>1
      <4> HIDE DEF a, b, c
      <4> QED BY <2>5, <2>6, <4>1
    <3>2. CASE m = n + 1
      <4>1. off[m] = Len(a) /\ j \in 1 .. Len(b) /\ seqs[m] = b BY <2>3, <3>2
      <4> HIDE DEF a, b, c
      <4>2. c[Len(a) + j] = b[j] /\ Len(a) + j \in 1 .. Len(c) BY <2>5, <2>6, <4>1
      <4> QED BY <4>1, <4>2
    <3> QED BY <2>1, <3>1, <3>2
  <2>8. Whence(n + 1)
    <3> SUFFICES ASSUME NEW p \in 1 .. Len(c)
                 PROVE  \E m \in 1 .. n + 1 : \E j \in 1 .. Len(seqs[m]) : p = off[m] + j
      OBVIOUS
    <3>1. CASE p \in 1 .. Len(a)
      <4>1. PICK m \in 1 .. n : \E j \in 1 .. Len(seqs[m]) : p = off[m] + j
        BY <2>2, <3>1
      <4>2. m \in 1 .. n + 1 BY <2>1
      <4> QED BY <4>1, <4>2
    <3>2. CASE p \notin 1 .. Len(a)
      <4>1. n + 1 \in 1 .. n + 1 /\ off[n + 1] = Len(a) /\ seqs[n + 1] = b
        BY <2>1, <2>3
      <4> HIDE DEF a, b, c
      <4>2. p - Len(a) \in 1 .. Len(b) /\ p = Len(a) + (p - Len(a))
        BY <2>5, <2>6, <3>2
      <4> QED BY <4>1, <4>2
    <3> QED BY <3>1, <3>2
  <2> HIDE DEF There, Whence
  <2> QED BY <2>7, <2>8
<1> HIDE DEF G
<1>9. \A n \in Nat : n \in G BY <1>7, <1>8, AllNumbers
<1>10. There(K) /\ Whence(K) BY <1>1, <1>9 DEF G
<1>11. Places(x[K], seqs, off) BY <1>10 DEF Places, K
<1>12. x[K] \in Seq(W) BY <1>1, <1>4
<1> QED BY <1>3, <1>5, <1>11, <1>12 DEF K
-----------------------------------------------------------------------------
(* The words around a place.                                               *)
LEMMA AroundIs ==
  ASSUME NEW W, NEW t \in Seq(W), NEW i \in DOMAIN t, NEW n \in Nat, NEW kinds
  PROVE  D!Has(D!Around(t, i, n), kinds) <=>
           \E p \in DOMAIN t : i - n <= p /\ p <= i + n /\ t[p].is \in kinds
<1> DEFINE K == Len(t)
           lo == IF i > n THEN i - n ELSE 1
           hi == IF i + n < Len(t) THEN i + n ELSE Len(t)
           u == SubSeq(t, lo, hi)
<1>1. K \in Nat /\ DOMAIN t = 1 .. K /\ i \in 1 .. K OBVIOUS
<1>2. lo \in 1 .. K /\ hi \in 1 .. K /\ lo <= i /\ i <= hi
      /\ \A p \in 1 .. K : (lo <= p /\ p <= hi) <=> (i - n <= p /\ p <= i + n)
  BY <1>1
<1>3. D!Around(t, i, n) = u BY DEF D!Around
<1> HIDE DEF lo, hi
<1>4. Len(u) = hi - lo + 1 /\ DOMAIN u = 1 .. hi - lo + 1
      /\ \A p \in 1 .. hi - lo + 1 : u[p] = t[lo + p - 1]
  BY <1>1, <1>2, SubSeqProperties
<1>5. ASSUME NEW p \in 1 .. K, lo <= p, p <= hi
      PROVE  p - lo + 1 \in DOMAIN u /\ u[p - lo + 1] = t[p]
  <2>1. p - lo + 1 \in 1 .. hi - lo + 1 /\ lo + (p - lo + 1) - 1 = p BY <1>2, <1>5
  <2> QED BY <1>4, <2>1
<1>6. ASSUME NEW p \in DOMAIN u
      PROVE  /\ lo + p - 1 \in 1 .. K /\ lo <= lo + p - 1 /\ lo + p - 1 <= hi
             /\ u[p] = t[lo + p - 1]
  BY <1>1, <1>2, <1>4
<1>7. D!Has(u, kinds) <=> \E p \in DOMAIN u : u[p].is \in kinds
  BY DEF D!Has, D!ToSet
<1> HIDE DEF u, K
<1>8. (\E p \in DOMAIN u : u[p].is \in kinds) <=>
        \E p \in 1 .. K : lo <= p /\ p <= hi /\ t[p].is \in kinds
  <2>1. ASSUME NEW p \in DOMAIN u, u[p].is \in kinds
        PROVE  \E q \in 1 .. K : lo <= q /\ q <= hi /\ t[q].is \in kinds
    BY <1>6, <2>1
  <2>2. ASSUME NEW p \in 1 .. K, lo <= p, p <= hi, t[p].is \in kinds
        PROVE  \E q \in DOMAIN u : u[q].is \in kinds
    BY <1>5, <2>2
  <2> QED BY <2>1, <2>2
<1> QED BY <1>1, <1>2, <1>3, <1>7, <1>8

(* What is left of a text: lines as they are, in their order, each word    *)
(* from a place of its own.                                                *)
Texts == Seq(Seq(D!Words))

LEMMA LinesLeft ==
  ASSUME NEW text \in Texts, NEW n \in DOMAIN text, ~D!Strips(text[n]),
         NEW j \in 1 .. Len(text[n]) - 1
  PROVE  LET t == D!Cleaned(text) IN
         /\ t \in Seq(D!Words)
         /\ \E k \in 1 .. Len(t) - 1 :
              /\ t[k] = text[n][j] /\ t[k + 1] = text[n][j + 1]
              /\ \A p \in DOMAIN t : p = k \/
                   \E m \in DOMAIN text : \E o \in DOMAIN text[m] :
                     t[p] = text[m][o] /\ ~(m = n /\ o = j)
<1> DEFINE K == Len(text)
           rows == [m \in DOMAIN text |-> IF D!Strips(text[m]) THEN <<>> ELSE text[m]]
           t == D!FlattenSeq(rows)
<1>1. DOMAIN text = 1 .. K /\ K \in Nat /\ \A m \in 1 .. K : text[m] \in Seq(D!Words)
  BY DEF Texts
<1>2. rows \in Seq(Seq(D!Words)) /\ Len(rows) = K
  <2>1. \A m \in 1 .. K : rows[m] \in Seq(D!Words)
    <3>1. <<>> \in Seq(D!Words) BY EmptySeq
    <3> QED BY <1>1, <3>1
  <2>2. rows = [m \in 1 .. K |-> rows[m]] BY <1>1
  <2> HIDE DEF rows, K
  <2> QED BY <1>1, <2>1, <2>2, IsASeq
<1>3. \A m \in 1 .. K : rows[m] = IF D!Strips(text[m]) THEN <<>> ELSE text[m] BY <1>1
<1>4. D!Cleaned(text) = t BY Zenon DEF D!Cleaned
<1> HIDE DEF rows, K
<1>5. t \in Seq(D!Words) /\ \E off \in [1 .. K -> Nat] : Places(t, rows, off)
  BY <1>2, FlattenPlaces
<1> HIDE DEF t
<1>6. PICK off \in [1 .. K -> Nat] : Places(t, rows, off) BY <1>5
<1> DEFINE k == off[n] + j
<1>7. rows[n] = text[n] /\ n \in 1 .. K BY <1>1, <1>3
<1>8. j \in 1 .. Len(text[n]) /\ j + 1 \in 1 .. Len(text[n]) /\ off[n] \in Nat
  <2>1. Len(text[n]) \in Nat BY <1>1, <1>7
  <2> QED BY <1>7, <2>1
<1>9. /\ k \in 1 .. Len(t) /\ t[k] = text[n][j]
      /\ off[n] + (j + 1) \in 1 .. Len(t) /\ t[off[n] + (j + 1)] = text[n][j + 1]
  BY <1>2, <1>6, <1>7, <1>8 DEF Places
<1>10. k + 1 = off[n] + (j + 1) /\ k \in 1 .. Len(t) - 1
  <2>1. Len(t) \in Nat BY <1>5
  <2> QED BY <1>8, <1>9, <2>1
<1>11. ASSUME NEW p \in DOMAIN t, p # k
       PROVE  \E m \in DOMAIN text : \E o \in DOMAIN text[m] :
                t[p] = text[m][o] /\ ~(m = n /\ o = j)
  <2>1. p \in 1 .. Len(t) BY <1>5
  <2>2. PICK m \in 1 .. K : \E o \in 1 .. Len(rows[m]) : p = off[m] + o
    BY <1>2, <1>6, <2>1 DEF Places
  <2>3. PICK o \in 1 .. Len(rows[m]) : p = off[m] + o BY <2>2
  <2>4. t[p] = rows[m][o] BY <1>2, <1>6, <2>2, <2>3 DEF Places
  <2>5. rows[m] = text[m]
    <3>1. CASE D!Strips(text[m])
      <4>1. rows[m] = <<>> BY <1>3, <3>1
      <4> QED BY <2>3, <4>1
    <3>2. CASE ~D!Strips(text[m]) BY <1>3, <3>2
    <3> QED BY <3>1, <3>2
  <2>6. o \in DOMAIN text[m] BY <1>1, <2>3, <2>5
  <2>7. ~(m = n /\ o = j) BY <1>11, <2>3
  <2> QED BY <1>1, <2>4, <2>5, <2>6, <2>7
<1> HIDE DEF k
<1> QED BY <1>4, <1>5, <1>9, <1>10, <1>11

LEMMA LessOfFour ==
  ASSUME NEW a1 \in Int, NEW a2 \in Int, NEW a3 \in Int, NEW a4 \in Int,
         NEW b1 \in Int, NEW b2 \in Int, NEW b3 \in Int, NEW b4 \in Int
  PROVE  D!Less(<<a1, a2, a3, a4>>, <<b1, b2, b3, b4>>) <=>
           \/ a1 < b1
           \/ a1 = b1 /\ a2 < b2
           \/ a1 = b1 /\ a2 = b2 /\ a3 < b3
           \/ a1 = b1 /\ a2 = b2 /\ a3 = b3 /\ a4 < b4
<1> DEFINE a == <<a1, a2, a3, a4>>
           b == <<b1, b2, b3, b4>>
           L(n) == a[n] < b[n] /\ \A m \in 1 .. n - 1 : a[m] = b[m]
<1>1. D!Less(a, b) <=> L(1) \/ L(2) \/ L(3) \/ L(4)
  <2>1. DOMAIN a = {1, 2, 3, 4} OBVIOUS
  <2>2. D!Less(a, b) <=> \E n \in DOMAIN a : L(n) BY DEF D!Less
  <2> HIDE DEF L, a, b
  <2> QED BY <2>1, <2>2
<1>2. L(1) <=> a1 < b1 OBVIOUS
<1>3. L(2) <=> a1 = b1 /\ a2 < b2
  <2>1. 1 .. 2 - 1 = {1} OBVIOUS
  <2> QED BY <2>1
<1>4. L(3) <=> a1 = b1 /\ a2 = b2 /\ a3 < b3
  <2>1. 1 .. 3 - 1 = {1, 2} OBVIOUS
  <2> QED BY <2>1
<1>5. L(4) <=> a1 = b1 /\ a2 = b2 /\ a3 = b3 /\ a4 < b4
  <2>1. 1 .. 4 - 1 = {1, 2, 3} OBVIOUS
  <2> QED BY <2>1
<1> QED BY <1>1, <1>2, <1>3, <1>4, <1>5

LEMMA KindPlaceIs ==
  ASSUME NEW w \in D!Words, w.is = "date"
  PROVE  D!KindPlace(w) \in 1 .. 5
<1>0. "date" \notin D!Marks
  BY DEF D!Marks, D!Keywords, D!DeathKeywords, D!Protected, D!StripPhrases
<1>1. w.kind \in D!ToSet(D!Kinds) BY <1>0 DEF D!Words
<1>2. \E r \in DOMAIN D!Kinds : D!Kinds[r] = w.kind BY <1>1 DEF D!ToSet
<1>3. DOMAIN D!Kinds = 1 .. 5 BY DEF D!Kinds
<1>4. D!KindPlace(w) \in DOMAIN D!Kinds BY <1>2 DEF D!KindPlace
<1> QED BY <1>3, <1>4

(* The one keyword of a text, with an undisputed date behind it.           *)
Dies(t, k) ==
  /\ t \in Seq(D!Words) /\ k \in 1 .. Len(t) - 1
  /\ t[k].is = "died" /\ \A p \in DOMAIN t : t[p].is \in D!Keywords => p = k
  /\ t[k + 1].is = "date" /\ D!InRange(t[k + 1].year)
  /\ D!Undisputed(t, k)

LEMMA OneKeyword ==
  ASSUME NEW t, NEW k, Dies(t, k)
  PROVE  /\ D!KeywordsAt(t) = {k}
         /\ \A o \in DOMAIN t : D!Distance(t, o) = D!Gap(o, k)
<1>1. k \in DOMAIN t
  <2>1. t \in Seq(D!Words) /\ k \in 1 .. Len(t) - 1 /\ Len(t) \in Nat BY DEF Dies
  <2> QED BY <2>1
<1>2. /\ "died" \in D!DeathKeywords /\ "misread" \in D!Keywords
      /\ D!DeathKeywords \subseteq D!Keywords
  BY DEF D!DeathKeywords, D!Keywords, D!Protected
<1>3. {i \in DOMAIN t : t[i].is \in D!DeathKeywords} = {k} BY <1>1, <1>2 DEF Dies
<1>4. ASSUME NEW i \in DOMAIN t, t[i].is = "misread" PROVE i = k
  BY <1>2, <1>4 DEF Dies
<1>5. t[k].is # "misread" BY DEF Dies
<1>6. D!KeywordsAt(t) = {k}
  <2>1. {i \in DOMAIN t : t[i].is = "misread" /\ \A m \in {k} : m < i} = {}
    BY <1>4, <1>5
  <2> QED BY <1>3, <2>1 DEF D!KeywordsAt
<1>7. ASSUME NEW o \in DOMAIN t PROVE D!Distance(t, o) = D!Gap(o, k)
  <2>1. {D!Gap(o, m) : m \in D!KeywordsAt(t)} = {D!Gap(o, k)} BY <1>6
  <2> DEFINE g == D!Gap(o, k)
  <2>2. g <= g
    <3>1. o \in Int /\ k \in Int
      <4>1. t \in Seq(D!Words) BY DEF Dies
      <4> QED BY <1>1, <4>1
    <3> QED BY <3>1 DEF D!Gap
  <2> HIDE DEF g
  <2>3. (CHOOSE d \in {g} : \A e \in {g} : d <= e) = g BY <2>2
  <2> QED BY <2>1, <2>3 DEF D!Distance, g
<1> QED BY <1>6, <1>7

(* It is good,                                                             *)
LEMMA BehindIsGood ==
  ASSUME NEW t, NEW k, Dies(t, k), NEW dropped, NEW rest, NEW name
  PROVE  /\ k + 1 \in D!Dates(t) /\ D!KeywordNear(t, k + 1)
         /\ ~D!Fragment(t, k + 1, dropped) /\ ~D!Rejects(t, k + 1, rest, name)
<1>1. t \in Seq(D!Words) /\ Len(t) \in Nat /\ k \in DOMAIN t /\ k + 1 \in DOMAIN t
      /\ k \in Int
  <2>1. t \in Seq(D!Words) /\ k \in 1 .. Len(t) - 1 /\ Len(t) \in Nat BY DEF Dies
  <2> QED BY <2>1
<1>2. k + 1 \in D!Dates(t) BY <1>1 DEF Dies, D!Dates
<1>3. D!KeywordNear(t, k + 1)
  <2>1. t[k].is \in D!Keywords BY DEF Dies, D!Keywords, D!DeathKeywords, D!Protected
  <2>2. (k + 1) - 3 <= k /\ k <= (k + 1) + 3 BY <1>1
  <2> QED BY <1>1, <2>1, <2>2, AroundIs DEF D!KeywordNear, D!Window
<1>4. ~D!Fragment(t, k + 1, dropped) BY <1>3 DEF D!Fragment
<1>5. D!KeywordsAt(t) = {k} BY OneKeyword
<1>6. ~D!EnteredHome(t, k + 1) BY <1>1, <1>3, <1>5 DEF D!EnteredHome
<1>7. ~D!Rejects(t, k + 1, rest, name) BY <1>3, <1>5, <1>6 DEF D!Rejects
<1> QED BY <1>2, <1>3, <1>4, <1>7

(* and every other date comes behind it or is rejected.                    *)
LEMMA BehindIsFirst ==
  ASSUME NEW t, NEW k, Dies(t, k), NEW o \in D!Dates(t), o # k + 1, NEW rest,
         ~D!Rejects(t, o, rest, D!PilotName)
  PROVE  LET a == D!Key(t, k + 1, D!PilotName)
             b == D!Key(t, o, D!PilotName)
         IN  D!Less(a, b) /\ ~D!Less(b, a)
<1>1. /\ t \in Seq(D!Words) /\ Len(t) \in Nat /\ k \in DOMAIN t /\ k + 1 \in DOMAIN t
      /\ k \in Int /\ o \in DOMAIN t /\ o \in Int /\ DOMAIN t = 1 .. Len(t)
  <2>1. t \in Seq(D!Words) /\ k \in 1 .. Len(t) - 1 /\ Len(t) \in Nat BY DEF Dies
  <2> QED BY <2>1 DEF D!Dates
<1>2. t[o].is = "date" /\ t[k].is = "died" /\ t[k + 1].is = "date"
  BY DEF Dies, D!Dates
<1>3. D!KeywordsAt(t) = {k} /\ D!Distance(t, o) = D!Gap(o, k)
      /\ D!Distance(t, k + 1) = D!Gap(k + 1, k)
  BY <1>1, OneKeyword
<1>4. o # k BY <1>2
<1>5. D!Gap(k + 1, k) = 0 BY <1>1 DEF D!Gap
<1>6. D!Gap(o, k) \in Int /\ (o = k - 1 \/ D!Gap(o, k) > 0) BY <1>1, <1>4 DEF D!Gap
<1>7. D!KindPlace(t[o]) \in Int /\ D!KindPlace(t[k + 1]) \in Int
  <2>1. t[o] \in D!Words /\ t[k + 1] \in D!Words BY <1>1
  <2> QED BY <1>2, <2>1, KindPlaceIs
<1> DEFINE n1 == IF D!NameNear(t, k + 1, D!PilotName) THEN 0 ELSE 1
           n2 == IF D!NameNear(t, o, D!PilotName) THEN 0 ELSE 1
<1>8. D!Key(t, k + 1, D!PilotName) = <<n1, 0, D!KindPlace(t[k + 1]), k + 1>>
  BY <1>3, <1>5 DEF D!Key
<1>9. D!Key(t, o, D!PilotName) = <<n2, D!Gap(o, k), D!KindPlace(t[o]), o>>
  BY <1>3 DEF D!Key
<1>10. n1 \in Int /\ n2 \in Int /\ (n1 < n2 \/ n1 = n2) BY DEF Dies, D!Undisputed
<1>11. o = k - 1 => D!KindPlace(t[k + 1]) < D!KindPlace(t[o])
  <2> SUFFICES ASSUME o = k - 1, ~(D!KindPlace(t[k + 1]) < D!KindPlace(t[o]))
               PROVE  FALSE
    OBVIOUS
  <2>1. k > 1 BY <1>1
  <2>2. k > 2 /\ t[k - 2].is = "home" BY <1>2, <2>1 DEF Dies, D!Undisputed
  <2>3. k - 2 \in 1 .. o - 1 /\ k - 2 \in DOMAIN t /\ o - 3 <= k - 2 /\ k - 2 <= o + 3
        /\ k > o
    BY <1>1, <2>2
  <2>4. D!Has(D!Window(t, o), {"home"})
    BY <1>1, <2>2, <2>3, AroundIs DEF D!Window
  <2>5. D!EnteredHome(t, o) BY <1>3, <2>2, <2>3, <2>4 DEF D!EnteredHome
  <2> QED BY <2>5 DEF D!Rejects
<1> HIDE DEF n1, n2
<1> DEFINE g == D!Gap(o, k)
           i == k + 1
           p == D!KindPlace(t[i])
           q == D!KindPlace(t[o])
<1>12. /\ g \in Int /\ i \in Int /\ p \in Int /\ q \in Int
       /\ o # i /\ (g > 0 \/ p < q) /\ g >= 0
  BY <1>1, <1>6, <1>7, <1>11 DEF D!Gap
<1> HIDE DEF g, i, p, q
<1>16. n1 \in Int /\ n2 \in Int /\ g \in Int /\ i \in Int /\ p \in Int /\ q \in Int
       /\ o \in Int /\ 0 \in Int
  BY <1>1, <1>10, <1>12
<1>13. D!Less(<<n1, 0, p, i>>, <<n2, g, q, o>>)
  <2>1. D!Less(<<n1, 0, p, i>>, <<n2, g, q, o>>) <=>
          \/ n1 < n2
          \/ n1 = n2 /\ 0 < g
          \/ n1 = n2 /\ 0 = g /\ p < q
          \/ n1 = n2 /\ 0 = g /\ p = q /\ i < o
    BY <1>16, LessOfFour
  <2> QED BY <1>10, <1>12, <2>1
<1>14. ~D!Less(<<n2, g, q, o>>, <<n1, 0, p, i>>)
  <2>1. D!Less(<<n2, g, q, o>>, <<n1, 0, p, i>>) <=>
          \/ n2 < n1
          \/ n2 = n1 /\ g < 0
          \/ n2 = n1 /\ g = 0 /\ q < p
          \/ n2 = n1 /\ g = 0 /\ q = p /\ o < i
    BY <1>16, LessOfFour
  <2> QED BY <1>10, <1>12, <2>1
<1> QED BY <1>8, <1>9, <1>13, <1>14 DEF g, i, p, q

LEMMA ToldIsParsed ==
  ASSUME NEW text \in Texts, NEW year, D!Tells(text, year)
  PROVE  /\ D!InRange(year) /\ Finds(text) # D!NoDate /\ Finds(text).year = year
         /\ \E n \in DOMAIN text : \E j \in DOMAIN text[n] : text[n][j].is = "died"
<1> DEFINE Telling(n, j) ==
        /\ text[n][j].is = "died" /\ \A m \in DOMAIN text : \A o \in DOMAIN text[m] :
             text[m][o].is \in D!Keywords => m = n /\ o = j
        /\ text[n][j + 1].is = "date" /\ text[n][j + 1].year = year /\ D!InRange(year)
        /\ \A k \in DOMAIN D!Cleaned(text) :
             D!Cleaned(text)[k].is = "died" => D!Undisputed(D!Cleaned(text), k)
<1>0. PICK n \in DOMAIN text : \E j \in 1 .. Len(text[n]) - 1 : Telling(n, j)
  BY DEF D!Tells
<1>1. PICK j \in 1 .. Len(text[n]) - 1 : Telling(n, j) BY <1>0
<1>2. text[n] \in Seq(D!Words) /\ j \in DOMAIN text[n]
  <2>1. text[n] \in Seq(D!Words) BY DEF Texts
  <2>2. Len(text[n]) \in Nat BY <2>1
  <2> QED BY <2>1, <2>2
<1>3. ~D!Strips(text[n])
  <2>1. D!Has(text[n], D!Protected) BY <1>1, <1>2 DEF D!Has, D!ToSet, D!Protected
  <2> QED BY <2>1 DEF D!Strips
<1> DEFINE t == D!Cleaned(text)
<1>4. PICK k \in 1 .. Len(t) - 1 :
        /\ t[k] = text[n][j] /\ t[k + 1] = text[n][j + 1]
        /\ \A p \in DOMAIN t : p = k \/
             \E m \in DOMAIN text : \E o \in DOMAIN text[m] :
               t[p] = text[m][o] /\ ~(m = n /\ o = j)
  BY <1>3, LinesLeft
<1>5. t \in Seq(D!Words) BY <1>3, LinesLeft
<1> HIDE DEF t
<1>6. k \in DOMAIN t
  <2>1. Len(t) \in Nat BY <1>5
  <2> QED BY <1>5, <2>1
<1>7. Dies(t, k)
  <2>1. \A p \in DOMAIN t : t[p].is \in D!Keywords => p = k BY <1>1, <1>4
  <2>2. D!Undisputed(t, k) BY <1>1, <1>4, <1>6 DEF t
  <2> QED BY <1>1, <1>4, <1>5, <2>1, <2>2 DEF Dies
<1> DEFINE i == k + 1
           fragments == {c \in D!Dates(t) : D!Fragment(t, c, D!Dropped(text))}
           rest == D!Dates(t) \ fragments
           good == {c \in rest : ~D!Rejects(t, c, rest, D!PilotName)}
           Top(c) == \A o \in good \ {c} :
                       D!Less(D!Key(t, c, D!PilotName), D!Key(t, o, D!PilotName))
           top == CHOOSE c \in good : Top(c)
<1>8. i \in good BY <1>7, BehindIsGood
<1>9. Top(i) BY <1>7, BehindIsFirst
<1>10. \A c \in good : Top(c) => c = i
  <2>1. ASSUME NEW c \in good, Top(c), c # i PROVE FALSE
    <3>1. D!Less(D!Key(t, c, D!PilotName), D!Key(t, i, D!PilotName)) BY <1>8, <2>1
    <3> QED BY <1>7, <2>1, <3>1, BehindIsFirst
  <2> QED BY <2>1
<1>11. good # {} /\ text # <<>>
  <2>1. good # {}
    <3> HIDE DEF good
    <3> QED BY <1>8
  <2>2. DOMAIN text # {} OBVIOUS
  <2>3. text # <<>> BY <2>2
  <2> QED BY <2>1, <2>3
<1>12. Finds(text) =
         [kind |-> D!KindOf(t[top]), year |-> t[top].year,
          keyword |-> D!KeywordNear(t, top),
          named |-> D!Has(D!Window(t, top), {D!PilotName}),
          granted |-> D!Has(D!Window(t, top), {"granted", "filed"})
                      /\ ~D!KeywordNear(t, top)]
  <2>1. Finds(text) = IF text = <<>> \/ good = {} THEN D!NoDate
         ELSE [kind |-> D!KindOf(t[top]), year |-> t[top].year,
               keyword |-> D!KeywordNear(t, top),
               named |-> D!Has(D!Window(t, top), {D!PilotName}),
               granted |-> D!Has(D!Window(t, top), {"granted", "filed"})
                           /\ ~D!KeywordNear(t, top)]
    BY Zenon DEF Finds, D!FindDeathDate, t
  <2> QED BY <1>11, <2>1
<1> HIDE DEF good, Top
<1>13. top = i BY <1>8, <1>9, <1>10
<1> HIDE DEF top
<1>14. Finds(text).year = year BY <1>1, <1>4, <1>12, <1>13
<1>15. D!NoDate.year = 0 /\ year # 0 BY <1>1 DEF D!NoDate, D!InRange
<1> QED BY <1>1, <1>2, <1>14, <1>15
-----------------------------------------------------------------------------
(* What is chosen by an order of four numbers is there.                    *)
LEMMA LeastNumber ==
  ASSUME NEW S \in SUBSET Nat, S # {}
  PROVE  \E x \in S : \A y \in S : x <= y
<1>1. PICK x \in S : \A y \in S : ~(<<y, x>> \in OpToRel(<, Nat))
  BY WFMin, NatLessThanWellFounded
<1>2. \A y \in S : ~(y < x) BY <1>1 DEF OpToRel
<1>3. \A y \in S : x <= y BY <1>2
<1> QED BY <1>3

LEMMA LeastValue ==
  ASSUME NEW S, S # {}, NEW f, \A c \in S : f[c] \in Nat
  PROVE  \E c \in S : \A o \in S : f[c] <= f[o]
<1> DEFINE T == {f[c] : c \in S}
<1>1. T \in SUBSET Nat /\ T # {} OBVIOUS
<1> HIDE DEF T
<1>2. PICK x \in T : \A y \in T : x <= y BY <1>1, LeastNumber
<1> QED BY <1>2 DEF T

Four(f, c) == <<f[1][c], f[2][c], f[3][c], f[4][c]>>

LEMMA LeastOfFour ==
  ASSUME NEW S, S # {}, NEW f, \A n \in 1 .. 4 : \A c \in S : f[n][c] \in Nat
  PROVE  \E c \in S : \A o \in S :
           /\ ~D!Less(Four(f, o), Four(f, c))
           /\ f[4][o] # f[4][c] => D!Less(Four(f, c), Four(f, o))
<1> DEFINE Least(T, n) == {c \in T : \A o \in T : f[n][c] <= f[n][o]}
           S1 == Least(S, 1)
           S2 == Least(S1, 2)
           S3 == Least(S2, 3)
           S4 == Least(S3, 4)
<1>1. ASSUME NEW T \in SUBSET S, T # {}, NEW n \in 1 .. 4
      PROVE  Least(T, n) \in SUBSET S /\ Least(T, n) # {} /\ Least(T, n) \subseteq T
  <2>1. \A c \in T : f[n][c] \in Nat OBVIOUS
  <2>2. \E c \in T : \A o \in T : f[n][c] <= f[n][o] BY <1>1, <2>1, LeastValue
  <2> QED BY <2>2
<1>2. S1 \in SUBSET S /\ S1 # {}
  <2> HIDE DEF Least
  <2> QED BY <1>1
<1>3. S2 \in SUBSET S /\ S2 # {} /\ S2 \subseteq S1
  <2> HIDE DEF Least, S1
  <2> QED BY <1>1, <1>2
<1>4. S3 \in SUBSET S /\ S3 # {} /\ S3 \subseteq S2
  <2> HIDE DEF Least, S2
  <2> QED BY <1>1, <1>3
<1>5. S4 # {} /\ S4 \subseteq S3
  <2> HIDE DEF Least, S3
  <2> QED BY <1>1, <1>4
<1>6. PICK c : c \in S4 BY <1>5
<1>7. c \in S /\ c \in S1 /\ c \in S2 /\ c \in S3 BY <1>2, <1>3, <1>4, <1>5, <1>6
<1>8. ASSUME NEW o \in S
      PROVE  /\ ~D!Less(Four(f, o), Four(f, c))
             /\ f[4][o] # f[4][c] => D!Less(Four(f, c), Four(f, o))
  <2> DEFINE a1 == f[1][c]
             a2 == f[2][c]
             a3 == f[3][c]
             a4 == f[4][c]
             b1 == f[1][o]
             b2 == f[2][o]
             b3 == f[3][o]
             b4 == f[4][o]
  <2>1. /\ a1 \in Int /\ a2 \in Int /\ a3 \in Int /\ a4 \in Int
        /\ b1 \in Int /\ b2 \in Int /\ b3 \in Int /\ b4 \in Int
    BY <1>7, <1>8
  <2>2. a1 <= b1 BY <1>7, <1>8
  <2>3. a1 = b1 => o \in S1 /\ a2 <= b2
    <3>1. a1 = b1 => o \in S1 BY <1>7, <1>8
    <3>2. o \in S1 => a2 <= b2
      <4> HIDE DEF S1
      <4> QED BY <1>7
    <3> QED BY <3>1, <3>2
  <2>4. a1 = b1 /\ a2 = b2 => o \in S2 /\ a3 <= b3
    <3>1. o \in S1 /\ a2 = b2 => o \in S2
      <4> HIDE DEF S1
      <4> QED BY <1>7
    <3>2. o \in S2 => a3 <= b3
      <4> HIDE DEF S2
      <4> QED BY <1>7
    <3> QED BY <2>3, <3>1, <3>2
  <2>5. a1 = b1 /\ a2 = b2 /\ a3 = b3 => a4 <= b4
    <3>1. o \in S2 /\ a3 = b3 => o \in S3
      <4> HIDE DEF S2
      <4> QED BY <1>7
    <3>2. o \in S3 => a4 <= b4
      <4> HIDE DEF S3
      <4> QED BY <1>6
    <3> QED BY <2>4, <3>1, <3>2
  <2>6. Four(f, c) = <<a1, a2, a3, a4>> /\ Four(f, o) = <<b1, b2, b3, b4>> BY DEF Four
  <2> HIDE DEF a1, a2, a3, a4, b1, b2, b3, b4, S1, S2, S3, S4
  <2>7. D!Less(<<b1, b2, b3, b4>>, <<a1, a2, a3, a4>>) <=>
          \/ b1 < a1
          \/ b1 = a1 /\ b2 < a2
          \/ b1 = a1 /\ b2 = a2 /\ b3 < a3
          \/ b1 = a1 /\ b2 = a2 /\ b3 = a3 /\ b4 < a4
    BY <2>1, LessOfFour
  <2>8. D!Less(<<a1, a2, a3, a4>>, <<b1, b2, b3, b4>>) <=>
          \/ a1 < b1
          \/ a1 = b1 /\ a2 < b2
          \/ a1 = b1 /\ a2 = b2 /\ a3 < b3
          \/ a1 = b1 /\ a2 = b2 /\ a3 = b3 /\ a4 < b4
    BY <2>1, LessOfFour
  <2>9. ~D!Less(<<b1, b2, b3, b4>>, <<a1, a2, a3, a4>>)
    BY <2>1, <2>2, <2>3, <2>4, <2>5, <2>7
  <2>10. b4 # a4 => D!Less(<<a1, a2, a3, a4>>, <<b1, b2, b3, b4>>)
    BY <2>1, <2>2, <2>3, <2>4, <2>5, <2>8
  <2> QED BY <2>6, <2>9, <2>10 DEF a4, b4
<1> HIDE DEF S1, S2, S3, S4
<1> QED BY <1>7, <1>8

LEMMA CleanedType ==
  ASSUME NEW text \in Texts
  PROVE  D!Cleaned(text) \in Seq(D!Words)
<1> DEFINE K == Len(text)
           rows == [m \in DOMAIN text |-> IF D!Strips(text[m]) THEN <<>> ELSE text[m]]
<1>1. DOMAIN text = 1 .. K /\ K \in Nat /\ \A m \in 1 .. K : text[m] \in Seq(D!Words)
  BY DEF Texts
<1>2. rows \in Seq(Seq(D!Words))
  <2>1. \A m \in 1 .. K : rows[m] \in Seq(D!Words)
    <3>1. <<>> \in Seq(D!Words) BY EmptySeq
    <3> QED BY <1>1, <3>1
  <2>2. rows = [m \in 1 .. K |-> rows[m]] BY <1>1
  <2> HIDE DEF rows, K
  <2> QED BY <1>1, <2>1, <2>2, IsASeq
<1>3. D!Cleaned(text) = D!FlattenSeq(rows) BY Zenon DEF D!Cleaned
<1> HIDE DEF rows
<1> QED BY <1>2, <1>3, FlattenPlaces

LEMMA DistanceIs ==
  ASSUME NEW t \in Seq(D!Words), NEW i \in D!Dates(t), D!KeywordsAt(t) # {}
  PROVE  D!Distance(t, i) \in Nat
<1> DEFINE gaps == {D!Gap(i, k) : k \in D!KeywordsAt(t)}
<1>1. DOMAIN t \subseteq Nat /\ i \in DOMAIN t /\ t[i].is = "date" BY DEF D!Dates
<1>2. \A k \in D!KeywordsAt(t) : k \in DOMAIN t /\ t[k].is # "date"
  BY DEF D!KeywordsAt, D!DeathKeywords, D!Protected
<1>3. ASSUME NEW k \in D!KeywordsAt(t) PROVE D!Gap(i, k) \in Nat
  <2>1. k \in Nat /\ i \in Nat /\ i # k BY <1>1, <1>2
  <2> QED BY <2>1 DEF D!Gap
<1>4. gaps \in SUBSET Nat /\ gaps # {} BY <1>3
<1>5. D!Distance(t, i) = CHOOSE d \in gaps : \A g \in gaps : d <= g
  BY Zenon DEF D!Distance
<1> HIDE DEF gaps
<1>6. \E d \in gaps : \A g \in gaps : d <= g BY <1>4, LeastNumber
<1> QED BY <1>4, <1>5, <1>6

(* A date that is found is a year the parser takes, and not that of a stamp*)
(* of the grant.                                                           *)
Parsed(d) == d = D!NoDate \/ (d.year \in 1860 .. 1955 /\ d.granted = FALSE)

LEMMA ParsedIs ==
  ASSUME NEW text \in Texts, NEW name
  PROVE  Parsed(D!FindDeathDate(text, name))
<1> DEFINE t == D!Cleaned(text)
           fragments == {c \in D!Dates(t) : D!Fragment(t, c, D!Dropped(text))}
           rest == D!Dates(t) \ fragments
           good == {c \in rest : ~D!Rejects(t, c, rest, name)}
           Top(c) == \A o \in good \ {c} : D!Less(D!Key(t, c, name), D!Key(t, o, name))
           top == CHOOSE c \in good : Top(c)
           granted == D!Has(D!Window(t, top), {"granted", "filed"})
                      /\ ~D!KeywordNear(t, top)
           found == [kind |-> D!KindOf(t[top]), year |-> t[top].year,
                     keyword |-> D!KeywordNear(t, top),
                     named |-> D!Has(D!Window(t, top), {name}), granted |-> granted]
           d == D!FindDeathDate(text, name)
<1> SUFFICES Parsed(d) OBVIOUS
<1>1. d = IF text = <<>> \/ good = {} THEN D!NoDate ELSE found
  BY Zenon DEF D!FindDeathDate
<1>2. t \in Seq(D!Words) BY CleanedType
<1> HIDE DEF d, t, found, good
<1>12. \/ d = D!NoDate
       \/ good # {} /\ d = found
  BY Zenon, <1>1
<1> SUFFICES ASSUME good # {}, d = found
             PROVE  d.year \in 1860 .. 1955 /\ d.granted = FALSE
  BY <1>12 DEF Parsed
<1> USE DEF good
<1>3. /\ good \subseteq D!Dates(t) /\ D!Dates(t) \subseteq DOMAIN t /\ DOMAIN t \subseteq Nat
      /\ \A c \in good : ~D!Rejects(t, c, rest, name)
  BY <1>2 DEF D!Dates
<1> DEFINE none == D!KeywordsAt(t) = {}
           f == <<[c \in good |-> IF none THEN 0
                                  ELSE IF D!NameNear(t, c, name) THEN 0 ELSE 1],
                  [c \in good |-> IF none THEN 0 ELSE D!Distance(t, c)],
                  [c \in good |-> IF none THEN 0 ELSE D!KindPlace(t[c])],
                  [c \in good |-> c]>>
<1> HIDE DEF good, rest
<1>4. \A n \in 1 .. 4 : \A c \in good : f[n][c] \in Nat
  <2> SUFFICES ASSUME NEW c \in good
               PROVE f[1][c] \in Nat /\ f[2][c] \in Nat /\ f[3][c] \in Nat /\ f[4][c] \in Nat
    OBVIOUS
  <2>1. f[1][c] \in Nat OBVIOUS
  <2>2. f[2][c] \in Nat BY <1>2, <1>3, DistanceIs
  <2>3. f[3][c] \in Nat
    <3>1. t[c] \in D!Words /\ t[c].is = "date" BY <1>2, <1>3 DEF D!Dates
    <3>2. D!KindPlace(t[c]) \in Nat BY <3>1, KindPlaceIs
    <3> QED BY <3>2
  <2>4. f[4][c] \in Nat BY <1>3
  <2> QED BY <2>1, <2>2, <2>3, <2>4
<1>5. \A c \in good : D!Key(t, c, name) = Four(f, c) /\ f[4][c] = c
  BY DEF Four, D!Key
<1> HIDE DEF f
<1>6. PICK c \in good : \A o \in good :
         /\ ~D!Less(Four(f, o), Four(f, c))
         /\ f[4][o] # f[4][c] => D!Less(Four(f, c), Four(f, o))
  BY <1>4, LeastOfFour
<1>7. Top(c) BY <1>5, <1>6
<1>8. top \in good
  <2> HIDE DEF Top
  <2> QED BY <1>7
<1> HIDE DEF top
<1>9. t[top].year \in 1860 .. 1955
  <2>1. t[top] \in D!Words /\ t[top].is = "date" /\ D!InRange(t[top].year)
    BY <1>2, <1>3, <1>8 DEF D!Dates
  <2>2. t[top].year \in Nat BY <2>1 DEF D!Words
  <2> QED BY <2>1, <2>2 DEF D!InRange
<1>10. D!Has(D!Window(t, top), {"granted", "filed"}) => D!KeywordNear(t, top)
  <2>1. ~D!Rejects(t, top, rest, name) BY <1>3, <1>8
  <2>2. D!Has(D!Window(t, top), {"granted", "filed"}) =>
          D!Has(D!Window(t, top), {"granted", "filed", "came", "married", "address",
                                   "letter", "enlisted"})
    BY DEF D!Has
  <2> QED BY <2>1, <2>2 DEF D!Rejects
<1>11. granted = FALSE BY <1>10
<1> HIDE DEF granted
<1>13. d = found OBVIOUS
<1> QED BY <1>9, <1>11, <1>13 DEF found
-----------------------------------------------------------------------------
(* Texts.                                                                  *)
LEMMA FlattenHas ==
  ASSUME NEW W, NEW seqs \in Seq(Seq(W)), NEW n \in DOMAIN seqs, NEW j \in DOMAIN seqs[n]
  PROVE  /\ D!FlattenSeq(seqs) \in Seq(W)
         /\ \E p \in DOMAIN D!FlattenSeq(seqs) : D!FlattenSeq(seqs)[p] = seqs[n][j]
<1> DEFINE flat == D!FlattenSeq(seqs)
<1>1. flat \in Seq(W) /\ \E off \in [1 .. Len(seqs) -> Nat] : Places(flat, seqs, off)
  BY FlattenPlaces
<1> HIDE DEF flat
<1>2. PICK off \in [1 .. Len(seqs) -> Nat] : Places(flat, seqs, off) BY <1>1
<1>3. n \in 1 .. Len(seqs) /\ j \in 1 .. Len(seqs[n])
  <2>1. n \in 1 .. Len(seqs) /\ seqs[n] \in Seq(W) OBVIOUS
  <2> QED BY <2>1
<1>4. off[n] + j \in DOMAIN flat /\ flat[off[n] + j] = seqs[n][j]
  <2>1. off[n] + j \in 1 .. Len(flat) /\ flat[off[n] + j] = seqs[n][j]
    BY <1>2, <1>3 DEF Places
  <2> QED BY <1>1, <2>1
<1> QED BY <1>1, <1>4 DEF flat

Died(text) == \E n \in DOMAIN text : \E j \in DOMAIN text[n] : text[n][j].is = "died"

LEMMA DiedIsNear ==
  ASSUME NEW texts \in Seq(Texts), NEW n \in DOMAIN texts, Died(texts[n])
  PROVE  D!Has(D!FlattenSeq(D!FlattenSeq(texts)), D!Keywords) = TRUE
<1> DEFINE lines == D!FlattenSeq(texts)
           words == D!FlattenSeq(lines)
<1>1. texts \in Seq(Seq(Seq(D!Words))) BY DEF Texts
<1>2. PICK m \in DOMAIN texts[n] : \E j \in DOMAIN texts[n][m] : texts[n][m][j].is = "died"
  BY DEF Died
<1>3. PICK j \in DOMAIN texts[n][m] : texts[n][m][j].is = "died" BY <1>2
<1>4. lines \in Seq(Seq(D!Words)) /\ \E p \in DOMAIN lines : lines[p] = texts[n][m]
  BY <1>1, FlattenHas
<1> HIDE DEF lines
<1>5. PICK p \in DOMAIN lines : lines[p] = texts[n][m] BY <1>4
<1>6. \E q \in DOMAIN words : words[q] = lines[p][j] BY <1>4, <1>5, FlattenHas
<1> HIDE DEF words
<1>7. PICK q \in DOMAIN words : words[q].is = "died" BY <1>3, <1>5, <1>6
<1>8. D!Has(words, D!Keywords)
  BY <1>7 DEF D!Has, D!ToSet, D!Keywords, D!DeathKeywords, D!Protected
<1>9. D!Has(words, D!Keywords) \in BOOLEAN BY DEF D!Has
<1> QED BY <1>8, <1>9 DEF words, lines

LEMMA DiedIsIn ==
  ASSUME NEW text \in Texts, Died(text)
  PROVE  D!Has(D!FlattenSeq(text), D!Keywords) = TRUE
<1>1. PICK n \in DOMAIN text : \E j \in DOMAIN text[n] : text[n][j].is = "died" BY DEF Died
<1>2. PICK j \in DOMAIN text[n] : text[n][j].is = "died" BY <1>1
<1> DEFINE flat == D!FlattenSeq(text)
<1>3. text \in Seq(Seq(D!Words)) BY DEF Texts
<1>4. flat \in Seq(D!Words) /\ \E p \in DOMAIN flat : flat[p] = text[n][j]
  BY <1>3, FlattenHas
<1> HIDE DEF flat
<1>5. PICK p \in DOMAIN flat : flat[p] = text[n][j] BY <1>4
<1>6. flat[p] \in D!ToSet(flat) BY DEF D!ToSet
<1>7. flat[p].is \in D!Keywords BY <1>2, <1>5 DEF D!Keywords, D!DeathKeywords, D!Protected
<1>8. D!Has(flat, D!Keywords) BY <1>6, <1>7 DEF D!Has
<1> QED BY <1>8 DEF flat, D!Has

LEMMA RedText ==
  ASSUME NEW lines \in Texts
  PROVE  D!RedOf(lines) \in Texts
<1> DEFINE K == Len(lines)
           rows == [n \in DOMAIN lines |-> IF lines[n] \in RedInk THEN <<lines[n]>> ELSE <<>>]
           Line == Seq(D!Words)
<1>1. DOMAIN lines = 1 .. K /\ K \in Nat /\ \A n \in 1 .. K : lines[n] \in Line
  BY DEF Texts
<1> HIDE DEF Line
<1>2. rows \in Seq(Seq(Line))
  <2>1. \A n \in 1 .. K : rows[n] \in Seq(Line)
    <3>1. <<>> \in Seq(Line) BY EmptySeq
    <3>2. \A n \in 1 .. K : <<lines[n]>> \in Seq(Line) BY <1>1
    <3> QED BY <1>1, <3>1, <3>2
  <2>2. rows = [n \in 1 .. K |-> rows[n]] BY <1>1
  <2> HIDE DEF rows, K
  <2> QED BY <1>1, <2>1, <2>2, IsASeq
<1>3. D!RedOf(lines) = D!FlattenSeq(rows) BY Zenon DEF D!RedOf
<1> HIDE DEF rows
<1>4. D!RedOf(lines) \in Seq(Line) BY <1>2, <1>3, FlattenPlaces
<1> QED BY <1>4 DEF Line, Texts

LEMMA ReadText ==
  ASSUME NEW lines \in Texts, NEW text \in D!Readings(lines)
  PROVE  text \in Texts
<1> DEFINE Line == Seq(D!Words)
<1>1. lines \in Seq(Line) /\ Len(lines) \in Nat /\ DOMAIN lines = 1 .. Len(lines)
  BY DEF Texts
<1>2. D!Word("misread") \in D!Words /\ D!Word("other") \in D!Words
  <2>1. "misread" \in D!Marks /\ "other" \in D!Marks BY DEF D!Marks, D!Keywords
  <2>2. \A is \in D!Marks : D!Word(is) \in D!Words BY DEF D!Word, D!Words
  <2> QED BY <2>1, <2>2
<1>3. ASSUME NEW line \in Line
      PROVE  D!Misread(line) \in Line /\ D!Smudged(line) \in Line
  <2>1. DOMAIN line = 1 .. Len(line) /\ Len(line) \in Nat
        /\ \A i \in 1 .. Len(line) : line[i] \in D!Words
    OBVIOUS
  <2> DEFINE a == [i \in 1 .. Len(line) |->
                     IF line[i].is \in D!DeathKeywords THEN D!Word("misread") ELSE line[i]]
             b == [i \in 1 .. Len(line) |->
                     IF line[i].is = "date" THEN D!Word("other") ELSE line[i]]
  <2>2. D!Misread(line) = a /\ D!Smudged(line) = b BY <2>1 DEF D!Misread, D!Smudged
  <2>3. a \in Line
    <3>1. \A i \in 1 .. Len(line) :
            (IF line[i].is \in D!DeathKeywords THEN D!Word("misread") ELSE line[i]) \in D!Words
      BY <1>2, <2>1
    <3> QED BY <2>1, <3>1, IsASeq
  <2>4. b \in Line
    <3>1. \A i \in 1 .. Len(line) :
            (IF line[i].is = "date" THEN D!Word("other") ELSE line[i]) \in D!Words
      BY <1>2, <2>1
    <3> QED BY <2>1, <3>1, IsASeq
  <2> QED BY <2>2, <2>3, <2>4
<1> HIDE DEF Line
<1>4. ASSUME NEW n \in DOMAIN lines, NEW line \in Line
      PROVE  [lines EXCEPT ![n] = line] \in Seq(Line)
  BY <1>1, <1>4, ExceptSeq
<1>5. ASSUME NEW n \in DOMAIN lines PROVE D!RemoveAt(lines, n) \in Seq(Line)
  <2>1. n \in Nat /\ n - 1 \in Int /\ n + 1 \in Int /\ n - 1 <= Len(lines) /\ 1 <= n + 1
    BY <1>1
  <2>2. SubSeq(lines, 1, n - 1) \in Seq(Line)
    <3>1. \A i \in 1 .. n - 1 : lines[i] \in Line BY <1>1, <2>1
    <3> QED BY <2>1, <3>1, SubSeqProperties
  <2>3. SubSeq(lines, n + 1, Len(lines)) \in Seq(Line)
    <3>1. \A i \in n + 1 .. Len(lines) : lines[i] \in Line BY <1>1, <2>1
    <3> QED BY <1>1, <2>1, <3>1, SubSeqProperties
  <2>4. SubSeq(lines, 1, n - 1) \o SubSeq(lines, n + 1, Len(lines)) \in Seq(Line)
    BY <2>2, <2>3, ConcatProperties
  <2> QED BY <2>4 DEF D!RemoveAt
<1>6. text = lines \/ \E n \in DOMAIN lines :
        text \in {[lines EXCEPT ![n] = D!Misread(@)], [lines EXCEPT ![n] = D!Smudged(@)],
                  D!RemoveAt(lines, n)}
  BY Zenon DEF D!Readings
<1>7. ASSUME NEW n \in DOMAIN lines,
             text \in {[lines EXCEPT ![n] = D!Misread(@)], [lines EXCEPT ![n] = D!Smudged(@)],
                       D!RemoveAt(lines, n)}
      PROVE  text \in Seq(Line)
  <2>1. lines[n] \in Line BY <1>1
  <2>2. D!Misread(lines[n]) \in Line /\ D!Smudged(lines[n]) \in Line BY <1>3, <2>1
  <2> QED BY <1>4, <1>5, <1>7, <2>2
<1>8. text \in Seq(Line) BY <1>1, <1>6, <1>7
<1> QED BY <1>8 DEF Line, Texts
-----------------------------------------------------------------------------
(* The record of a side: texts, a year the parser takes, and for a date of *)
(* Tesseract's a text, and a keyword near it if that text says who died.   *)
NoneOrTaken(d) == d = D!NoDate \/ d.year \in 1860 .. 1955

SideTyped(r) ==
  /\ IsSide(r) /\ r.red \in Texts /\ r.full \in Texts /\ r.easy \in Texts
  /\ NoneOrTaken(r.date)
  /\ r.source \in {"red", "full-fallback"} => r.date # D!NoDate
  /\ r.source = "red" => r.red # <<>> /\ (Died(r.red) => r.date.keyword = TRUE)
  /\ r.source = "full-fallback" => (Died(r.full) => r.date.keyword = TRUE)

CardTyped ==
  /\ DOMAIN rec = Sides
  /\ \A s \in Sides : card[s] \in Texts /\ SideTyped(rec[s])

LEMMA NoText == <<>> \in Texts
<1> DEFINE Line == Seq(D!Words)
<1>1. <<>> \in Seq(Line) BY EmptySeq
<1> QED BY <1>1 DEF Texts

LEMMA UnreadTyped == SideTyped(D!Unread)
<1>1. D!Unread.source \notin {"red", "full-fallback"} BY DEF D!Unread
<1>2. IsSide(D!Unread) BY UnreadSide DEF SideInv
<1> QED BY <1>1, <1>2, NoText DEF SideTyped, NoneOrTaken, D!Unread

LEMMA CardStarts == ASSUME D!Init PROVE CardTyped
<1>1. rec = [s \in Sides |-> D!Unread] BY Zenon DEF D!Init
<1>2. \A s \in Sides : card[s] \in Cards[s] BY DEF D!Init
<1>3. \A s \in Sides : Cards[s] \subseteq Texts
  BY RecordsAssumption DEF D!DeathDateAssumption, Texts
<1>4. \A s \in Sides : rec[s] = D!Unread BY <1>1
<1> QED BY <1>1, <1>2, <1>3, <1>4, UnreadTyped DEF CardTyped

(* What is tagged is the date that was found.                              *)
Fits(e, texts) ==
  /\ IsDate(e) /\ e # D!NoDate /\ e.year \in 1860 .. 1955
  /\ \A n \in DOMAIN texts : Died(texts[n]) => e.keyword = TRUE

LEMMA TaggedTyped ==
  ASSUME NEW text \in Texts, NEW name, NEW texts \in Seq(Texts),
         NEW d, d = D!FindDeathDate(text, name), d # D!NoDate,
         NEW e \in D!Tagged(d, texts, name)
  PROVE  Fits(e, texts)
<1> DEFINE near == D!Has(D!FlattenSeq(D!FlattenSeq(texts)), D!Keywords)
<1>1. IsDate(d) /\ d.kind # "none" /\ d.year \in 1860 .. 1955
  <2>1. Parsed(d) BY ParsedIs
  <2>2. IsDate(d) /\ (d # D!NoDate => d.kind # "none") BY ParserFacts
  <2> QED BY <2>1, <2>2 DEF Parsed
<1>2. PICK b : e = [d EXCEPT !.keyword = near, !.named = b]
  BY Zenon DEF D!Tagged
<1>3. e.keyword = near /\ e.year = d.year /\ e.kind = d.kind /\ IsDate(e)
  <2>1. PICK kind, year, keyword, named, granted :
          d = [kind |-> kind, year |-> year, keyword |-> keyword, named |-> named,
               granted |-> granted]
    BY <1>1 DEF IsDate
  <2> DEFINE with == [d EXCEPT !.keyword = near]
  <2>2. e = [with EXCEPT !.named = b] BY Zenon, <1>2
  <2> HIDE DEF near
  <2>3. with = [kind |-> kind, year |-> year, keyword |-> near, named |-> named,
                granted |-> granted]
    BY <2>1
  <2> HIDE DEF with
  <2>4. e = [kind |-> kind, year |-> year, keyword |-> near, named |-> b,
             granted |-> granted]
    BY <2>2, <2>3
  <2> QED BY <2>1, <2>4 DEF IsDate
<1>4. D!NoDate.kind = "none" BY DEF D!NoDate
<1>5. \A n \in DOMAIN texts : Died(texts[n]) => near = TRUE BY DiedIsNear
<1> HIDE DEF near
<1> QED BY <1>1, <1>3, <1>4, <1>5 DEF Fits

LEMMA OneSideTyped ==
  ASSUME CardTyped, NEW s \in Sides, NEW r, SideTyped(r), rec' = [rec EXCEPT ![s] = r],
         card' = card
  PROVE  CardTyped'
<1>1. DOMAIN rec' = Sides /\ \A o \in Sides : SideTyped(rec'[o]) BY DEF CardTyped
<1>2. \A o \in Sides : card'[o] \in Texts BY DEF CardTyped
<1> QED BY <1>1, <1>2
  DEF CardTyped, SideTyped, IsSide, IsDate, NoneOrTaken, Died, Texts

LEMMA ImageTyped ==
  ASSUME CardTyped, NEW s \in Sides, D!ProcessImage(s)
  PROVE  CardTyped'
<1> DEFINE reds == D!Readings(D!RedOf(card[s]))
           fulls == D!Readings(card[s])
<1>1. PICK red \in reds :
        LET byRed == Finds(red) IN
        IF byRed # D!NoDate
        THEN \E date \in D!Tagged(byRed, <<red>>, D!PilotName) :
               rec' = [rec EXCEPT ![s] =
                 [red |-> red, full |-> <<>>, easy |-> <<>>, date |-> date,
                  source |-> "red"]]
        ELSE \E full \in fulls : LET byFull == Finds(full) IN
               \E date \in IF byFull = D!NoDate THEN {D!NoDate}
                          ELSE D!Tagged(byFull, <<red, full>>, D!PilotName) :
                 rec' = [rec EXCEPT ![s] =
                   [red |-> red, full |-> full, easy |-> <<>>, date |-> date,
                    source |-> IF byFull = D!NoDate THEN "none" ELSE "full-fallback"]]
  BY Zenon DEF D!ProcessImage, Finds
<1>2. card[s] \in Texts /\ card' = card BY DEF CardTyped, D!ProcessImage
<1>3. red \in Texts /\ \A full \in fulls : full \in Texts
  BY <1>2, RedText, ReadText
<1> HIDE DEF reds, fulls
<1>4. \E r : SideTyped(r) /\ rec' = [rec EXCEPT ![s] = r]
  <2>1. CASE Finds(red) # D!NoDate
    <3>1. PICK date \in D!Tagged(Finds(red), <<red>>, D!PilotName) :
            rec' = [rec EXCEPT ![s] =
              [red |-> red, full |-> <<>>, easy |-> <<>>, date |-> date,
               source |-> "red"]]
      BY <1>1, <2>1
    <3> DEFINE texts == <<red>>
    <3>2. texts \in Seq(Texts) /\ 1 \in DOMAIN texts /\ texts[1] = red BY <1>3
    <3> HIDE DEF texts
    <3>3. date \in D!Tagged(Finds(red), texts, D!PilotName) BY <3>1 DEF texts
    <3>4. /\ IsDate(date) /\ date # D!NoDate /\ date.year \in 1860 .. 1955
          /\ Died(red) => date.keyword = TRUE
      <4>1. Fits(date, texts) BY <1>3, <2>1, <3>2, <3>3, TaggedTyped DEF Finds
      <4> QED BY <3>2, <4>1 DEF Fits
    <3>5. red # <<>> BY <2>1, ParserFacts DEF Finds
    <3>6. SideTyped([red |-> red, full |-> <<>>, easy |-> <<>>, date |-> date,
                     source |-> "red"])
      BY <1>3, <3>4, <3>5, NoText DEF SideTyped, IsSide, NoneOrTaken
    <3> QED BY <3>1, <3>6
  <2>2. CASE Finds(red) = D!NoDate
    <3>1. PICK full \in fulls :
            \E date \in IF Finds(full) = D!NoDate THEN {D!NoDate}
                       ELSE D!Tagged(Finds(full), <<red, full>>, D!PilotName) :
              rec' = [rec EXCEPT ![s] =
                [red |-> red, full |-> full, easy |-> <<>>, date |-> date,
                 source |-> IF Finds(full) = D!NoDate THEN "none" ELSE "full-fallback"]]
      BY <1>1, <2>2
    <3>2. CASE Finds(full) = D!NoDate
      <4>1. rec' = [rec EXCEPT ![s] =
                [red |-> red, full |-> full, easy |-> <<>>, date |-> D!NoDate,
                 source |-> "none"]]
        BY <3>1, <3>2
      <4>2. IsDate(D!NoDate) BY DEF IsDate, D!NoDate
      <4>3. SideTyped([red |-> red, full |-> full, easy |-> <<>>, date |-> D!NoDate,
                       source |-> "none"])
        BY <1>3, <4>2, NoText DEF SideTyped, IsSide, NoneOrTaken
      <4> QED BY <4>1, <4>3
    <3>3. CASE Finds(full) # D!NoDate
      <4>1. PICK date \in D!Tagged(Finds(full), <<red, full>>, D!PilotName) :
              rec' = [rec EXCEPT ![s] =
                [red |-> red, full |-> full, easy |-> <<>>, date |-> date,
                 source |-> "full-fallback"]]
        BY <3>1, <3>3
      <4> DEFINE texts == <<red, full>>
      <4>2. texts \in Seq(Texts) /\ 2 \in DOMAIN texts /\ texts[2] = full BY <1>3
      <4> HIDE DEF texts
      <4>3. date \in D!Tagged(Finds(full), texts, D!PilotName) BY <4>1 DEF texts
      <4>4. /\ IsDate(date) /\ date # D!NoDate /\ date.year \in 1860 .. 1955
            /\ Died(full) => date.keyword = TRUE
        <5>1. Fits(date, texts) BY <1>3, <3>3, <4>2, <4>3, TaggedTyped DEF Finds
        <5> QED BY <4>2, <5>1 DEF Fits
      <4>5. SideTyped([red |-> red, full |-> full, easy |-> <<>>, date |-> date,
                       source |-> "full-fallback"])
        BY <1>3, <4>4, NoText DEF SideTyped, IsSide, NoneOrTaken
      <4> QED BY <4>1, <4>5
    <3> QED BY <3>2, <3>3
  <2> QED BY <2>1, <2>2
<1> QED BY <1>2, <1>4, OneSideTyped

(* A side that gets a date from elsewhere.                                 *)
LEMMA OtherDate ==
  ASSUME NEW r, SideTyped(r), NEW easy \in Texts, NEW date, IsDate(date),
         NoneOrTaken(date), NEW source, source \notin {"red", "full-fallback"}
  PROVE  SideTyped(Changed(r, easy, date, source))
<1>1. Changed(r, easy, date, source) =
        [red |-> r.red, full |-> r.full, easy |-> easy, date |-> date,
         source |-> source]
  BY SideWith DEF SideTyped
<1> QED BY <1>1 DEF SideTyped, IsSide

LEMMA EasyTyped ==
  ASSUME CardTyped, NEW s \in Sides, D!EasyRead(s)
  PROVE  CardTyped'
<1> DEFINE r == rec[s]
<1>1. SideTyped(r) /\ r.date = D!NoDate /\ card' = card /\ card[s] \in Texts
  BY DEF CardTyped, D!EasyRead, D!IsTarget
<1>2. r.source \notin {"red", "full-fallback"} BY <1>1 DEF SideTyped
<1> DEFINE together(easy) == D!FindDeathDate(r.red \o r.full \o easy, D!PensionerName)
           apart(easy) == D!FindDeathDate(easy, D!PensionerName)
           new(easy) == IF together(easy) # D!NoDate THEN together(easy) ELSE apart(easy)
<1>3. PICK easy \in D!Readings(card[s]) :
        \E date \in IF new(easy) = D!NoDate THEN {D!NoDate}
                   ELSE D!Tagged(new(easy), <<r.red, r.full, easy>>, D!PensionerName) :
              rec' = [rec EXCEPT ![s] = [r EXCEPT !.easy = easy,
                !.date = IF r.date = D!NoDate THEN date ELSE @,
                !.source = IF r.date = D!NoDate /\ date # D!NoDate THEN "easyocr"
                           ELSE @]]
  BY Zenon DEF D!EasyRead
<1>4. PICK date \in IF new(easy) = D!NoDate THEN {D!NoDate}
                   ELSE D!Tagged(new(easy), <<r.red, r.full, easy>>, D!PensionerName) :
              rec' = [rec EXCEPT ![s] = [r EXCEPT !.easy = easy,
                !.date = IF r.date = D!NoDate THEN date ELSE @,
                !.source = IF r.date = D!NoDate /\ date # D!NoDate THEN "easyocr"
                           ELSE @]]
  BY <1>3
<1>5. easy \in Texts /\ r.red \in Texts /\ r.full \in Texts
  BY <1>1, ReadText DEF SideTyped
<1> DEFINE texts == <<r.red, r.full, easy>>
<1>6. IsDate(date) /\ NoneOrTaken(date)
  <2>1. texts \in Seq(Texts) BY <1>5
  <2>2. r.red \o r.full \o easy \in Texts
    <3> DEFINE Line == Seq(D!Words)
    <3>1. r.red \in Seq(Line) /\ r.full \in Seq(Line) /\ easy \in Seq(Line)
      BY <1>5 DEF Texts
    <3> HIDE DEF Line, r
    <3>2. r.red \o r.full \in Seq(Line) BY <3>1, ConcatProperties
    <3>3. r.red \o r.full \o easy \in Seq(Line) BY <3>1, <3>2, ConcatProperties
    <3> QED BY <3>3 DEF Line, Texts
  <2> HIDE DEF texts
  <2>3. CASE new(easy) = D!NoDate
    <3>1. date = D!NoDate BY <1>4, <2>3
    <3> QED BY <3>1 DEF IsDate, D!NoDate, NoneOrTaken
  <2>4. CASE new(easy) # D!NoDate
    <3>1. date \in D!Tagged(new(easy), texts, D!PensionerName) BY <1>4, <2>4 DEF texts
    <3>2. \E text \in Texts : new(easy) = D!FindDeathDate(text, D!PensionerName)
      BY <1>5, <2>2
    <3>3. PICK text \in Texts : new(easy) = D!FindDeathDate(text, D!PensionerName)
      BY <3>2
    <3> HIDE DEF new
    <3>4. Fits(date, texts) BY <2>1, <2>4, <3>1, <3>3, TaggedTyped
    <3> QED BY <3>4 DEF Fits, NoneOrTaken
  <2> QED BY <2>3, <2>4
<1> HIDE DEF new
<1> DEFINE source == IF date # D!NoDate THEN "easyocr" ELSE r.source
<1>7. rec' = [rec EXCEPT ![s] = Changed(r, easy, date, source)]
  <2>1. [r EXCEPT !.easy = easy,
           !.date = IF r.date = D!NoDate THEN date ELSE @,
           !.source = IF r.date = D!NoDate /\ date # D!NoDate THEN "easyocr" ELSE @]
          = [r EXCEPT !.easy = easy, !.date = date,
               !.source = IF date # D!NoDate THEN "easyocr" ELSE @]
    BY <1>1
  <2>2. [r EXCEPT !.easy = easy, !.date = date,
           !.source = IF date # D!NoDate THEN "easyocr" ELSE @]
          = Changed(r, easy, date, source)
    BY Zenon DEF Changed
  <2> QED BY Zenon, <1>4, <2>1, <2>2
<1>8. source \notin {"red", "full-fallback"} BY <1>2
<1> HIDE DEF r, source
<1>9. SideTyped(Changed(r, easy, date, source)) BY <1>1, <1>5, <1>6, <1>8, OtherDate
<1> QED BY <1>1, <1>7, <1>9, OneSideTyped

LEMMA AcceptTyped ==
  ASSUME CardTyped, NEW s \in Sides, D!Accept(s)
  PROVE  CardTyped'
<1> DEFINE r == rec[s]
<1>1. SideTyped(r) /\ r.date = D!NoDate /\ card' = card
  BY DEF CardTyped, D!Accept
<1>2. PICK date \in D!Proposals(r) :
        rec' = [rec EXCEPT ![s] = [r EXCEPT !.date = date, !.source = "recovered"]]
  BY Zenon DEF D!Accept
<1> DEFINE lines == r.easy \o r.red
           t == D!FlattenSeq(lines)
<1>3. t \in Seq(D!Words)
  <2> DEFINE Line == Seq(D!Words)
  <2>1. r.easy \in Seq(Line) /\ r.red \in Seq(Line) BY <1>1 DEF SideTyped, Texts
  <2> HIDE DEF Line, r
  <2>2. lines \in Seq(Line) BY <2>1, ConcatProperties
  <2> HIDE DEF lines
  <2> QED BY <2>2, FlattenPlaces DEF Line
<1>4. PICK i \in D!Dates(t) : \E keyword :
        date = [kind |-> D!KindOf(t[i]), year |-> t[i].year, keyword |-> keyword,
                named |-> FALSE, granted |-> FALSE]
  BY <1>2 DEF D!Proposals
<1> HIDE DEF t
<1>5. t[i].year \in 1860 .. 1955
  <2>1. i \in DOMAIN t /\ D!InRange(t[i].year) BY <1>4 DEF D!Dates
  <2>2. t[i] \in D!Words BY <1>3, <2>1
  <2>3. t[i].year \in Nat BY <2>2 DEF D!Words
  <2> QED BY <2>1, <2>3 DEF D!InRange
<1>6. IsDate(date) /\ NoneOrTaken(date) BY <1>4, <1>5 DEF IsDate, NoneOrTaken
<1>7. rec' = [rec EXCEPT ![s] = Changed(r, r.easy, date, "recovered")]
  <2>1. IsSide(r) BY <1>1 DEF SideTyped
  <2> HIDE DEF r
  <2>2. [r EXCEPT !.date = date, !.source = "recovered"] =
          Changed(r, r.easy, date, "recovered")
    BY Zenon, <2>1, SameEasy
  <2> QED BY <1>2, <2>2
<1>8. r.easy \in Texts /\ "recovered" \notin {"red", "full-fallback"} BY <1>1 DEF SideTyped
<1> HIDE DEF r
<1>9. SideTyped(Changed(r, r.easy, date, "recovered")) BY <1>1, <1>6, <1>8, OtherDate
<1> QED BY <1>1, <1>7, <1>9, OneSideTyped

(* A side parsed anew, with whatever name.                                 *)
LEMMA AnewTyped ==
  ASSUME NEW r, SideTyped(r), NEW name
  PROVE  SideTyped(D!ReEnriched(r, name))
<1> DEFINE text(n) == D!TextsOf(r)[n]
           parsed == [n \in 1 .. 3 |-> D!FindDeathDate(text(n), name)]
           hits == {n \in 1 .. 3 : parsed[n] # D!NoDate}
           top == CHOOSE n \in hits : \A o \in hits \ {n} :
                     D!Less(D!Preference(parsed[n], n), D!Preference(parsed[o], o))
           new == D!ReEnriched(r, name)
           words == D!FlattenSeq(D!TextsOf(r)[top])
           near == D!Has(words, D!Keywords)
           named == (name # "" /\ D!Has(words, {name}))
<1>1. new = IF hits = {} THEN [r EXCEPT !.date = D!NoDate, !.source = "none"]
            ELSE [r EXCEPT !.date = [parsed[top] EXCEPT
                             !.keyword = near, !.named = named],
                           !.source = D!Sources[top]]
  BY Zenon DEF D!ReEnriched
<1>2. IsSide(r) /\ r.easy \in Texts BY DEF SideTyped
<1>3. text(1) = r.red /\ text(2) = r.full /\ text(3) = r.easy BY DEF D!TextsOf
<1>4. \A n \in 1 .. 3 : text(n) \in Texts BY <1>3 DEF SideTyped
<1>5. \A n \in 1 .. 3 : /\ Parsed(parsed[n]) /\ IsDate(parsed[n])
                        /\ text(n) = <<>> => parsed[n] = D!NoDate
  <2>1. ASSUME NEW n \in 1 .. 3
        PROVE  /\ Parsed(parsed[n]) /\ IsDate(parsed[n])
               /\ text(n) = <<>> => parsed[n] = D!NoDate
    <3>1. text(n) \in Texts BY <1>4
    <3>2. parsed[n] = D!FindDeathDate(text(n), name) OBVIOUS
    <3> HIDE DEF parsed, text
    <3> QED BY <3>1, <3>2, ParsedIs, ParserFacts
  <2> HIDE DEF parsed, text
  <2> QED BY <2>1
<1> HIDE DEF new, parsed, near, named
<1>6. CASE hits = {}
  <2>1. new = Changed(r, r.easy, D!NoDate, "none") BY Zenon, <1>1, <1>2, <1>6, SameEasy
  <2>2. IsDate(D!NoDate) /\ NoneOrTaken(D!NoDate) BY DEF IsDate, D!NoDate, NoneOrTaken
  <2>3. "none" \notin {"red", "full-fallback"} OBVIOUS
  <2>4. SideTyped(new) BY <1>2, <2>1, <2>2, <2>3, OtherDate
  <2> QED BY <2>4 DEF new
<1>7. CASE hits # {}
  <2> DEFINE f == <<[n \in hits |-> IF parsed[n].kind = "date" THEN 0 ELSE 1],
                    [n \in hits |-> IF parsed[n].keyword THEN 0 ELSE 1],
                    [n \in hits |-> IF parsed[n].named THEN 0 ELSE 1],
                    [n \in hits |-> n]>>
  <2>1. hits \subseteq 1 .. 3 OBVIOUS
  <2>2. \A n \in hits : parsed[n] # D!NoDate OBVIOUS
  <2>3. top = CHOOSE n \in hits : \A o \in hits \ {n} :
                D!Less(D!Preference(parsed[n], n), D!Preference(parsed[o], o))
    OBVIOUS
  <2> HIDE DEF hits, top
  <2>4. \A m \in 1 .. 4 : \A n \in hits : f[m][n] \in Nat
    <3> SUFFICES ASSUME NEW n \in hits
                 PROVE  f[1][n] \in Nat /\ f[2][n] \in Nat /\ f[3][n] \in Nat /\ f[4][n] \in Nat
      OBVIOUS
    <3> QED BY <2>1
  <2>5. \A n \in hits : D!Preference(parsed[n], n) = Four(f, n) /\ f[4][n] = n
    BY DEF D!Preference, Four
  <2> HIDE DEF f
  <2>6. PICK c \in hits : \A o \in hits :
          /\ ~D!Less(Four(f, o), Four(f, c))
          /\ f[4][o] # f[4][c] => D!Less(Four(f, c), Four(f, o))
    BY <1>7, <2>4, LeastOfFour
  <2>7. \A o \in hits \ {c} :
          D!Less(D!Preference(parsed[c], c), D!Preference(parsed[o], o))
    BY <2>5, <2>6
  <2>8. top \in hits BY <2>3, <2>7
  <2>9. top \in 1 .. 3 /\ parsed[top] # D!NoDate BY <2>1, <2>2, <2>8
  <2>19. parsed[top].year \in 1860 .. 1955
    <3>1. Parsed(parsed[top]) BY <1>5, <2>9
    <3> DEFINE d == parsed[top]
    <3>2. Parsed(d) /\ d # D!NoDate BY <2>9, <3>1
    <3> HIDE DEF d
    <3>3. d.year \in 1860 .. 1955 BY <3>2 DEF Parsed
    <3> QED BY <3>3 DEF d
  <2> DEFINE date == [parsed[top] EXCEPT !.keyword = near, !.named = named]
  <2>10. IsDate(date) /\ date.keyword = near /\ date.year = parsed[top].year
         /\ date # D!NoDate
    <3>1. PICK kind, year, keyword, other, granted :
            parsed[top] = [kind |-> kind, year |-> year, keyword |-> keyword,
                           named |-> other, granted |-> granted]
      BY <1>5, <2>9 DEF IsDate
    <3> DEFINE with == [parsed[top] EXCEPT !.keyword = near]
    <3>2. with = [kind |-> kind, year |-> year, keyword |-> near, named |-> other,
                  granted |-> granted]
      BY <3>1
    <3>3. date = [with EXCEPT !.named = named] BY Zenon
    <3> HIDE DEF with, date
    <3>4. date = [kind |-> kind, year |-> year, keyword |-> near, named |-> named,
                  granted |-> granted]
      BY <3>2, <3>3
    <3>5. IsDate(date) /\ date.keyword = near /\ date.year = year BY <3>4 DEF IsDate
    <3>6. year \in 1860 .. 1955 BY <2>19, <3>1
    <3>7. D!NoDate.year = 0 BY DEF D!NoDate
    <3> QED BY <3>1, <3>5, <3>6, <3>7
  <2>11. NoneOrTaken(date)
    <3> HIDE DEF date
    <3> QED BY <2>10, <2>19 DEF NoneOrTaken
  <2>12. new = [r EXCEPT !.date = date, !.source = D!Sources[top]] BY <1>1, <1>7
  <2> HIDE DEF date
  <2>13. new = [red |-> r.red, full |-> r.full, easy |-> r.easy, date |-> date,
                source |-> D!Sources[top]]
    <3>1. new = Changed(r, r.easy, date, D!Sources[top]) BY Zenon, <1>2, <2>12, SameEasy
    <3> QED BY <1>2, <3>1, SideWith
  <2>14. Died(text(top)) => near = TRUE
    <3>1. text(top) \in Texts /\ words = D!FlattenSeq(text(top)) BY <1>4, <2>9
    <3> HIDE DEF text, words
    <3> QED BY <3>1, DiedIsIn DEF near
  <2>15. text(top) # <<>> BY <1>5, <2>9
  <2>16. /\ D!Sources[top] = "red" => top = 1
         /\ D!Sources[top] = "full-fallback" => top = 2
    BY <2>9 DEF D!Sources
  <2>17. /\ D!Sources[top] = "red" => r.red # <<>> /\ (Died(r.red) => date.keyword = TRUE)
         /\ D!Sources[top] = "full-fallback" => (Died(r.full) => date.keyword = TRUE)
    BY <1>3, <2>10, <2>14, <2>15, <2>16
  <2>18. SideTyped(new) BY <2>10, <2>11, <2>13, <2>17 DEF SideTyped, IsSide
  <2> QED BY <2>18 DEF new
<1> QED BY <1>6, <1>7

LEMMA NextTyped ==
  ASSUME CardTyped, [D!Next]_(D!vars)
  PROVE  CardTyped'
<1>1. ASSUME NEW s \in Sides, D!ProcessImage(s) PROVE CardTyped' BY <1>1, ImageTyped
<1>2. ASSUME NEW s \in Sides, D!EasyRead(s) PROVE CardTyped' BY <1>2, EasyTyped
<1>3. ASSUME NEW s \in Sides, D!Accept(s) PROVE CardTyped' BY <1>3, AcceptTyped
<1>4. CASE D!ReEnrich
  <2>1. rec' = [s \in Sides |-> D!ReEnriched(rec[s], D!PensionerName)] /\ card' = card
    BY <1>4 DEF D!ReEnrich
  <2>2. \A s \in Sides : card[s] \in Texts /\ SideTyped(rec[s]) BY DEF CardTyped
  <2>3. \A s \in Sides : SideTyped(D!ReEnriched(rec[s], D!PensionerName))
    BY <2>2, AnewTyped
  <2>4. DOMAIN rec' = Sides /\ \A s \in Sides : SideTyped(rec'[s]) BY <2>1, <2>3
  <2>5. \A s \in Sides : card'[s] \in Texts BY <2>1, <2>2
  <2> QED BY <2>4, <2>5
    DEF CardTyped, SideTyped, IsSide, IsDate, NoneOrTaken, Died, Texts
<1>5. CASE D!Enrich \/ UNCHANGED D!vars
  <2>1. rec' = rec /\ card' = card BY <1>5 DEF D!Enrich, D!vars
  <2> QED BY <2>1
    DEF CardTyped, SideTyped, IsSide, IsDate, NoneOrTaken, Died, Texts
<1> QED BY <1>1, <1>2, <1>3, <1>4, <1>5 DEF D!Next
-----------------------------------------------------------------------------
(* The row, of the last enrichment, is the best of the sides.              *)
Taken == {rec[s].date : s \in Sides} \ {D!NoDate}
BestInv == ~stale => row = D!PickBest(Taken)

LEMMA BestStep ==
  ASSUME BestInv, [D!Next]_(D!vars)
  PROVE  BestInv'
<1>1. CASE D!Enrich
  <2>1. row' = D!PickBest(Taken) BY <1>1, Zenon DEF D!Enrich, Taken
  <2>2. rec' = rec BY <1>1 DEF D!Enrich
  <2> QED BY <2>1, <2>2 DEF BestInv, Taken
<1>2. CASE UNCHANGED D!vars
  <2>1. rec' = rec /\ row' = row /\ stale' = stale BY <1>2 DEF D!vars
  <2> QED BY <2>1 DEF BestInv, Taken
<1>3. CASE \/ D!ReEnrich
           \/ \E s \in Sides : D!ProcessImage(s) \/ D!EasyRead(s) \/ D!Accept(s)
  <2>1. stale' = TRUE
    BY <1>3, Zenon DEF D!ReEnrich, D!ProcessImage, D!EasyRead, D!Accept
  <2> QED BY <2>1 DEF BestInv
<1> QED BY <1>1, <1>2, <1>3 DEF D!Next

Dated(d) == IsDate(d) /\ d.year \in 1860 .. 1955

LEMMA PickedIs ==
  ASSUME NEW dates, dates # {}, \A d \in dates : Dated(d)
  PROVE  /\ D!PickBest(dates) \in dates
         /\ \A o \in dates : ~D!Less(D!Rank(o), D!Rank(D!PickBest(dates)))
<1> DEFINE f == <<[d \in dates |-> IF d.named THEN 0 ELSE 1],
                  [d \in dates |-> IF d.keyword THEN 0 ELSE 1],
                  [d \in dates |-> IF d.kind = "date" THEN 0 ELSE 1],
                  [d \in dates |-> d.year]>>
<1>1. \A n \in 1 .. 4 : \A d \in dates : f[n][d] \in Nat
  <2> SUFFICES ASSUME NEW d \in dates
               PROVE  f[1][d] \in Nat /\ f[2][d] \in Nat /\ f[3][d] \in Nat /\ f[4][d] \in Nat
    OBVIOUS
  <2>1. d.year \in Nat BY DEF Dated
  <2> QED BY <2>1
<1>2. \A d \in dates : D!Rank(d) = Four(f, d) BY DEF D!Rank, Four
<1> HIDE DEF f
<1>3. PICK c \in dates : \A o \in dates : ~D!Less(Four(f, o), Four(f, c))
  BY <1>1, LeastOfFour
<1>4. \E d \in dates : \A o \in dates : ~D!Less(D!Rank(o), D!Rank(d)) BY <1>2, <1>3
<1>5. D!PickBest(dates) =
        CHOOSE d \in dates : \A o \in dates : ~D!Less(D!Rank(o), D!Rank(d))
  BY Zenon DEF D!PickBest
<1> QED BY <1>4, <1>5

LEMMA TakenDated == ASSUME CardTyped PROVE \A d \in Taken : Dated(d)
<1> SUFFICES ASSUME NEW d \in Taken PROVE Dated(d) OBVIOUS
<1>1. PICK s \in Sides : d = rec[s].date BY DEF Taken
<1>2. d # D!NoDate BY DEF Taken
<1>3. SideTyped(rec[s]) BY DEF CardTyped
<1>4. IsDate(d) /\ NoneOrTaken(d) BY <1>1, <1>3 DEF SideTyped, IsSide
<1> QED BY <1>2, <1>4 DEF Dated, NoneOrTaken

LEMMA RowIs ==
  ASSUME CardTyped, BestInv, ~stale
  PROVE  /\ Taken = {} => row = D!NoDate
         /\ Taken # {} => /\ row \in Taken /\ row.year \in 1860 .. 1955
                          /\ \A o \in Taken : ~D!Less(D!Rank(o), D!Rank(row))
<1>1. row = D!PickBest(Taken) BY DEF BestInv
<1>2. CASE Taken = {} BY <1>1, <1>2 DEF D!PickBest
<1>3. CASE Taken # {}
  <2>1. row \in Taken /\ \A o \in Taken : ~D!Less(D!Rank(o), D!Rank(row))
    BY <1>1, <1>3, TakenDated, PickedIs
  <2>2. Dated(row) BY <2>1, TakenDated
  <2> QED BY <1>3, <2>1, <2>2 DEF Dated
<1> QED BY <1>2, <1>3

(* A side whose text tells the year has it, from Tesseract's text, near a  *)
(* keyword.                                                                *)
LEMMA ToldSide ==
  ASSUME NEW r, SideInv(r), SideTyped(r), NEW text \in {r.red, r.full}, NEW year,
         D!Tells(text, year)
  PROVE  r.date.year = year /\ r.date # D!NoDate /\ r.date.keyword = TRUE
<1>1. text \in Texts BY DEF SideTyped
<1>2. Finds(text) # D!NoDate /\ Finds(text).year = year /\ Died(text)
  BY <1>1, ToldIsParsed DEF Died
<1>3. Finds(<<>>) = D!NoDate BY ParserFacts DEF Finds
<1>4. CASE r.source = "red"
  <2>1. text = r.red BY <1>2, <1>3, <1>4 DEF SideInv
  <2> QED BY <1>2, <1>4, <2>1 DEF SideInv, SideTyped, SameDate
<1>5. CASE r.source = "full-fallback"
  <2>1. text = r.full BY <1>2, <1>5 DEF SideInv
  <2> QED BY <1>2, <1>5, <2>1 DEF SideInv, SideTyped, SameDate
<1>6. CASE r.source \notin {"red", "full-fallback"} BY <1>2, <1>6 DEF SideInv
<1> QED BY <1>4, <1>5, <1>6

LEMMA ToldRow ==
  ASSUME CardTyped, BestInv, ~stale, NEW s \in Sides, rec[s].date # D!NoDate,
         rec[s].date.keyword = TRUE,
         \A o \in Sides \ {s} : ~rec[o].date.keyword /\ ~rec[o].date.named
  PROVE  row.year = rec[s].date.year
<1> DEFINE told == rec[s].date
<1>1. told \in Taken BY DEF Taken
<1>2. row \in Taken /\ ~D!Less(D!Rank(told), D!Rank(row)) BY <1>1, RowIs
<1>3. PICK o \in Sides : row = rec[o].date BY <1>2 DEF Taken
<1>4. CASE o = s BY <1>3, <1>4
<1>5. CASE o # s
  <2>1. ~row.keyword /\ ~row.named BY <1>3, <1>5
  <2>2. told.year \in Int /\ row.year \in Int BY <1>1, <1>2, TakenDated DEF Dated
  <2> DEFINE a1 == IF told.named THEN 0 ELSE 1
             a3 == IF told.kind = "date" THEN 0 ELSE 1
             b3 == IF row.kind = "date" THEN 0 ELSE 1
  <2>3. D!Rank(told) = <<a1, 0, a3, told.year>> BY DEF D!Rank
  <2>4. D!Rank(row) = <<1, 1, b3, row.year>> BY <2>1 DEF D!Rank
  <2>5. a1 \in {0, 1} /\ a3 \in Int /\ b3 \in Int OBVIOUS
  <2> HIDE DEF a1, a3, b3, told
  <2>6. D!Less(<<a1, 0, a3, told.year>>, <<1, 1, b3, row.year>>)
    <3>1. a1 \in Int /\ a1 <= 1 BY <2>5
    <3>2. D!Less(<<a1, 0, a3, told.year>>, <<1, 1, b3, row.year>>) <=>
            \/ a1 < 1
            \/ a1 = 1 /\ 0 < 1
            \/ a1 = 1 /\ 0 = 1 /\ a3 < b3
            \/ a1 = 1 /\ 0 = 1 /\ a3 = b3 /\ told.year < row.year
      BY <2>2, <2>5, <3>1, LessOfFour
    <3> QED BY <3>1, <3>2
  <2> QED BY <1>2, <2>3, <2>4, <2>6
<1> QED BY <1>4, <1>5

LEMMA FoundHolds ==
  ASSUME CardTyped, BestInv, ~Widow => SidesInv
  PROVE  D!ToldIsFound
<1> SUFFICES ASSUME ~Widow, NEW s \in Sides, NEW text \in {rec[s].red, rec[s].full},
                    NEW w \in D!ToSet(D!FlattenSeq(text)), D!Tells(text, w.year)
             PROVE  /\ rec[s].date.year = w.year
                    /\ ~stale /\ (\A o \in Sides \ {s} :
                                    ~rec[o].date.keyword /\ ~rec[o].date.named)
                         => row.year = w.year
  BY DEF D!ToldIsFound
<1>1. SideInv(rec[s]) /\ SideTyped(rec[s]) BY DEF SidesInv, CardTyped
<1>2. /\ rec[s].date.year = w.year /\ rec[s].date # D!NoDate
      /\ rec[s].date.keyword = TRUE
  BY <1>1, ToldSide
<1> QED BY <1>2, ToldRow
-----------------------------------------------------------------------------
(* All texts of a card.                                                    *)
LEMMA SidesInOrder ==
  /\ D!SetToSeq(Sides) \in Seq(Sides)
  /\ \A s \in Sides : \E k \in DOMAIN D!SetToSeq(Sides) : D!SetToSeq(Sides)[k] = s
<1> DEFINE n == Cardinality(Sides)
           seq == D!SetToSeq(Sides)
           Once(f) == \A a, b \in DOMAIN f : f[a] = f[b] => a = b
<1>1. IsFiniteSet(Sides)
  BY RecordsAssumption DEF D!DeathDateAssumption, D!IsFiniteSet, IsFiniteSet
<1>2. n \in Nat /\ ExistsBijection(1 .. n, Sides) BY <1>1, FS_CardinalityType
<1>3. seq = CHOOSE f \in [1 .. n -> Sides] : Once(f)
  <2>1. D!Cardinality(Sides) = n BY Zenon DEF D!Cardinality, Cardinality
  <2> QED BY <2>1, Zenon DEF D!SetToSeq, D!IsInjective
<1>4. \E f \in [1 .. n -> Sides] : Once(f)
  BY <1>2 DEF ExistsBijection, Bijection, Injection, IsInjective
<1> HIDE DEF n, seq
<1>5. seq \in [1 .. n -> Sides] /\ Once(seq) BY <1>3, <1>4
<1>6. seq \in Injection(1 .. n, Sides) BY <1>5 DEF Injection, IsInjective
<1>7. Cardinality(1 .. n) = Cardinality(Sides) BY <1>2, FS_Interval DEF n
<1>8. seq \in Surjection(1 .. n, Sides) BY <1>1, <1>6, <1>7, FS_Injection
<1>9. \A s \in Sides : \E k \in 1 .. n : seq[k] = s BY <1>8 DEF Surjection
<1>10. seq \in Seq(Sides) /\ DOMAIN seq = 1 .. n BY <1>2, <1>5
<1> QED BY <1>9, <1>10 DEF seq

LEMMA TextsOfCard ==
  ASSUME CardTyped
  PROVE  /\ D!AllTexts \in Texts
         /\ \A s \in Sides : \A text \in {rec[s].red, rec[s].full} :
              \A n \in DOMAIN text : \E m \in DOMAIN D!AllTexts : D!AllTexts[m] = text[n]
<1> DEFINE Line == Seq(D!Words)
           side == D!SetToSeq(Sides)
           reds == [n \in DOMAIN side |-> rec[side[n]].red]
           fulls == [n \in DOMAIN side |-> rec[side[n]].full]
           easys == [n \in DOMAIN side |-> rec[side[n]].easy]
           a == D!FlattenSeq(reds)
           b == D!FlattenSeq(fulls)
           c == D!FlattenSeq(easys)
<1>1. side \in Seq(Sides) /\ \A s \in Sides : \E k \in DOMAIN side : side[k] = s
  BY SidesInOrder
<1>2. D!AllTexts = a \o b \o c BY Zenon DEF D!AllTexts
<1>3. \A s \in Sides : rec[s].red \in Seq(Line) /\ rec[s].full \in Seq(Line)
                       /\ rec[s].easy \in Seq(Line)
  BY DEF CardTyped, SideTyped, Texts
<1> HIDE DEF Line, side
<1> DEFINE K == Len(side)
<1>4. DOMAIN side = 1 .. K /\ K \in Nat /\ \A n \in 1 .. K : side[n] \in Sides BY <1>1
<1> HIDE DEF K
<1>5. /\ reds \in Seq(Seq(Line)) /\ DOMAIN reds = DOMAIN side
      /\ fulls \in Seq(Seq(Line)) /\ DOMAIN fulls = DOMAIN side
      /\ easys \in Seq(Seq(Line))
  <2>1. \A n \in 1 .. K : /\ rec[side[n]].red \in Seq(Line)
                          /\ rec[side[n]].full \in Seq(Line)
                          /\ rec[side[n]].easy \in Seq(Line)
    BY <1>3, <1>4
  <2>2. reds \in Seq(Seq(Line)) BY <1>4, <2>1, IsASeq
  <2>3. fulls \in Seq(Seq(Line)) BY <1>4, <2>1, IsASeq
  <2>4. easys \in Seq(Seq(Line)) BY <1>4, <2>1, IsASeq
  <2> QED BY <2>2, <2>3, <2>4
<1>6. ASSUME NEW s \in Sides
      PROVE  /\ \A n \in DOMAIN rec[s].red : \E p \in DOMAIN a : a[p] = rec[s].red[n]
             /\ \A n \in DOMAIN rec[s].full : \E p \in DOMAIN b : b[p] = rec[s].full[n]
  <2>1. PICK k \in DOMAIN side : side[k] = s BY <1>1
  <2>2. k \in DOMAIN reds /\ reds[k] = rec[s].red BY <2>1
  <2>3. k \in DOMAIN fulls /\ fulls[k] = rec[s].full BY <2>1
  <2> HIDE DEF reds, fulls
  <2>4. \A n \in DOMAIN reds[k] : \E p \in DOMAIN a : a[p] = reds[k][n]
    BY <1>5, <2>2, FlattenHas
  <2>5. \A n \in DOMAIN fulls[k] : \E p \in DOMAIN b : b[p] = fulls[k][n]
    BY <1>5, <2>3, FlattenHas
  <2> QED BY <2>2, <2>3, <2>4, <2>5
<1> HIDE DEF reds, fulls, easys
<1>7. a \in Seq(Line) /\ b \in Seq(Line) /\ c \in Seq(Line) BY <1>5, FlattenPlaces
<1> HIDE DEF a, b, c
<1>8. D!AllTexts \in Seq(Line)
  <2>1. a \o b \in Seq(Line) BY <1>7, ConcatProperties
  <2> QED BY <1>2, <1>7, <2>1, ConcatProperties
<1>9. /\ \A p \in DOMAIN a : \E m \in DOMAIN D!AllTexts : D!AllTexts[m] = a[p]
      /\ \A p \in DOMAIN b : \E m \in DOMAIN D!AllTexts : D!AllTexts[m] = b[p]
  <2>1. /\ Len(a) \in Nat /\ Len(b) \in Nat /\ Len(c) \in Nat
        /\ DOMAIN a = 1 .. Len(a) /\ DOMAIN b = 1 .. Len(b)
    BY <1>7
  <2> DEFINE ab == a \o b
             abc == ab \o c
  <2>2. /\ ab \in Seq(Line) /\ Len(ab) = Len(a) + Len(b)
        /\ \A p \in 1 .. Len(a) : ab[p] = a[p]
        /\ \A p \in 1 .. Len(b) : ab[Len(a) + p] = b[p]
    <3>1. \A p \in 1 .. Len(a) + Len(b) :
            ab[p] = IF p <= Len(a) THEN a[p] ELSE b[p - Len(a)]
      BY <1>7, ConcatProperties
    <3>2. \A p \in 1 .. Len(b) : /\ Len(a) + p \in 1 .. Len(a) + Len(b)
                                 /\ ~(Len(a) + p <= Len(a)) /\ (Len(a) + p) - Len(a) = p
      BY <2>1
    <3>3. \A p \in 1 .. Len(a) : p \in 1 .. Len(a) + Len(b) /\ p <= Len(a) BY <2>1
    <3>4. ab \in Seq(Line) /\ Len(ab) = Len(a) + Len(b) BY <1>7, ConcatProperties
    <3> HIDE DEF ab
    <3> QED BY <3>1, <3>2, <3>3, <3>4
  <2> HIDE DEF ab
  <2>3. /\ DOMAIN abc = 1 .. Len(ab) + Len(c)
        /\ \A p \in 1 .. Len(ab) : abc[p] = ab[p]
    <3>1. \A p \in 1 .. Len(ab) + Len(c) :
            abc[p] = IF p <= Len(ab) THEN ab[p] ELSE c[p - Len(ab)]
      BY <1>7, <2>2, ConcatProperties
    <3>2. \A p \in 1 .. Len(ab) : p \in 1 .. Len(ab) + Len(c) /\ p <= Len(ab)
      BY <2>1, <2>2
    <3>3. abc \in Seq(Line) /\ Len(abc) = Len(ab) + Len(c)
      BY <1>7, <2>2, ConcatProperties
    <3> HIDE DEF abc
    <3> QED BY <3>1, <3>2, <3>3
  <2>4. D!AllTexts = abc BY <1>2 DEF ab
  <2> HIDE DEF abc
  <2>5. ASSUME NEW p \in DOMAIN a PROVE \E m \in DOMAIN abc : abc[m] = a[p]
    <3>1. p \in 1 .. Len(ab) /\ p \in DOMAIN abc BY <2>1, <2>2, <2>3
    <3> QED BY <2>1, <2>2, <2>3, <3>1
  <2>6. ASSUME NEW p \in DOMAIN b PROVE \E m \in DOMAIN abc : abc[m] = b[p]
    <3>1. Len(a) + p \in 1 .. Len(ab) /\ Len(a) + p \in DOMAIN abc
      BY <2>1, <2>2, <2>3
    <3>2. abc[Len(a) + p] = b[p] BY <2>1, <2>2, <2>3, <3>1
    <3> QED BY <3>1, <3>2
  <2> QED BY <2>4, <2>5, <2>6
<1>10. ASSUME NEW s \in Sides, NEW text \in {rec[s].red, rec[s].full}, NEW n \in DOMAIN text
       PROVE  \E m \in DOMAIN D!AllTexts : D!AllTexts[m] = text[n]
  <2>1. CASE text = rec[s].red
    <3>1. PICK p \in DOMAIN a : a[p] = text[n] BY <1>6, <2>1
    <3> QED BY <1>9, <3>1
  <2>2. CASE text = rec[s].full
    <3>1. PICK p \in DOMAIN b : b[p] = text[n] BY <1>6, <2>2
    <3> QED BY <1>9, <3>1
  <2> QED BY <2>1, <2>2
<1> QED BY <1>8, <1>10 DEF Texts, Line

(* Two words that follow each other on a line do so in all of the texts.   *)
LEMMA NeighboursStay ==
  ASSUME NEW text \in Texts, NEW m \in DOMAIN text, NEW j \in 1 .. Len(text[m]) - 1
  PROVE  \E p \in DOMAIN D!FlattenSeq(text) :
           /\ p + 1 \in DOMAIN D!FlattenSeq(text)
           /\ D!FlattenSeq(text)[p] = text[m][j]
           /\ D!FlattenSeq(text)[p + 1] = text[m][j + 1]
<1> DEFINE t == D!FlattenSeq(text)
           Line == Seq(D!Words)
<1>1. text \in Seq(Line) BY DEF Texts
<1>2. t \in Seq(D!Words) /\ \E off \in [1 .. Len(text) -> Nat] : Places(t, text, off)
  BY <1>1, FlattenPlaces
<1>3. m \in 1 .. Len(text) /\ Len(text[m]) \in Nat
  <2>1. text[m] \in Line BY <1>1
  <2> QED BY <1>1, <2>1
<1> HIDE DEF t
<1>4. PICK off \in [1 .. Len(text) -> Nat] : Places(t, text, off) BY <1>2
<1>5. j \in 1 .. Len(text[m]) /\ j + 1 \in 1 .. Len(text[m]) /\ j \in Nat BY <1>3
<1>6. /\ off[m] + j \in 1 .. Len(t) /\ t[off[m] + j] = text[m][j]
      /\ off[m] + (j + 1) \in 1 .. Len(t) /\ t[off[m] + (j + 1)] = text[m][j + 1]
  BY <1>3, <1>4, <1>5 DEF Places
<1>7. off[m] \in Nat /\ off[m] + (j + 1) = (off[m] + j) + 1 BY <1>3, <1>5
<1>8. DOMAIN t = 1 .. Len(t) BY <1>2
<1> QED BY <1>6, <1>7, <1>8 DEF t

LEMMA TrustHolds ==
  ASSUME CardTyped, BestInv, ~Widow => SidesInv
  PROVE  D!AuditsTrustTheParser
<1> SUFFICES ASSUME ~stale
             PROVE  /\ "GRANTED_PICK" \notin D!Suspicions
                    /\ "PASS_RED_BUT_EMPTY_TEXT" \notin D!Doubts
                    /\ "OUT_OF_RANGE_YEAR" \in D!Doubts => row.year = 1860
                    /\ (\E s \in Sides : \E text \in {rec[s].red, rec[s].full} :
                          D!Tells(text, row.year))
                         => "NO_KEYWORD_BUT_DATE" \notin D!Doubts
                    /\ (\E s \in Sides : \E text \in {rec[s].red, rec[s].full} :
                          D!TellsInFull(text, row.year))
                         => "NUMERIC_SUBSTITUTION" \notin D!Suspicions
  BY DEF D!AuditsTrustTheParser, D!SaidOnTheCard, D!SaidInFull, D!Suspicions, D!Doubts
<1>1. "GRANTED_PICK" \notin D!Suspicions
  <2> DEFINE picked == D!FindDeathDate(D!AllTexts, D!PensionerName)
  <2>1. Parsed(picked) BY TextsOfCard, ParsedIs
  <2>2. "GRANTED_PICK" \in D!Suspicions => picked.granted BY DEF D!Suspicions
  <2> HIDE DEF picked
  <2>3. D!NoDate.granted = FALSE BY DEF D!NoDate
  <2> QED BY <2>1, <2>2, <2>3 DEF Parsed
<1>2. "PASS_RED_BUT_EMPTY_TEXT" \notin D!Doubts
  <2>1. \A s \in Sides : rec[s].source = "red" => rec[s].red # <<>>
    BY DEF CardTyped, SideTyped
  <2> QED BY <2>1 DEF D!Doubts
<1>3. "OUT_OF_RANGE_YEAR" \in D!Doubts => row.year = 1860
  <2>1. row = D!NoDate \/ row.year \in 1860 .. 1955 BY RowIs
  <2>2. "OUT_OF_RANGE_YEAR" \in D!Doubts => row # D!NoDate /\ row.year \notin 1861 .. 1955
    BY DEF D!Doubts
  <2> QED BY <2>1, <2>2
<1>4. ASSUME NEW s \in Sides, NEW text \in {rec[s].red, rec[s].full},
             D!Tells(text, row.year)
      PROVE  "NO_KEYWORD_BUT_DATE" \notin D!Doubts
  <2> SUFFICES ASSUME ~Widow PROVE \E o \in Sides : rec[o].date.keyword
    BY DEF D!Doubts
  <2>1. SideInv(rec[s]) /\ SideTyped(rec[s]) BY DEF SidesInv, CardTyped
  <2>2. rec[s].date.keyword = TRUE BY <1>4, <2>1, ToldSide
  <2> QED BY <2>2
<1>5. ASSUME NEW s \in Sides, NEW text \in {rec[s].red, rec[s].full},
             D!TellsInFull(text, row.year)
      PROVE  "NUMERIC_SUBSTITUTION" \notin D!Suspicions
  <2> DEFINE all == D!AllTexts
             t == D!FlattenSeq(all)
             its == {i \in DOMAIN t : t[i].year = row.year /\ D!InFull(t[i])}
  <2>1. D!Tells(text, row.year) BY <1>5 DEF D!TellsInFull
  <2>2. PICK n \in DOMAIN text : \E j \in 1 .. Len(text[n]) - 1 :
          text[n][j].is = "died" /\ text[n][j + 1].year = row.year
    BY <2>1, Zenon DEF D!Tells
  <2>3. PICK j \in 1 .. Len(text[n]) - 1 :
          text[n][j].is = "died" /\ text[n][j + 1].year = row.year
    BY <2>2
  <2>4. D!InFull(text[n][j + 1]) BY <1>5, <2>3 DEF D!TellsInFull
  <2>5. PICK m \in DOMAIN all : all[m] = text[n] BY TextsOfCard
  <2>6. all \in Texts BY TextsOfCard
  <2> HIDE DEF all
  <2>7. PICK p \in DOMAIN t : /\ p + 1 \in DOMAIN t
                              /\ t[p] = text[n][j] /\ t[p + 1] = text[n][j + 1]
    <3>1. m \in DOMAIN all /\ j \in 1 .. Len(all[m]) - 1 BY <2>3, <2>5
    <3>2. \E p \in DOMAIN t : p + 1 \in DOMAIN t /\ t[p] = all[m][j] /\ t[p + 1] = all[m][j + 1]
      BY <2>6, <3>1, NeighboursStay, Zenon
    <3> QED BY <2>5, <3>2
  <2>8. t \in Seq(D!Words) BY <2>6, FlattenPlaces DEF Texts
  <2> HIDE DEF t
  <2>9. p + 1 \in its BY <2>3, <2>4, <2>7
  <2>10. D!StrictNear(t, p + 1)
    <3>1. p \in Nat BY <2>8
    <3>2. D!Gap(p + 1, p) <= 3 BY <3>1 DEF D!Gap
    <3>3. t[p].is \in D!DeathKeywords BY <2>3, <2>7 DEF D!DeathKeywords, D!Protected
    <3> QED BY <3>2, <3>3 DEF D!StrictNear
  <2>11. "NUMERIC_SUBSTITUTION" \in D!Suspicions => \A i \in its : ~D!StrictNear(t, i)
    BY DEF D!Suspicions, all, t
  <2> HIDE DEF its
  <2> QED BY <2>9, <2>10, <2>11
<1> QED BY <1>1, <1>2, <1>3, <1>4, <1>5

(* What a text tells is on the record of its side and in the row, and the  *)
(* audits then do not doubt it, nor take a date of the parser's for one of *)
(* a stamp (find_death_date, pick_best_per_card, audit_one).               *)
THEOREM ToldHolds == D!Spec => []ToldIsTrusted
<1>1. D!Init => CardTyped BY CardStarts
<1>2. CardTyped /\ [D!Next]_D!vars => CardTyped' BY NextTyped
<1>3. D!Init => BestInv BY DEF D!Init, BestInv
<1>4. BestInv /\ [D!Next]_D!vars => BestInv' BY BestStep
<1>5. CASE ~Widow
  <2>1. D!Init => SidesInv BY SidesStart
  <2>2. SidesInv /\ [D!Next]_D!vars => SidesInv' BY <1>5, CardStep
  <2>3. CardTyped /\ BestInv /\ SidesInv => ToldIsTrusted
    BY FoundHolds, TrustHolds DEF ToldIsTrusted, D!ToldIsTrusted
  <2> QED BY <1>1, <1>2, <1>3, <1>4, <2>1, <2>2, <2>3, PTL DEF D!Spec
<1>6. CASE Widow
  <2>1. CardTyped /\ BestInv => ToldIsTrusted
    BY <1>6, FoundHolds, TrustHolds DEF ToldIsTrusted, D!ToldIsTrusted
  <2> QED BY <1>1, <1>2, <1>3, <1>4, <2>1, PTL DEF D!Spec
<1>7. Widow \in BOOLEAN BY RecordsAssumption DEF D!DeathDateAssumption
<1> QED BY <1>5, <1>6, <1>7
=============================================================================
