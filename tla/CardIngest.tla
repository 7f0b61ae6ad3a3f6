----------------------------- MODULE CardIngest -----------------------------
(***************************************************************************)
(* From pension cards to death dates (scripts/ingest): the images are      *)
(* downloaded (download_pensioncard_images.py), read by Tesseract          *)
(* (red_ink_ocr_pilot.py, kept alive by red_ink_ocr_watchdog.py) and, where*)
(* that finds no date, by EasyOCR (easyocr_pass.py), whose progress is     *)
(* committed by easyocr_checkpoint.py.  The programs share the image       *)
(* directory and one results file, which is rewritten as a whole: it is    *)
(* unreadable from the moment write_text truncates it until it is done.    *)
(*                                                                         *)
(* The operator runs one writer of the results file at a time; nothing in  *)
(* the code enforces it.  The readers run beside it.                       *)
(***************************************************************************)
EXTENDS Integers, FiniteSets, Functions, FiniteSetsExt

CONSTANTS
  Images,      \* the card images
  TessDated,   \* those Tesseract finds a date on
  EasyDated,   \* those EasyOCR finds a date on
  Illegible,   \* those EasyOCR reads no text on
  Slices,      \* the slices cut from the results file, each by its images
  SliceSize,   \* below this many records a file is taken for a slice
  FlushEvery,  \* images between two saves of the pilot
  IdleCycles, MaxRestarts, \* of the watchdog
  Thresholds, Target,      \* of the checkpoint watcher, in percent and records
  MaxKills,    \* bound: processes killed
  MaxFaults    \* bound: requests, readings and commits that fail

ASSUME CardIngestAssumption ==
  /\ IsFiniteSet(Images)
  /\ TessDated \subseteq Images /\ EasyDated \subseteq Images
  /\ Illegible \subseteq Images \ EasyDated /\ Slices \subseteq SUBSET Images
  /\ {FlushEvery, IdleCycles, Target} \subseteq Nat \ {0}
  /\ {SliceSize, MaxRestarts, MaxKills, MaxFaults} \subseteq Nat
  /\ Thresholds \subseteq 1 .. 100

VARIABLES
  img,       \* an image file: "absent", "part" or "whole"
  dl,        \* the downloader: "off", "on", or the image it is writing
  asked,     \* the images it has been through
  file,      \* the results file: "absent", "torn", or "whole" with its records
  writer,    \* who works on it: "none", "pilot", and EasyOCR with several
             \* workers, "pool", or with one, "serial"
  todo, mem, \* the writer's images still to read, and its records
  unflushed, \* images read since the pilot's last save
  saving,    \* "no", "more" or "last": it is in the middle of a save
  dog,       \* the watchdog: where it is, idle, restarts, last_count
  watcher,   \* the checkpoint watcher: where it is, thresholds due, count read
  fired,     \* checkpoints.fired.json
  git, bullets, \* checkpoints committed, with their count; CHANGELOG lines
  kills, faults,
  best, cut, \* history: the last whole file; a save was cut short
  sliced,    \* history: the writer works on a slice of the file
  ever,      \* history: the images a whole file had a Tesseract date of
  read       \* history: the texts the EasyOCR run has merged

images == <<img, dl, asked>>
results == <<file, best, cut, sliced, ever>>
writing == <<writer, todo, mem, unflushed, saving, read>>
progress == <<watcher, fired, git, bullets>>
bounds == <<kills, faults>>
vars == <<images, results, writing, dog, progress, bounds>>

NoRecords == [i \in {} |-> {}]
Torn == [kind |-> "torn", recs |-> NoRecords]
Absent == [kind |-> "absent", recs |-> NoRecords]
Whole(recs) == [kind |-> "whole", recs |-> recs]

HasText(r) == r.easy \notin {"none", "blank"}

Fault == faults < MaxFaults /\ faults' = faults + 1

Init ==
  /\ img = [i \in Images |-> "absent"] /\ dl = "off" /\ asked = {}
  /\ file = Absent /\ best = NoRecords /\ cut = FALSE
  /\ sliced = FALSE /\ ever = {}
  /\ writer = "none" /\ todo = {} /\ mem = NoRecords /\ unflushed = 0
  /\ saving = "no" /\ read = {}
  /\ dog = [at |-> "off", idle |-> 0, restarts |-> 0, last |-> 0]
  /\ watcher = [at |-> "off", due |-> {}, count |-> 0]
  /\ fired = {} /\ git = {} /\ bullets = [t \in Thresholds |-> 0]
  /\ kills = 0 /\ faults = 0
-----------------------------------------------------------------------------
(* The downloader goes through every page of every card.                   *)
Download ==
  /\ dl = "off" /\ asked' = {} /\ dl' = "on"
  /\ UNCHANGED <<img, results, writing, dog, progress, bounds>>

(* fetch_tile: a file that exists is taken as downloaded.                  *)
Present(i) == img[i] # "absent"

SkipTile(i) ==
  /\ dl = "on" /\ i \notin asked /\ Present(i)
  /\ asked' = asked \cup {i}
  /\ UNCHANGED <<img, dl, results, writing, dog, progress, bounds>>

FetchTile(i) ==
  /\ dl = "on" /\ i \notin asked /\ ~Present(i)
  /\ asked' = asked \cup {i}
  /\ \/ img' = [img EXCEPT ![i] = "part"] /\ dl' = i /\ UNCHANGED faults
     \/ Fault /\ UNCHANGED <<img, dl>>
  /\ UNCHANGED <<results, writing, dog, progress, kills>>

TileWritten ==
  /\ dl \in Images
  /\ img' = [img EXCEPT ![dl] = "whole"] /\ dl' = "on"
  /\ UNCHANGED <<asked, results, writing, dog, progress, bounds>>

DownloadEnds ==
  /\ dl = "on" /\ asked = Images
  /\ dl' = "off" /\ asked' = {}
  /\ UNCHANGED <<img, results, writing, dog, progress, bounds>>
-----------------------------------------------------------------------------
(* write_text truncates the file, and then fills it.                       *)
BeginSave(s) ==
  file' = Torn /\ saving' = s /\ UNCHANGED <<best, cut, sliced, ever>>

NoSave == saving' = "no" /\ UNCHANGED results

TessOf(recs) == {i \in DOMAIN recs : recs[i].date = "tesseract"}

(* What the writer had in memory is gone with it.                          *)
WriterEnds ==
  /\ writer' = "none" /\ saving' = "no" /\ todo' = {} /\ mem' = NoRecords
  /\ unflushed' = 0 /\ read' = {}

FinishSave ==
  /\ saving # "no"
  /\ file' = Whole(mem)
  /\ best' = mem /\ cut' = FALSE /\ ever' = ever \cup TessOf(mem)
  /\ \/ saving = "last" /\ WriterEnds
     \/ /\ saving = "more" /\ saving' = "no" /\ unflushed' = 0
        /\ UNCHANGED <<writer, todo, mem, read>>
  /\ UNCHANGED <<images, sliced, dog, progress, bounds>>

(* A mutant: the results of earlier runs are not carried over.             *)
StartOver == NoRecords

(* The pilot resumes from the file; one it can not parse counts as empty.  *)
Existing == file.recs

StartPilot ==
  /\ writer' = "pilot" /\ saving' = "no" /\ unflushed' = 0 /\ read' = {}
  /\ mem' = Existing /\ sliced' = FALSE
  /\ todo' = {i \in Images : Present(i)} \ DOMAIN file.recs

RunPilot ==
  /\ writer = "none" /\ dog.at = "off"
  /\ StartPilot
  /\ UNCHANGED <<images, file, best, cut, ever, dog, progress, bounds>>

(* process_image: an image cut short can not be decoded.                   *)
PilotRecord(i, readable) ==
  [ocr |-> IF readable THEN "ok" ELSE "error", easy |-> "none",
   date |-> IF readable /\ i \in TessDated THEN "tesseract" ELSE "none"]

WithRecord(recs, i, new) ==
  [j \in DOMAIN recs \cup {i} |-> IF j = i THEN new ELSE recs[j]]

PilotReads(i) ==
  /\ writer = "pilot" /\ saving = "no" /\ i \in todo
  /\ \/ /\ mem' = WithRecord(mem, i, PilotRecord(i, img[i] = "whole"))
        /\ UNCHANGED faults
     \/ Fault /\ mem' = WithRecord(mem, i, PilotRecord(i, FALSE))
  /\ todo' = todo \ {i}
  /\ unflushed' = unflushed + 1
  /\ IF unflushed' = FlushEvery \/ todo' = {} THEN BeginSave("more") ELSE NoSave
  /\ UNCHANGED <<writer, read, images, dog, progress, kills>>

PilotEnds ==
  /\ writer = "pilot" /\ saving = "no" /\ todo = {}
  /\ BeginSave("last")
  /\ UNCHANGED <<writer, todo, mem, unflushed, read, images, dog, progress, bounds>>
-----------------------------------------------------------------------------
(* count_results: what can not be read counts as nothing.                  *)
Count == Cardinality(DOMAIN file.recs)

RunDog ==
  /\ dog.at = "off" /\ writer = "none" /\ dog.restarts = 0
  /\ dog' = [at |-> "check", idle |-> 0, restarts |-> 0, last |-> Count]
  /\ UNCHANGED <<images, results, writing, progress, bounds>>

(* It looks whether the OCR process is there, and starts it if not.        *)
DogChecks ==
  /\ dog.at = "check" /\ writer = "pilot"
  /\ dog' = [dog EXCEPT !.at = "poll"]
  /\ UNCHANGED <<images, results, writing, progress, bounds>>

DogRestarts ==
  /\ dog.at = "check" /\ writer = "none" /\ dog.restarts < MaxRestarts
  /\ dog' = [dog EXCEPT !.at = "poll", !.restarts = @ + 1]
  /\ StartPilot
  /\ UNCHANGED <<images, file, best, cut, ever, progress, bounds>>

DogGivesUp ==
  /\ dog.at = "check" /\ writer = "none" /\ dog.restarts >= MaxRestarts
  /\ dog' = [dog EXCEPT !.at = "off", !.restarts = @ + 1]
  /\ UNCHANGED <<images, results, writing, progress, bounds>>

(* A process that ends in the middle of a save leaves the file torn.       *)
WriterDies == WriterEnds /\ cut' = (cut \/ saving # "no")

(* A mutant: only a count that fell counts as idle.                        *)
Sinking(count) == count < dog.last

Idle(count) == count = dog.last

DogPolls ==
  /\ dog.at = "poll"
  /\ LET idle == IF Idle(Count) THEN dog.idle + 1 ELSE 0
         done == Idle(Count) /\ idle >= IdleCycles
     IN  /\ dog' = [at |-> IF done THEN "off" ELSE "check", idle |-> idle,
                    restarts |-> dog.restarts, last |-> Count]
         /\ IF done /\ writer = "pilot" THEN WriterDies
            ELSE UNCHANGED <<writing, cut>>
  /\ UNCHANGED <<file, best, sliced, ever, images, progress, bounds>>
-----------------------------------------------------------------------------
(* The guard after the loss of 2026-07-29, in the pass and in its launcher:*)
(* the canonical file is not written over with what looks like a slice.    *)
Refuses(recs, inPlace) == Cardinality(DOMAIN recs) < SliceSize /\ ~inPlace

(* Not yet read by EasyOCR, without a date, and with an image.             *)
Targets(recs) ==
  {i \in DOMAIN recs : ~HasText(recs[i]) /\ recs[i].date = "none" /\ Present(i)}

(* The operator gives --in-place for the canonical file only; a slice may  *)
(* be large enough to be taken for it.                                     *)
RunEasy ==
  /\ writer = "none" /\ dog.at = "off" /\ file.kind = "whole"
  /\ \E slice \in Slices \cup {Images}, inPlace \in BOOLEAN :
       LET recs == Restrict(file.recs, slice \cap DOMAIN file.recs)
       IN  /\ inPlace => slice = Images
           /\ ~Refuses(recs, inPlace)
           /\ mem' = recs /\ todo' = Targets(recs)
           /\ sliced' = (slice # Images)
  /\ writer' \in {"pool", "serial"} /\ saving' = "no" /\ unflushed' = 0 /\ read' = {}
  /\ UNCHANGED <<images, file, best, cut, ever, dog, progress, bounds>>

EasyRuns == writer \in {"pool", "serial"} /\ saving = "no"

TextOf(i) == IF i \in Illegible THEN "blank" ELSE i

(* _merge_result: a date found before is kept.                             *)
Merged(recs, i, text) ==
  [recs EXCEPT ![i].easy = text,
               ![i].date = IF @ = "none" /\ i \in EasyDated THEN "easyocr" ELSE @]

(* The results come in any order; a minute may have passed since the last  *)
(* save or not.                                                            *)
EasyReads(i) ==
  /\ EasyRuns /\ i \in todo
  /\ img[i] = "whole"
  /\ mem' = Merged(mem, i, TextOf(i)) /\ read' = read \cup {i}
  /\ todo' = todo \ {i}
  /\ BeginSave("more") \/ NoSave
  /\ UNCHANGED <<writer, unflushed, images, dog, progress, bounds>>

EasyFails(i) ==
  /\ EasyRuns /\ i \in todo
  /\ (img[i] # "whole" /\ UNCHANGED faults) \/ Fault
  /\ todo' = todo \ {i}
  /\ NoSave \/ (writer = "pool" /\ BeginSave("more"))
  /\ UNCHANGED <<writer, mem, unflushed, read, images, dog, progress, kills>>

(* After the pool, a last save.                                            *)
LastSave ==
  /\ writer = "pool" /\ BeginSave("last")
  /\ UNCHANGED <<writer, todo, mem, unflushed, read>>

(* With one worker there is none.                                          *)
EasyEnds ==
  /\ EasyRuns /\ todo = {}
  /\ LastSave \/ (writer = "serial" /\ WriterEnds /\ UNCHANGED results)
  /\ UNCHANGED <<images, dog, progress, bounds>>
-----------------------------------------------------------------------------
WatcherOff == [at |-> "off", due |-> {}, count |-> 0]
WatcherPolls == [at |-> "poll", due |-> {}, count |-> 0]

RunWatcher ==
  /\ watcher.at = "off" /\ fired # Thresholds
  /\ watcher' = WatcherPolls
  /\ UNCHANGED <<images, results, writing, dog, fired, git, bullets, bounds>>

EasyCount == Cardinality({i \in DOMAIN file.recs : HasText(file.recs[i])})

(* A file that is not there or can not be parsed ends the watcher.         *)
WatcherReads ==
  /\ watcher.at = "poll"
  /\ watcher' =
       IF file.kind # "whole" THEN WatcherOff
       ELSE [at |-> "fire", count |-> EasyCount,
             due |-> {t \in Thresholds \ fired : 100 * EasyCount >= t * Target}]
  /\ UNCHANGED <<images, results, writing, dog, fired, git, bullets, bounds>>

(* A mutant: a checkpoint that could not be committed is marked all the    *)
(* same.                                                                   *)
MarkAnyway(t) == watcher' = [watcher EXCEPT !.at = "mark"]

(* The commit failed: the threshold is left for the next poll.             *)
LeaveDue(t) == watcher' = [watcher EXCEPT !.due = @ \ {t}]

(* fire_checkpoint: the CHANGELOG line, unless it is there, and the commit.*)
FireCheckpoint ==
  /\ watcher.at = "fire" /\ watcher.due # {}
  /\ LET t == Min(watcher.due)
     IN  /\ bullets' = [bullets EXCEPT ![t] = IF @ = 0 THEN 1 ELSE @]
         /\ \/ /\ git' = git \cup {<<t, watcher.count>>}
               /\ watcher' = [watcher EXCEPT !.at = "mark"]
               /\ UNCHANGED faults
            \/ Fault /\ LeaveDue(t) /\ UNCHANGED git
  /\ UNCHANGED <<images, results, writing, dog, fired, kills>>

MarkFired ==
  /\ watcher.at = "mark"
  /\ LET t == Min(watcher.due)
     IN  /\ fired' = fired \cup {t}
         /\ watcher' = [watcher EXCEPT !.at = "fire", !.due = @ \ {t}]
  /\ UNCHANGED <<images, results, writing, dog, git, bullets, bounds>>

WatcherSleeps ==
  /\ watcher.at = "fire" /\ watcher.due = {}
  /\ watcher' = IF fired = Thresholds THEN WatcherOff ELSE WatcherPolls
  /\ UNCHANGED <<images, results, writing, dog, fired, git, bullets, bounds>>
-----------------------------------------------------------------------------
Kill ==
  /\ kills < MaxKills /\ kills' = kills + 1
  /\ \/ /\ writer # "none" /\ WriterDies
        /\ UNCHANGED <<dl, watcher>>
     \/ /\ dl # "off" /\ dl' = "off"
        /\ UNCHANGED <<watcher, writing, cut>>
     \/ /\ watcher.at # "off" /\ watcher' = WatcherOff
        /\ UNCHANGED <<dl, writing, cut>>
  /\ UNCHANGED <<img, asked, file, best, sliced, ever, dog, fired, git, bullets, faults>>

Downloading ==
  \/ Download \/ TileWritten \/ DownloadEnds
  \/ \E i \in Images : SkipTile(i) \/ FetchTile(i)

Reading ==
  \/ RunPilot \/ PilotEnds \/ RunEasy \/ EasyEnds \/ FinishSave
  \/ \E i \in Images : PilotReads(i) \/ EasyReads(i) \/ EasyFails(i)

Dog == DogChecks \/ DogRestarts \/ DogGivesUp \/ DogPolls

Watching ==
  RunWatcher \/ WatcherReads \/ FireCheckpoint \/ MarkFired \/ WatcherSleeps

Next == Downloading \/ Reading \/ RunDog \/ Dog \/ Watching \/ Kill

Spec == Init /\ [][Next]_vars

(* The watchdog's loop goes on, whatever the OCR process does.             *)
FairSpec == Spec /\ WF_vars(Dog)
-----------------------------------------------------------------------------
Record == [ocr : {"ok", "error"}, date : {"none", "tesseract", "easyocr"},
           easy : {"none", "blank"} \cup Images]

IsRecords(r) == DOMAIN r \subseteq Images /\ \A i \in DOMAIN r : r[i] \in Record

ImageTypes ==
  /\ img \in [Images -> {"absent", "part", "whole"}]
  /\ dl \in {"off", "on"} \cup Images /\ asked \subseteq Images
  /\ kills \in Nat /\ faults \in Nat

FileTypes ==
  /\ file.kind \in {"absent", "torn", "whole"} /\ {cut, sliced} \subseteq BOOLEAN
  /\ ever \subseteq Images
  /\ IsRecords(file.recs) /\ IsRecords(mem) /\ IsRecords(best)
  /\ writer \in {"none", "pilot", "pool", "serial"}
  /\ saving \in {"no", "more", "last"}
  /\ saving # "no" => writer # "none" /\ file = Torn
  /\ todo \subseteq Images /\ read \subseteq Images /\ unflushed \in Nat

DogTypes ==
  dog \in [at : {"off", "check", "poll"}, idle : Nat, restarts : Nat, last : Nat]

WatcherTypes ==
  /\ watcher \in [at : {"off", "poll", "fire", "mark"}, due : SUBSET Thresholds,
                 count : Nat]
  /\ fired \subseteq Thresholds /\ git \subseteq Thresholds \X Nat
  /\ bullets \in [Thresholds -> {0, 1}]

(* Every variable keeps its type; a file being saved is torn.              *)
TypeOK == ImageTypes /\ FileTypes /\ DogTypes /\ WatcherTypes

Kept(old, new) ==
  \A i \in DOMAIN old :
    /\ i \in DOMAIN new
    /\ old[i].date # "none" => new[i].date = old[i].date
    /\ HasText(old[i]) => new[i].easy = old[i].easy

(* What a whole results file held is in the next one: records, dates and   *)
(* texts survive the resumes of the pilot, restarts by the watchdog, passes*)
(* over slices the guard knows, and each other.  Two writes only may lose  *)
(* something: the first after a save was cut short, and those of a pass    *)
(* over a slice large enough to pass the guard (red_ink_ocr_pilot.py       *)
(* resume, easyocr_pass.py guard and merge).                               *)
NothingDoneIsLost ==
  [][file'.kind = "whole" /\ ~Kept(best, file'.recs) => cut \/ sliced]_vars

EasyPassEnds == writer \in {"pool", "serial"} /\ writer' = "none"

(* When an EasyOCR pass with several workers ends, the file holds for each *)
(* image it has read the text of that image, and the date it found or that *)
(* was there (_merge_result by index, the forced save).                    *)
FinishedPassIsSaved ==
  [][EasyPassEnds /\ writer = "pool" /\ kills' = kills =>
       /\ file'.kind = "whole"
       /\ \A i \in read : /\ i \in DOMAIN file'.recs
                          /\ file'.recs[i].easy = TextOf(i)
                          /\ i \in EasyDated => file'.recs[i].date # "none"]_vars

(* What an EasyOCR pass has read and not saved is read again by the next   *)
(* one, when the pass is killed, and when it ends with one worker and so   *)
(* without a last save.                                                    *)
UnsavedIsReadAgain ==
  [][EasyPassEnds /\ file'.kind = "whole" =>
       \A i \in read : \/ i \in Targets(file'.recs)
                       \/ i \in DOMAIN file'.recs /\ file'.recs[i].easy = TextOf(i)]_vars

(* What was done is kept: by every later pass, and by the one that did it, *)
(* or it is done again.                                                    *)
WorkIsKept == NothingDoneIsLost /\ FinishedPassIsSaved /\ UnsavedIsReadAgain

(* Whatever a kill inside a save or a slice written over the file has cost,*)
(* the pilot brings the dates of Tesseract back: when it is through, every *)
(* date a whole file ever held is there, up to one for each reading that   *)
(* failed (red_ink_ocr_pilot.py resume from a file it can not parse).      *)
DatesAreReread ==
  [][writer = "pilot" /\ saving = "last" /\ file'.kind = "whole" =>
       Cardinality(ever \ TessOf(file'.recs)) <= faults]_vars

(* A threshold marked as fired has been committed with a count that reaches*)
(* it, and has one line in the CHANGELOG, also when the watcher dies       *)
(* between the commit and the mark (easyocr_checkpoint.py).                *)
FiredIsCommitted ==
  \A t \in fired :
    /\ bullets[t] = 1
    /\ \E c \in git : c[1] = t /\ 100 * c[2] >= t * Target

(* The watchdog returns even if the OCR process hangs or dies again and    *)
(* again (idle cycles, --max-restarts).                                    *)
WatchdogReturns == dog.at # "off" ~> dog.at = "off"

(* red_ink_ocr_pilot.py: a crash in the middle of the run loses no work.   *)
CrashKeepsFlushedWork == [][file'.kind = "whole" => Kept(best, file'.recs)]_vars

(* easyocr_pass.py --workers: results are saved per record, kill-safe.     *)
ReadingsAreSaved ==
  [][EasyPassEnds =>
       \A i \in read : i \in DOMAIN file'.recs /\ file'.recs[i].easy = TextOf(i)]_vars
=============================================================================
