------------------------------- MODULE Viewer -------------------------------
(***************************************************************************)
(* The offline viewer of the pension cards: built as a tree of pages with  *)
(* copies of the images, a directory per surname letter                    *)
(* (ingest/build_pensioncard_viewer.py), and packed into archives, one per *)
(* letter or in parts of a size (ingest/distribute_pension_viewer.py).     *)
(* New images arrive between the runs, a run is killed or fails, and is    *)
(* started again.  The operator runs one of them at a time.                *)
(***************************************************************************)
EXTENDS Integers, FiniteSets, Sequences, FiniteSetsExt, SequencesExt

CONSTANTS
  People,     \* the pensioners in order: records of card, last and raw name
  Dated,      \* the cards the enrichment report has a death date for
  CardOf,     \* the card of each image file
  Early,      \* the images that are there from the start
  Letters,    \* the letters names begin with
  PartSize,   \* files in a part, of --split
  PartNames,  \* the names of the parts
  MaxBuilds, MaxKills, MaxFailures  \* bounds

Orphan == "_"

(* What the constants must be; assumed where they get their values.  The   *)
(* names are those of different files; a part has a name of its own,       *)
(* however many there are: each image may be packed twice, for its card    *)
(* and beside its page.                                                    *)
ViewerAssumption ==
  /\ IsFiniteSet(DOMAIN CardOf) /\ IsFiniteSet(Letters)
  /\ Early \subseteq DOMAIN CardOf /\ {Orphan, "index"} \cap Letters = {}
  /\ PartSize \in Nat \ {0}
  /\ PartNames \in Seq(STRING) /\ IsInjective(PartNames)
  /\ ToSet(PartNames) \cap (Letters \cup {Orphan, "index"}) = {}
  /\ Cardinality(({"card", "pic"} \X DOMAIN CardOf) \cup {<<"all", "all">>}
                   \cup ({"page"} \X (Letters \cup {Orphan})))
       <= Len(PartNames) * PartSize
  /\ {MaxBuilds, MaxKills, MaxFailures} \subseteq Nat

VARIABLES
  img,      \* data/cards/img
  builds,   \* builds begun: the number of the one under way or last
  bpc,      \* the builder: "off", "letters" or "index"
  byLetter, \* in its memory: the records of each letter
  tree,     \* viewer/letters: per letter its page's records, its images
  all,      \* all.json: the letter of each card
  mode,     \* the archives: "letters" or "parts"
  plan,     \* those still to write, each with its files where these are known
  open,     \* the files still to add to the archive being written
  partial,  \* the .partial files: "none", "torn" or "closed", and entries
  dirty,    \* whether the one being written has been written to
  zips,     \* the finished archives
  zpc,      \* the packer: "off", "next", "adding" or "done"
  resumed,  \* whether the one being written goes on from a partial file
  asked,    \* history: the entries this run of the packer set out to write
  packed,   \* history: the archives it finished, each with its resumed
  kills, failures

building == <<builds, bpc, byLetter, tree, all>>
packing == <<plan, open, partial, dirty, zips, zpc, resumed, asked, packed>>
vars == <<img, building, mode, packing, kills, failures>>

Images == DOMAIN CardOf
Places == Letters \cup {Orphan}
NoPage == [page |-> {}, pics |-> {}, build |-> 0]
NoPartial == [state |-> "none", entries |-> <<>>]
Torn == [state |-> "torn", entries |-> <<>>]
-----------------------------------------------------------------------------
(* The builder.  Of several pensioners with one card the last is taken.    *)
PersonOf(card) ==
  People[Max({k \in DOMAIN People : People[k].card = card})]

(* The letter of the last name, or of the raw name if there is none; a     *)
(* name that begins with none of the letters, or is only a title, goes to  *)
(* the orphans.                                                            *)
LetterOf(p) ==
  LET initial == IF p.last # "" THEN p.last ELSE p.raw
  IN IF initial \in Letters THEN initial ELSE Orphan

ImagesOf(card) == {i \in img : CardOf[i] = card}

(* load_data: the cards that have an image or a date.                      *)
Records ==
  {[card |-> c, letter |-> LetterOf(PersonOf(c)), images |-> ImagesOf(c)] :
     c \in {d \in {People[k].card : k \in DOMAIN People} :
              ImagesOf(d) # {} \/ d \in Dated}}

(* group_by_letter, and --letters, which always keeps the orphans.         *)
GroupByLetter(wanted) ==
  LET kept == {r \in Records : r.letter \in wanted \cup {Orphan}}
  IN [l \in {r.letter : r \in kept} |-> {r \in kept : r.letter = l}]

(* The letters are wiped before anything is read.                          *)
BuildStarts(wanted) ==
  /\ bpc = "off" /\ zpc \in {"off", "done"} /\ builds < MaxBuilds
  /\ builds' = builds + 1
  /\ byLetter' = GroupByLetter(wanted)
  /\ bpc' = "letters"
  /\ tree' = [l \in {} |-> NoPage] /\ zpc' = "off"
  /\ UNCHANGED <<img, all, mode, plan, open, partial, dirty, zips, resumed,
                 asked, packed, kills, failures>>

(* place_letter_files: the page of a letter, and then copies of its images *)
(* one by one.                                                             *)
Shows(l) == UNION {r.images : r \in byLetter[l]}
ToCopy ==
  {e \in (DOMAIN tree) \X img : e[2] \in Shows(e[1]) \ tree[e[1]].pics}

PlacePage ==
  /\ bpc = "letters" /\ ToCopy = {} /\ DOMAIN byLetter # DOMAIN tree
  /\ LET l == CHOOSE l \in DOMAIN byLetter \ DOMAIN tree : TRUE
         bare == [page |-> byLetter[l], build |-> builds, pics |-> {}]
     IN tree' = [k \in DOMAIN tree \cup {l} |->
                   IF k = l THEN bare ELSE tree[k]]
  /\ UNCHANGED <<img, builds, bpc, byLetter, all, mode, packing, kills,
                 failures>>

CopyImage ==
  /\ bpc = "letters" /\ ToCopy # {}
  /\ LET e == CHOOSE e \in ToCopy : TRUE
     IN tree' = [tree EXCEPT ![e[1]].pics = @ \cup {e[2]}]
  /\ UNCHANGED <<img, builds, bpc, byLetter, all, mode, packing, kills,
                 failures>>

WriteAllJson ==
  /\ bpc = "letters" /\ bpc' = "index"
  /\ DOMAIN tree = DOMAIN byLetter /\ ToCopy = {}
  /\ all' = [c \in {r.card : r \in UNION {byLetter[l] : l \in DOMAIN byLetter}}
               |-> (CHOOSE r \in UNION {byLetter[l] : l \in DOMAIN byLetter} :
                      r.card = c).letter]
  /\ UNCHANGED <<img, builds, byLetter, tree, mode, packing, kills, failures>>

RenderIndex ==
  /\ bpc = "index" /\ bpc' = "off" /\ byLetter' = <<>>
  /\ UNCHANGED <<img, builds, tree, all, mode, packing, kills, failures>>

KillBuilder ==
  /\ bpc # "off" /\ kills < MaxKills
  /\ bpc' = "off" /\ byLetter' = <<>> /\ kills' = kills + 1
  /\ UNCHANGED <<img, builds, tree, all, mode, packing, failures>>

ImageArrives(i) ==
  /\ i \notin img /\ img' = img \cup {i}
  /\ UNCHANGED <<building, mode, packing, kills, failures>>
-----------------------------------------------------------------------------
(* The packer.  An entry is a file with the build it comes from, whole or  *)
(* cut short.                                                              *)
Entry(kind, name, b) == [kind |-> kind, name |-> name, build |-> b, cut |-> FALSE]
Key(e) == <<e.kind, e.name>>
Keys(entries) == {Key(entries[k]) : k \in DOMAIN entries}

Pages(l) ==
  IF l \in DOMAIN tree
  THEN {Entry("page", l, tree[l].build)}
         \cup {Entry("pic", i, 0) : i \in tree[l].pics}
  ELSE {}
Shared == {Entry("all", "all", 0)}

(* collect_files_for_letter warns of what is missing and goes on.          *)
CollectFilesForLetter(l) == Pages(l) \cup Shared

(* collect_index_files: every page and no image.                           *)
CollectIndexFiles ==
  {e \in UNION {Pages(l) : l \in DOMAIN tree} : e.kind # "pic"} \cup Shared

FilesOf(name) ==
  IF name = "index" THEN CollectIndexFiles ELSE CollectFilesForLetter(name)

(* iter_files: the images of the cards, and the viewer with its copies.    *)
IterFiles ==
  {Entry("card", i, 0) : i \in img}
    \cup (UNION {Pages(l) : l \in DOMAIN tree}) \cup Shared

(* Files of one size, taken as they are listed: a part is closed by the    *)
(* file that would exceed it.                                              *)
Parts(files) ==
  LET n == Cardinality(files)
      left[k \in 0 .. n] ==
        IF k = 0 THEN files
        ELSE left[k - 1] \ {CHOOSE e \in left[k - 1] : TRUE}
      after(k) == left[Min({n, k * PartSize})]
  IN [k \in 1 .. Min({m \in 0 .. n : n <= m * PartSize}) |->
        [name |-> PartNames[k], files |-> after(k - 1) \ after(k)]]

(* The letters the images on disk have in all.json; the directory of an    *)
(* image that is not in it is that of the orphans.                         *)
LettersPresent ==
  {IF CardOf[i] \in DOMAIN all THEN all[CardOf[i]] ELSE Orphan : i \in img}

(* Without all.json, or any letter, there is nothing to pack.              *)
PackStarts(wanted) ==
  /\ bpc = "off" /\ zpc \in {"off", "done"} /\ builds > 0
  /\ LET names == LettersPresent \cap wanted
         order == Append(SetToSeq(names), "index")
     IN IF mode = "letters"
        THEN /\ DOMAIN all # {} /\ names # {}
             /\ plan' = [k \in DOMAIN order |-> [name |-> order[k], files |-> {}]]
             /\ asked' = UNION {FilesOf(name) : name \in names \cup {"index"}}
        ELSE /\ wanted = Places /\ plan' = Parts(IterFiles)
             /\ asked' = IterFiles
  /\ zpc' = "next" /\ open' = {} /\ dirty' = FALSE /\ resumed' = FALSE
  /\ packed' = {}
  /\ UNCHANGED <<img, building, mode, partial, zips, kills, failures>>

(* A mutant: entries that are in the partial file are added again.         *)
NotSkipped(files, entries) == files

Missing(files, entries) ==
  {e \in files : Key(e) \notin Keys(entries)}

(* A partial file that is an archive is continued; one that is torn is     *)
(* removed.                                                                *)
OpenPartial ==
  /\ zpc = "next" /\ plan # <<>> /\ zpc' = "adding"
  /\ LET p == Head(plan).name
         found == IF partial[p].state = "closed" THEN partial[p].entries
                  ELSE <<>>
         files == IF mode = "letters" THEN FilesOf(p) ELSE Head(plan).files
     IN /\ open' = Missing(files, found)
        /\ dirty' = (partial[p].state # "closed")
        /\ partial' = [partial EXCEPT ![p] =
                         [state |-> "closed", entries |-> found]]
        /\ resumed' = (found # <<>>)
  /\ UNCHANGED <<img, building, mode, plan, zips, asked, packed, kills, failures>>

AddEntry ==
  /\ zpc = "adding" /\ open # {}
  /\ LET e == CHOOSE e \in open : TRUE
     IN /\ partial' = [partial EXCEPT ![Head(plan).name].entries = Append(@, e)]
        /\ open' = open \ {e}
  /\ dirty' = TRUE
  /\ UNCHANGED <<img, building, mode, plan, zips, zpc, resumed, asked, packed,
                 kills, failures>>

(* The finished file is put in place of an older one.                      *)
FinishZip ==
  /\ zpc = "adding" /\ open = {}
  /\ LET p == Head(plan).name
     IN /\ zips' = [zips EXCEPT ![p] = partial[p].entries]
        /\ partial' = [partial EXCEPT ![p] = NoPartial]
        /\ packed' = {e \in packed : e[1] # p} \cup {<<p, resumed>>}
  /\ plan' = Tail(plan) /\ zpc' = IF plan' = <<>> THEN "done" ELSE "next"
  /\ dirty' = FALSE
  /\ UNCHANGED <<img, building, mode, open, resumed, asked, kills, failures>>

PackerStops == zpc' = "off" /\ plan' = <<>> /\ open' = {} /\ dirty' = FALSE

(* A file can not be opened, or what is read of it breaks off midway: the  *)
(* archive is closed on the way out, and names what it has of the file.    *)
AddRaises ==
  /\ zpc = "adding" /\ open # {} /\ failures < MaxFailures
  /\ failures' = failures + 1 /\ PackerStops
  /\ LET e == CHOOSE e \in open : TRUE
     IN \/ UNCHANGED partial
        \/ partial' = [partial EXCEPT ![Head(plan).name].entries =
                         Append(@, [e EXCEPT !.cut = TRUE])]
  /\ UNCHANGED <<img, building, mode, zips, resumed, asked, packed, kills>>

(* An archive has its directory at its end, which is written when it is    *)
(* closed: one that was being written to is torn.                          *)
KillPacker ==
  /\ zpc \in {"next", "adding"} /\ kills < MaxKills
  /\ kills' = kills + 1 /\ PackerStops
  /\ partial' = IF zpc = "adding" /\ dirty
                THEN [partial EXCEPT ![Head(plan).name] = Torn] ELSE partial
  /\ UNCHANGED <<img, building, mode, zips, resumed, asked, packed, failures>>
-----------------------------------------------------------------------------
Init ==
  /\ img = Early /\ mode \in {"letters", "parts"}
  /\ builds = 0 /\ bpc = "off" /\ byLetter = <<>>
  /\ tree = [l \in {} |-> NoPage] /\ all = [c \in {} |-> Orphan]
  /\ plan = <<>> /\ open = {} /\ dirty = FALSE /\ zpc = "off"
  /\ resumed = FALSE /\ asked = {} /\ packed = {}
  /\ partial = [p \in Places \cup {"index"} \cup ToSet(PartNames) |-> NoPartial]
  /\ zips = [p \in DOMAIN partial |-> <<>>]
  /\ kills = 0 /\ failures = 0

Next ==
  \/ \E wanted \in {Places} \cup {{l} : l \in Letters} :
       BuildStarts(wanted) \/ PackStarts(wanted)
  \/ PlacePage \/ CopyImage \/ WriteAllJson \/ RenderIndex \/ KillBuilder
  \/ \E i \in Images : ImageArrives(i)
  \/ OpenPartial \/ AddEntry \/ FinishZip \/ AddRaises \/ KillPacker

Spec == Init /\ [][Next]_vars
-----------------------------------------------------------------------------
NoneTwice(entries) ==
  \A j, k \in DOMAIN entries : j # k => Key(entries[j]) # Key(entries[k])

(* However often packing was broken off, failed and was started again over *)
(* what it left, with images and builds in between: no finished archive    *)
(* has a file twice; an archive this run has finished has every file of    *)
(* its letter, or of the index, under its name; one that was begun anew    *)
(* has nothing else than the present files, whole; and when it is done its *)
(* parts have every file there was when it began.                          *)
ArchivesAreWhole ==
  /\ \A p \in DOMAIN zips : NoneTwice(zips[p])
  /\ zpc # "off" =>
       \A e \in packed :
         /\ mode = "letters" =>
              \A f \in FilesOf(e[1]) : Key(f) \in Keys(zips[e[1]])
         /\ e[2] \/ ToSet(zips[e[1]]) \subseteq asked
  /\ zpc = "done" /\ mode = "parts" =>
       \A f \in asked : \E e \in packed : Key(f) \in Keys(zips[e[1]])

(* distribute_pension_viewer.py:23-26: an archive is renamed "on           *)
(* successful close" only, and a run after a crash "picks up where it left *)
(* off": no file of a finished archive is cut short.                       *)
NoneIsCut == \A p \in DOMAIN zips : \A e \in ToSet(zips[p]) : ~e.cut

(* distribute_pension_viewer.py:31-36: the archive of a letter has the     *)
(* matching page: the one there is, in every archive this run finished.    *)
PagesMatch ==
  zpc # "off" /\ mode = "letters" =>
    \A e \in packed : {f \in FilesOf(e[1]) : f.kind = "page"} \subseteq ToSet(zips[e[1]])
=============================================================================
