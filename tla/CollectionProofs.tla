-------------------------- MODULE CollectionProofs --------------------------
(***************************************************************************)
(* Theorems about the programs of Collections.  Each one's own             *)
(* specification has its properties, whatever the others do.               *)
(***************************************************************************)
EXTENDS Collections, TLAPS, FiniteSetTheorems, WellFoundedInduction
-----------------------------------------------------------------------------
(* The overlay.  The images there are of the records.                      *)
Images ==
  {<<r, "card", i>> : r \in DOMAIN PageCount, i \in Nat}
    \cup {<<r, "application", 0>> : r \in WithApp}

PageThere(r, i) == i < PageCount[r]

LightboxTypes ==
  /\ box \in [rec : DOMAIN PageCount \cup {L!None}, idx : Nat,
              view : {L!None, "card", "application"}]
  /\ box.rec # L!None => PageThere(box.rec, box.idx)
  /\ frames \in Nat /\ late \subseteq Images
  /\ loading \in Seq(Images) /\ shown \in Images \cup {L!NoMap}

(* Once no mount waits, what loads or is shown is the image chosen or was  *)
(* loading when that was mounted.                                          *)
MountedInv ==
  box.rec # L!None /\ frames = 0 =>
    L!ToSet(loading) \cup {shown} \subseteq {L!NoMap, L!ImgPath(box)} \cup late

LEMMA PageFacts ==
  ASSUME L!LightboxAssumption, NEW r \in DOMAIN PageCount
  PROVE  PageCount[r] \in Nat \ {0}
BY DEF L!LightboxAssumption

(* The path of a choice is of an image there is.                           *)
LEMMA PathOf ==
  ASSUME NEW b \in [rec : DOMAIN PageCount, idx : Nat,
                    view : {L!None, "card", "application"}]
  PROVE  L!ImgPath(b) \in Images
BY DEF L!ImgPath, L!HasApplication, Images

LEMMA RemoveFacts ==
  ASSUME NEW T, NEW s \in Seq(T), NEW n \in DOMAIN s
  PROVE  RemoveAt(s, n) \in Seq(T) /\ L!ToSet(RemoveAt(s, n)) \subseteq L!ToSet(s)
<1> DEFINE before == SubSeq(s, 1, n - 1)
           behind == SubSeq(s, n + 1, Len(s))
<1>1. n \in Nat /\ Len(s) \in Nat /\ DOMAIN s = 1 .. Len(s) OBVIOUS
<1>2. /\ before \in Seq(T)
      /\ \A k \in DOMAIN before : k \in DOMAIN s /\ before[k] = s[k]
  BY <1>1
<1>3. behind \in Seq(T) BY <1>1
<1>3a. \A k \in DOMAIN behind : k + n \in DOMAIN s /\ behind[k] = s[k + n]
  BY <1>1
<1>4. RemoveAt(s, n) = before \o behind BY DEF RemoveAt
<1> HIDE DEF before, behind
<1>5. \A k \in DOMAIN (before \o behind) :
        \/ k \in DOMAIN before /\ (before \o behind)[k] = before[k]
        \/ /\ k - Len(before) \in DOMAIN behind
           /\ (before \o behind)[k] = behind[k - Len(before)]
  BY <1>2, <1>3
<1>6. L!ToSet(before \o behind) \subseteq L!ToSet(s)
  BY <1>2, <1>3a, <1>5 DEF L!ToSet
<1> QED BY <1>2, <1>3, <1>4, <1>6

LEMMA LightboxStarts ==
  ASSUME L!Init PROVE LightboxTypes /\ MountedInv
<1>1. <<>> \in Seq(Images) OBVIOUS
<1> QED BY <1>1 DEF L!Init, L!Closed, LightboxTypes, MountedInv

LEMMA MountStep ==
  ASSUME NEW b, LightboxTypes, L!Mount(b), b.rec # L!None,
         b \in [rec : DOMAIN PageCount \cup {L!None}, idx : Nat,
                view : {L!None, "card", "application"}]
  PROVE  /\ loading' \in Seq(Images) /\ shown' = L!NoMap /\ late' \subseteq Images
         /\ L!ToSet(loading') \subseteq {L!ImgPath(b)} \cup late'
<1> DEFINE path == L!ImgPath(b)
<1>1. path \in Images BY PathOf
<1>2. /\ shown' = L!NoMap /\ late' = L!ToSet(loading)
      /\ loading' = Append(loading, path) /\ loading \in Seq(Images)
  BY DEF LightboxTypes, L!Mount, L!RemoveMap
<1> HIDE DEF path
<1>3. Append(loading, path) \in Seq(Images) BY <1>1, <1>2
<1>4. L!ToSet(loading) \subseteq Images BY <1>2 DEF L!ToSet
<1>5. L!ToSet(Append(loading, path)) \subseteq {path} \cup L!ToSet(loading)
  BY <1>1, <1>2 DEF L!ToSet
<1> QED BY <1>2, <1>3, <1>4, <1>5 DEF path

LEMMA OpenStep ==
  ASSUME L!LightboxAssumption, LightboxTypes, NEW r \in DOMAIN PageCount, NEW i \in Nat,
         L!OpenLightbox(r, i), PageThere(r, i)
  PROVE  LightboxTypes' /\ MountedInv'
BY DEF LightboxTypes, MountedInv, L!OpenLightbox, PageThere

(* Each step of the overlay keeps its types and what loads.                *)
LEMMA LightboxStep ==
  ASSUME L!LightboxAssumption, LightboxTypes, MountedInv, [L!Next]_L!vars
  PROVE  LightboxTypes' /\ MountedInv'
<1>1. CASE L!ClickThumb
  <2>1. PICK r \in DOMAIN PageCount : \E i \in 0 .. PageCount[r] - 1 :
               L!OpenLightbox(r, i)
    BY <1>1 DEF L!ClickThumb
  <2>2. PICK i \in 0 .. PageCount[r] - 1 : L!OpenLightbox(r, i) BY <2>1
  <2>3. i \in Nat /\ PageThere(r, i) BY <2>2, PageFacts DEF PageThere
  <2> QED BY <2>2, <2>3, OpenStep
<1>2. ASSUME NEW delta \in {1, -1}, L!Step(delta) PROVE LightboxTypes' /\ MountedInv'
  <2> DEFINE r == box.rec
             i == (box.idx + delta + PageCount[r]) % PageCount[r]
  <2>1. r \in DOMAIN PageCount /\ L!OpenLightbox(r, i)
    BY <1>2 DEF L!Step, LightboxTypes
  <2>2. PageCount[r] \in Nat \ {0} BY <2>1, PageFacts
  <2>3. i \in Nat /\ i < PageCount[r] BY <2>2 DEF LightboxTypes
  <2>4. PageThere(r, i) BY <2>3 DEF PageThere
  <2> HIDE DEF i
  <2> QED BY <2>1, <2>3, <2>4, OpenStep
<1>3. ASSUME NEW target \in {"card", "application"}, L!SwitchView(target)
      PROVE LightboxTypes' /\ MountedInv'
  <2>1. /\ box' \in [rec : DOMAIN PageCount \cup {L!None}, idx : Nat,
                     view : {L!None, "card", "application"}]
        /\ box'.rec = box.rec /\ box'.idx = box.idx /\ box.rec # L!None
    BY <1>3 DEF L!SwitchView, LightboxTypes
  <2>2. L!Mount(box') /\ frames' = frames BY <1>3 DEF L!SwitchView
  <2>3. /\ loading' \in Seq(Images) /\ shown' = L!NoMap /\ late' \subseteq Images
        /\ L!ToSet(loading') \subseteq {L!ImgPath(box')} \cup late'
    <3> DEFINE b == box'
    <3>1. /\ L!Mount(b) /\ b.rec # L!None
          /\ b \in [rec : DOMAIN PageCount \cup {L!None}, idx : Nat,
                    view : {L!None, "card", "application"}]
      BY <2>1, <2>2
    <3> HIDE DEF b
    <3>2. /\ loading' \in Seq(Images) /\ shown' = L!NoMap /\ late' \subseteq Images
          /\ L!ToSet(loading') \subseteq {L!ImgPath(b)} \cup late'
      BY <3>1, MountStep
    <3> QED BY <3>2 DEF b
  <2>4. L!ImgPath(box)' = L!ImgPath(box') BY DEF L!ImgPath, L!HasApplication
  <2> QED BY <2>1, <2>2, <2>3, <2>4 DEF LightboxTypes, MountedInv, PageThere, L!ToSet
<1>4. CASE L!CloseLightbox
  BY <1>4 DEF L!CloseLightbox, L!Closed, LightboxTypes, MountedInv
<1>5. CASE L!NextFrame
  <2>1. frames' \in Nat /\ box' = box /\ L!Mount(box)
    BY <1>5 DEF L!NextFrame, LightboxTypes
  <2>2. CASE box.rec = L!None
    BY <2>1, <2>2 DEF L!Mount, LightboxTypes, MountedInv, PageThere
  <2>3. CASE box.rec # L!None
    <3>1. /\ loading' \in Seq(Images) /\ shown' = L!NoMap /\ late' \subseteq Images
          /\ L!ToSet(loading') \subseteq {L!ImgPath(box)} \cup late'
      BY <2>1, <2>3, MountStep DEF LightboxTypes
    <3> QED
      BY <2>1, <3>1
      DEF LightboxTypes, MountedInv, PageThere, L!ImgPath, L!HasApplication, L!ToSet
  <2> QED BY <2>2, <2>3
<1>6. ASSUME NEW n \in DOMAIN loading, L!Loaded(n) \/ L!LoadFails(n)
      PROVE LightboxTypes' /\ MountedInv'
  <2>1. /\ loading' = RemoveAt(loading, n) /\ UNCHANGED <<box, frames, late>>
        /\ shown' = shown \/ shown' = loading[n]
    <3>1. CASE L!Loaded(n) BY <3>1 DEF L!Loaded, L!RemoveAt, RemoveAt
    <3>2. CASE L!LoadFails(n) BY <3>2 DEF L!LoadFails, L!RemoveAt, RemoveAt
    <3> QED BY <1>6, <3>1, <3>2
  <2>2. /\ loading' \in Seq(Images) /\ L!ToSet(loading') \subseteq L!ToSet(loading)
        /\ loading[n] \in Images /\ loading[n] \in L!ToSet(loading)
    <3>1. loading \in Seq(Images) /\ n \in DOMAIN loading BY <1>6 DEF LightboxTypes
    <3>2. loading[n] \in Images BY <3>1
    <3>3. loading[n] \in L!ToSet(loading) BY <3>1 DEF L!ToSet
    <3>4. /\ RemoveAt(loading, n) \in Seq(Images)
          /\ L!ToSet(RemoveAt(loading, n)) \subseteq L!ToSet(loading)
      BY <3>1, RemoveFacts
    <3> QED BY <2>1, <3>2, <3>3, <3>4
  <2>3. LightboxTypes' BY <2>1, <2>2 DEF LightboxTypes, PageThere
  <2>4. L!ToSet(loading)' = L!ToSet(loading') BY DEF L!ToSet
  <2>5. MountedInv'
    BY <2>1, <2>2, <2>4 DEF MountedInv, L!ImgPath, L!HasApplication
  <2> QED BY <2>3, <2>5
<1>7. CASE UNCHANGED L!vars
  BY <1>7 DEF L!vars, LightboxTypes, MountedInv, PageThere, L!ImgPath, L!HasApplication,
              L!ToSet
<1> QED BY <1>1, <1>2, <1>3, <1>4, <1>5, <1>6, <1>7 DEF L!Next, L!HandleKey

(* What the overlay opens, loads and shows is there, however the reader    *)
(* steps through the pages (LETTER_APP_JS of build_pensioncard_viewer.py). *)
THEOREM OverlayTypes == L!Spec => []LightboxTypes
<1>1. L!Init => LightboxTypes /\ MountedInv
  BY LightboxStarts
<1>2. LightboxTypes /\ MountedInv /\ [L!Next]_L!vars => LightboxTypes' /\ MountedInv'
  BY CollectionsAssumption, LightboxStep
<1> QED BY <1>1, <1>2, PTL DEF L!Spec

(* NothingOldIsShown: however fast the reader chooses, once the choice is  *)
(* mounted the overlay shows it or an image that was still loading then,   *)
(* and nothing that was loaded before (mountLeaflet tears that down).      *)
THEOREM OldImagesStayAway == L!Spec => []NothingOldIsShown
<1>1. L!Init => LightboxTypes /\ MountedInv
  BY LightboxStarts
<1>2. LightboxTypes /\ MountedInv /\ [L!Next]_L!vars => LightboxTypes' /\ MountedInv'
  BY CollectionsAssumption, LightboxStep
<1>3. LightboxTypes /\ MountedInv => NothingOldIsShown
  BY DEF MountedInv, NothingOldIsShown, L!NothingOldIsShown
<1> QED BY <1>1, <1>2, <1>3, PTL DEF L!Spec
-----------------------------------------------------------------------------
(* The tools that fetch.  The output has the shape it is read by; only the *)
(* tools that append leave a whole line without its newline.               *)
DiskShape ==
  /\ tool \in Tools
  /\ disk = [recs |-> disk.recs, tail |-> disk.tail]
  /\ disk.recs \in Seq(ToSet(disk.recs))
  /\ disk.tail \in {NoTail, Part} \/ (Appends /\ \E r : disk.tail = Glued(r))

(* A tool that rewrites its file has in memory what the file has.          *)
MemoryInv ==
  /\ IsFiniteSet(mem)
  /\ WholeFile /\ pc \in {"fetch", "saving", "final"} => Readable \subseteq mem

(* A line or an image is written where there is none yet.                  *)
WriteInv ==
  ~WholeFile =>
    /\ pc \in {"fetch", "saving"} => todo \cap Done = {}
    /\ pc = "saving" => cur.item \notin Done \cup todo
    /\ pc # "final"

FetchInv == DiskShape /\ MemoryInv /\ WriteInv

(* What a longer sequence has.                                             *)
LEMMA AppendFacts ==
  ASSUME NEW s, s \in Seq(ToSet(s)), NEW r
  PROVE  /\ ToSet(Append(s, r)) = ToSet(s) \cup {r}
         /\ Append(s, r) \in Seq(ToSet(Append(s, r)))
<1>1. /\ Len(s) \in Nat /\ DOMAIN s = 1 .. Len(s)
      /\ DOMAIN Append(s, r) = 1 .. Len(s) + 1
      /\ \A n \in 1 .. Len(s) : Append(s, r)[n] = s[n]
      /\ Append(s, r)[Len(s) + 1] = r
  OBVIOUS
<1>2. ToSet(Append(s, r)) = ToSet(s) \cup {r} BY <1>1 DEF ToSet
<1>3. s \in Seq(ToSet(s) \cup {r}) OBVIOUS
<1> QED BY <1>2, <1>3

(* Writing an image costs at most what was there of its item.              *)
LEMMA PutFacts ==
  ASSUME NEW s, s \in Seq(ToSet(s)), NEW r
  PROVE  /\ PutImage(s, r) \in Seq(ToSet(PutImage(s, r)))
         /\ ToSet(PutImage(s, r)) \subseteq ToSet(s) \cup {r}
         /\ {o \in ToSet(s) : o.item # r.item} \subseteq ToSet(PutImage(s, r))
<1>1. CASE r.item \in ItemsOf(ToSet(s))
  <2> DEFINE over == [n \in DOMAIN s |-> IF s[n].item = r.item THEN r ELSE s[n]]
  <2>1. PutImage(s, r) = over BY <1>1 DEF PutImage
  <2>2. Len(s) \in Nat /\ DOMAIN s = 1 .. Len(s) OBVIOUS
  <2>3. DOMAIN over = 1 .. Len(s) /\ \A n \in 1 .. Len(s) : over[n] \in ToSet(over)
    BY <2>2 DEF ToSet
  <2>4. over = [n \in 1 .. Len(s) |-> over[n]] BY <2>2
  <2>5. over \in Seq(ToSet(over))
    <3> HIDE DEF over
    <3> QED BY <2>2, <2>3, <2>4
  <2>6. ToSet(over) \subseteq ToSet(s) \cup {r} BY DEF ToSet
  <2>7. {o \in ToSet(s) : o.item # r.item} \subseteq ToSet(over) BY DEF ToSet
  <2> QED BY <2>1, <2>5, <2>6, <2>7
<1>2. CASE r.item \notin ItemsOf(ToSet(s))
  <2>1. PutImage(s, r) = Append(s, r) BY <1>2 DEF PutImage
  <2> QED BY <2>1, AppendFacts
<1> QED BY <1>1, <1>2

(* A whole file has what was in memory.                                    *)
LEMMA SavedFacts ==
  ASSUME NEW recs, IsFiniteSet(recs)
  PROVE  /\ ToSet(SetToSeq(recs)) = recs
         /\ SetToSeq(recs) \in Seq(ToSet(SetToSeq(recs)))
<1> DEFINE n == Cardinality(recs)
           s == SetToSeq(recs)
<1>1. n \in Nat /\ ExistsBijection(1 .. n, recs) BY FS_CardinalityType
<1>2. \E f \in [1 .. n -> recs] : IsInjective(f)
  BY <1>1 DEF ExistsBijection, Bijection, Injection
<1>3. s \in [1 .. n -> recs] /\ IsInjective(s) BY <1>2 DEF SetToSeq
<1> HIDE DEF s
<1>4. IsFiniteSet(1 .. n) /\ Cardinality(1 .. n) = n
  BY <1>1, FS_Interval
<1>5. s \in Injection(1 .. n, recs) BY <1>3 DEF Injection
<1>6. s \in Surjection(1 .. n, recs) BY <1>4, <1>5, FS_Injection
<1>7. ToSet(s) = recs BY <1>3, <1>6 DEF ToSet, Surjection
<1>8. s \in Seq(recs) BY <1>1, <1>3
<1> QED BY <1>7, <1>8 DEF s

LEMMA ReadableFacts ==
  ASSUME DiskShape
  PROVE  /\ ToSet(disk.recs) \subseteq Readable
         /\ disk.tail \in {NoTail, Part} => Readable = ToSet(disk.recs)
         /\ IsFiniteSet(Readable)
<1>1. ToSet(disk.recs) \subseteq Readable BY DEF Readable
<1>2. ASSUME disk.tail \in {NoTail, Part} PROVE Readable = ToSet(disk.recs)
  BY <1>2 DEF Readable, NoTail, Part
<1>3. Readable \subseteq ToSet(disk.recs) \cup {disk.tail[2]} BY DEF Readable
<1>4. IsFiniteSet(ToSet(disk.recs))
  <2> DEFINE s == disk.recs
  <2>1. Len(s) \in Nat /\ DOMAIN s = 1 .. Len(s) BY DEF DiskShape
  <2>2. s \in Surjection(1 .. Len(s), ToSet(s))
    BY <2>1 DEF ToSet, Surjection, DiskShape
  <2>3. IsFiniteSet(1 .. Len(s)) BY <2>1, FS_Interval
  <2> QED BY <2>2, <2>3, FS_Surjection
<1>5. IsFiniteSet(ToSet(disk.recs) \cup {disk.tail[2]}) BY <1>4, FS_AddElement
<1>6. IsFiniteSet(Readable) BY <1>3, <1>5, FS_Subset
<1> QED BY <1>1, <1>2, <1>6

(* What a step may do to the records kept.                                 *)
KeepsRecords ==
  \/ disk.tail # NoTail
  \/ tool = "items" /\ pc' \in {"saving", "final"} /\ Kept \subseteq mem'
  \/ Kept \subseteq Kept'

LEMMA SameDisk ==
  ASSUME UNCHANGED <<tool, disk>>
  PROVE  /\ Readable' = Readable /\ Done' = Done /\ Kept' = Kept
         /\ WholeFile' = WholeFile /\ Appends' = Appends
         /\ DiskShape => DiskShape'
BY DEF Readable, Done, Kept, WholeFile, Appends, DiskShape, ItemsOf

(* A file opened for writing is empty until it is written.                 *)
LEMMA OpenedFacts ==
  ASSUME FetchInv, WholeFile, OpenForSave, UNCHANGED tool
  PROVE  /\ DiskShape' /\ Readable' \subseteq Readable /\ WholeFile'
         /\ tool = "items" \/ Kept' = Kept
<1>1. CASE tool = "items"
  <2>1. disk' = Truncated BY <1>1 DEF OpenForSave
  <2>2. /\ disk'.recs = <<>> /\ disk'.tail = Part
        /\ disk' = [recs |-> disk'.recs, tail |-> disk'.tail]
    BY <2>1 DEF Truncated
  <2>3. ToSet(<<>>) = {} /\ <<>> \in Seq(ToSet(<<>>)) BY DEF ToSet
  <2>4. DiskShape' BY <2>2, <2>3 DEF FetchInv, DiskShape
  <2>5. Readable' = {} BY <2>2, <2>3 DEF Readable, Part
  <2> QED BY <1>1, <2>4, <2>5 DEF WholeFile
<1>2. CASE tool # "items"
  BY <1>2, SameDisk DEF OpenForSave, FetchInv
<1> QED BY <1>1, <1>2

LEMMA FetchStarts ==
  ASSUME Init PROVE FetchInv
<1>1. ToSet(<<>>) = {} /\ <<>> \in Seq(ToSet(<<>>)) BY DEF ToSet
<1>2. DiskShape BY <1>1 DEF Init, DiskShape, Nothing
<1>3. MemoryInv BY FS_EmptySet DEF Init, MemoryInv
<1> QED BY <1>2, <1>3 DEF Init, FetchInv, WriteInv

LEMMA StartStep ==
  ASSUME FetchInv, NEW l, NEW unheard, Start(l, unheard)
  PROVE  FetchInv' /\ KeepsRecords
<1>1. /\ UNCHANGED <<tool, disk>> /\ pc' \in {"fetch", "end"}
      /\ mem' = (IF WholeFile THEN Readable ELSE {})
      /\ todo' = range' \ Done
  BY DEF Start, site
<1>2. MemoryInv'
  BY <1>1, SameDisk, ReadableFacts, FS_EmptySet DEF MemoryInv, FetchInv
<1>3. WriteInv' BY <1>1, SameDisk DEF WriteInv
<1> QED BY <1>1, <1>2, <1>3, SameDisk DEF FetchInv, KeepsRecords

LEMMA FetchLineStep ==
  ASSUME FetchInv, NEW i, FetchLine(i)
  PROVE  FetchInv' /\ KeepsRecords
<1>1. /\ UNCHANGED <<tool, disk, mem>> /\ Appends /\ pc = "fetch" /\ pc' = "saving"
      /\ i \in todo /\ todo' = todo \ {i} /\ \E got : cur' = RecordOf(i, got)
  BY DEF FetchLine, Asked, site, MayBeNext
<1>2. ~WholeFile BY <1>1 DEF Appends, WholeFile
<1>3. \A got : RecordOf(i, got).item = i BY DEF RecordOf, Rec
<1>4. todo \cap Done = {} BY <1>1, <1>2 DEF FetchInv, WriteInv
<1>5. WriteInv' BY <1>1, <1>3, <1>4, SameDisk DEF WriteInv
<1> QED BY <1>1, <1>2, <1>5, SameDisk DEF FetchInv, MemoryInv, KeepsRecords

LEMMA FetchToMemoryStep ==
  ASSUME FetchInv, NEW i, FetchToMemory(i)
  PROVE  FetchInv' /\ KeepsRecords
<1>1. WholeFile /\ UNCHANGED tool /\ pc = "fetch" /\ Readable \subseteq mem
  BY DEF FetchToMemory, Asked, site, FetchInv, MemoryInv
<1>2. PICK got \in Answers(i) :
        mem' = IF got = "answer" THEN mem \cup {RecordOf(i, got)} ELSE mem
  BY DEF FetchToMemory
<1>3. mem \subseteq mem' /\ IsFiniteSet(mem')
  BY <1>2, FS_AddElement DEF FetchInv, MemoryInv
<1>4. WholeFile' BY <1>1 DEF WholeFile
<1>5. Kept \subseteq Readable BY DEF Kept
<1>6. CASE SaveDue(i)
  <2>1. pc' = "saving" /\ OpenForSave BY <1>6 DEF FetchToMemory
  <2>2. /\ DiskShape' /\ Readable' \subseteq Readable /\ WholeFile'
        /\ tool = "items" \/ Kept' = Kept
    BY <1>1, <2>1, OpenedFacts
  <2>3. FetchInv'
    BY <1>1, <1>3, <1>4, <2>1, <2>2 DEF FetchInv, MemoryInv, WriteInv
  <2> QED BY <1>1, <1>3, <1>5, <2>1, <2>2, <2>3 DEF KeepsRecords
<1>7. CASE ~SaveDue(i)
  <2>1. UNCHANGED <<tool, disk, pc>> BY <1>1, <1>7 DEF FetchToMemory
  <2> QED BY <1>1, <1>3, <1>4, <2>1, SameDisk DEF FetchInv, MemoryInv, WriteInv, KeepsRecords
<1> QED BY <1>6, <1>7

LEMMA FetchImageStep ==
  ASSUME FetchInv, NEW i, FetchImage(i)
  PROVE  FetchInv' /\ KeepsRecords
<1>1. /\ UNCHANGED <<tool, disk, mem>> /\ tool = "applications" /\ pc = "fetch"
      /\ i \in todo /\ todo' = todo \ {i}
  BY DEF FetchImage, Asked, site, MayBeNext
<1>2. \/ UNCHANGED pc
      \/ pc' = "saving" /\ \E got : cur' = RecordOf(i, got)
  BY DEF FetchImage
<1>3. \A got : RecordOf(i, got).item = i BY DEF RecordOf, Rec
<1>4. ~WholeFile BY <1>1 DEF WholeFile
<1>5. todo \cap Done = {} BY <1>1, <1>4 DEF FetchInv, WriteInv
<1>6. WriteInv' BY <1>1, <1>2, <1>3, <1>5, SameDisk DEF WriteInv
<1> QED BY <1>1, <1>4, <1>6, SameDisk DEF FetchInv, MemoryInv, KeepsRecords

(* A line more, whether it is put behind a whole line or a torn one.       *)
LEMMA AppendStep ==
  ASSUME FetchInv, Appends, NEW r, AppendLine(r), UNCHANGED tool
  PROVE  DiskShape' /\ KeepsRecords /\ Readable' \subseteq Readable \cup {r}
<1>1. CASE disk.tail = NoTail
  <2>1. disk' = [recs |-> Append(disk.recs, r), tail |-> NoTail]
    BY <1>1 DEF AppendLine, FetchInv, DiskShape
  <2>2. /\ ToSet(disk'.recs) = ToSet(disk.recs) \cup {r}
        /\ disk'.recs \in Seq(ToSet(disk'.recs))
    BY <2>1, AppendFacts DEF FetchInv, DiskShape
  <2>3. DiskShape' BY <1>1, <2>1, <2>2 DEF FetchInv, DiskShape
  <2>4. Readable = ToSet(disk.recs) /\ Readable' = ToSet(disk'.recs)
    BY <1>1, <2>1 DEF Readable, NoTail
  <2> QED BY <2>2, <2>3, <2>4 DEF KeepsRecords, Kept
<1>2. CASE disk.tail # NoTail
  <2>1. disk' = [recs |-> disk.recs, tail |-> NoTail]
    BY <1>2 DEF AppendLine, FetchInv, DiskShape
  <2>2. DiskShape' BY <2>1 DEF FetchInv, DiskShape
  <2>3. Readable' = ToSet(disk.recs) BY <2>1 DEF Readable, NoTail
  <2> QED BY <1>2, <2>2, <2>3 DEF KeepsRecords, Readable
<1> QED BY <1>1, <1>2

(* An image, whole or not, where there was none.                           *)
LEMMA ImageStep ==
  ASSUME FetchInv, tool = "applications", UNCHANGED tool, NEW r, r.item \notin Done,
         disk' = [disk EXCEPT !.recs = PutImage(@, r)]
  PROVE  DiskShape' /\ KeepsRecords /\ Done' \subseteq Done \cup {r.item}
<1>1. /\ disk' = [recs |-> PutImage(disk.recs, r), tail |-> disk.tail]
      /\ disk.tail \in {NoTail, Part} /\ disk.recs \in Seq(ToSet(disk.recs))
  BY DEF FetchInv, DiskShape, Appends
<1>2. /\ disk'.recs \in Seq(ToSet(disk'.recs))
      /\ ToSet(disk'.recs) \subseteq ToSet(disk.recs) \cup {r}
      /\ {o \in ToSet(disk.recs) : o.item # r.item} \subseteq ToSet(disk'.recs)
  <2> DEFINE s == disk.recs
  <2>1. s \in Seq(ToSet(s)) /\ disk'.recs = PutImage(s, r) BY <1>1
  <2> HIDE DEF s
  <2>2. /\ PutImage(s, r) \in Seq(ToSet(PutImage(s, r)))
        /\ ToSet(PutImage(s, r)) \subseteq ToSet(s) \cup {r}
        /\ {o \in ToSet(s) : o.item # r.item} \subseteq ToSet(PutImage(s, r))
    BY <2>1, PutFacts
  <2> QED BY <2>1, <2>2 DEF s
<1>3. DiskShape' BY <1>1, <1>2 DEF FetchInv, DiskShape
<1>4. Readable = ToSet(disk.recs) /\ Readable' = ToSet(disk'.recs)
  BY <1>1 DEF Readable, NoTail, Part
<1>5. Kept \subseteq Kept'
  <2> SUFFICES ASSUME NEW o \in Kept PROVE o \in Readable' BY DEF Kept
  <2>1. o.item # r.item BY DEF Kept, Done, ItemsOf
  <2> QED BY <2>1, <1>2, <1>4 DEF Kept
<1>6. Done' \subseteq Done \cup {r.item} BY <1>2, <1>4 DEF Done, ItemsOf
<1> QED BY <1>3, <1>5, <1>6 DEF KeepsRecords

LEMMA SavedStep ==
  ASSUME FetchInv, Saved
  PROVE  FetchInv' /\ KeepsRecords
<1>1. /\ UNCHANGED <<tool, todo, mem, cur>> /\ pc \in {"saving", "final"}
      /\ pc' = (IF pc = "final" THEN "end" ELSE "fetch")
      /\ IsFiniteSet(mem)
  BY DEF Saved, site, FetchInv, MemoryInv
<1>2. CASE Appends /\ AppendLine(cur)
  <2>1. DiskShape' /\ KeepsRecords /\ Readable' \subseteq Readable \cup {cur}
    BY <1>1, <1>2, AppendStep
  <2>2. ~WholeFile /\ ~WholeFile' BY <1>1, <1>2 DEF Appends, WholeFile
  <2>3. Done' \subseteq Done \cup {cur.item} BY <2>1 DEF Done, ItemsOf
  <2>4. WriteInv' BY <1>1, <2>2, <2>3 DEF FetchInv, WriteInv
  <2> QED BY <1>1, <2>1, <2>2, <2>4 DEF FetchInv, MemoryInv
<1>3. CASE WholeFile /\ SaveWhole
  <2>1. disk' = [recs |-> SetToSeq(mem), tail |-> NoTail] BY <1>3 DEF SaveWhole
  <2>2. ToSet(disk'.recs) = mem /\ disk'.recs \in Seq(ToSet(disk'.recs))
    BY <1>1, <2>1, SavedFacts
  <2>3. DiskShape' BY <1>1, <2>1, <2>2 DEF FetchInv, DiskShape
  <2>4. Readable' = mem BY <2>1, <2>2 DEF Readable, NoTail
  <2>5. Readable \subseteq mem BY <1>1, <1>3 DEF FetchInv, MemoryInv
  <2>6. WholeFile' BY <1>1, <1>3 DEF WholeFile
  <2> QED BY <1>1, <2>3, <2>4, <2>5, <2>6
    DEF FetchInv, MemoryInv, WriteInv, KeepsRecords, Kept
<1>4. CASE tool = "applications" /\ WriteImage(cur)
  <2>1. /\ pc = "saving" /\ cur.item \notin Done \cup todo /\ todo \cap Done = {}
    BY <1>1, <1>4 DEF FetchInv, WriteInv, WholeFile
  <2>2. DiskShape' /\ KeepsRecords /\ Done' \subseteq Done \cup {cur.item}
    <3>1. disk' = [disk EXCEPT !.recs = PutImage(@, cur)] BY <1>4 DEF WriteImage
    <3> QED BY <1>1, <1>4, <2>1, <3>1, ImageStep
  <2>3. ~WholeFile' BY <1>1, <1>4 DEF WholeFile
  <2> QED BY <1>1, <2>1, <2>2, <2>3 DEF FetchInv, MemoryInv, WriteInv
<1> QED BY <1>2, <1>3, <1>4 DEF Saved

LEMMA FinishStep ==
  ASSUME FetchInv, Finish
  PROVE  FetchInv' /\ KeepsRecords
<1>1. UNCHANGED <<tool, todo, mem>> /\ pc = "fetch"
  BY DEF Finish, site
<1>2. CASE WholeFile
  <2>1. pc' = "final" /\ OpenForSave BY <1>2 DEF Finish
  <2>2. /\ DiskShape' /\ Readable' \subseteq Readable /\ WholeFile'
        /\ tool = "items" \/ Kept' = Kept
    BY <1>1, <1>2, <2>1, OpenedFacts
  <2>3. Readable \subseteq mem /\ Kept \subseteq Readable
    BY <1>1, <1>2 DEF FetchInv, MemoryInv, Kept
  <2>4. WholeFile' BY <1>1, <1>2 DEF WholeFile
  <2> QED BY <1>1, <2>1, <2>2, <2>3, <2>4
    DEF FetchInv, MemoryInv, WriteInv, KeepsRecords
<1>3. CASE ~WholeFile
  <2>1. pc' = "end" /\ UNCHANGED disk BY <1>3 DEF Finish
  <2> QED BY <1>1, <1>3, <2>1, SameDisk DEF FetchInv, MemoryInv, WriteInv, KeepsRecords
<1> QED BY <1>2, <1>3

LEMMA KillStep ==
  ASSUME FetchInv, Kill
  PROVE  FetchInv' /\ KeepsRecords
<1>1. /\ UNCHANGED tool /\ pc' = "off" /\ mem' = {} /\ disk' \in LeftBehind
  BY DEF Kill, site
<1>2. MemoryInv' /\ WriteInv'
  BY <1>1, FS_EmptySet DEF MemoryInv, WriteInv
<1>3. CASE disk' = disk BY <1>1, <1>2, <1>3, SameDisk DEF FetchInv, KeepsRecords
<1>4. CASE /\ Appends
           /\ \/ disk' = [disk EXCEPT !.tail = Part]
              \/ disk.tail = NoTail /\ disk' = [disk EXCEPT !.tail = Glued(cur)]
  <2>1. /\ disk' = [recs |-> disk'.recs, tail |-> disk'.tail]
        /\ disk'.recs = disk.recs /\ disk'.tail \in {Part, Glued(cur)}
    BY <1>4 DEF FetchInv, DiskShape
  <2>2. DiskShape' BY <1>1, <1>4, <2>1 DEF FetchInv, DiskShape, Appends
  <2>3. disk.tail = NoTail => Readable \subseteq Readable'
    BY <2>1, ReadableFacts DEF FetchInv, Readable
  <2> QED BY <1>2, <2>2, <2>3 DEF FetchInv, KeepsRecords, Kept
<1>5. CASE /\ tool = "applications" /\ pc = "saving"
           /\ \E got : disk' = [disk EXCEPT !.recs = PutImage(@, Rec(cur.item, got, 0))]
  <2>1. cur.item \notin Done BY <1>5 DEF FetchInv, WriteInv, WholeFile
  <2>2. PICK got : disk' = [disk EXCEPT !.recs = PutImage(@, Rec(cur.item, got, 0))]
    BY <1>5
  <2>3. Rec(cur.item, got, 0).item = cur.item BY DEF Rec
  <2>4. DiskShape' /\ KeepsRecords
    <3> DEFINE r == Rec(cur.item, got, 0)
    <3> HIDE DEF r
    <3>1. r.item \notin Done BY <2>1, <2>3 DEF r
    <3>2. disk' = [disk EXCEPT !.recs = PutImage(@, r)] BY <2>2 DEF r
    <3> QED BY <1>1, <1>5, <3>1, <3>2, ImageStep
  <2> QED BY <1>2, <2>4 DEF FetchInv
<1> QED
  <2>1. CASE pc \notin {"saving", "final"} \/ WholeFile
    BY <1>1, <1>3, <2>1 DEF LeftBehind
  <2>2. CASE pc \in {"saving", "final"} /\ ~WholeFile /\ Appends
    BY <1>1, <1>3, <1>4, <2>2 DEF LeftBehind
  <2>3. CASE pc \in {"saving", "final"} /\ ~WholeFile /\ ~Appends
    <3>1. tool = "applications"
      BY <2>3, HarvestAssumption DEF FetchInv, DiskShape, Appends, WholeFile
    <3>2. pc = "saving" BY <2>3, <3>1 DEF FetchInv, WriteInv
    <3> QED BY <1>1, <1>5, <2>3, <3>1, <3>2 DEF LeftBehind
  <2> QED BY <2>1, <2>2, <2>3

LEMMA ListingStep ==
  ASSUME FetchInv, ListingFails
  PROVE  FetchInv' /\ KeepsRecords
<1>1. UNCHANGED <<tool, disk, mem>> /\ pc' = "end"
  BY DEF ListingFails, site
<1> QED BY <1>1, SameDisk DEF FetchInv, MemoryInv, WriteInv, KeepsRecords

LEMMA FetchStep ==
  ASSUME FetchInv, Next
  PROVE  FetchInv' /\ KeepsRecords
<1>1. CASE \E l \in 0 .. 1, unheard \in {{}} \cup {{i} : i \in Items} :
             Start(l, unheard)
  BY <1>1, StartStep
<1>2. CASE Steps
  BY <1>2, FetchLineStep, FetchToMemoryStep, FetchImageStep, SavedStep, FinishStep
  DEF Steps
<1> QED BY <1>1, <1>2, ListingStep, KillStep DEF Next

LEMMA FetchKept ==
  ASSUME FetchInv, [Next]_vars PROVE FetchInv'
<1>1. CASE UNCHANGED vars
  <2>1. UNCHANGED <<tool, disk, mem, pc, todo, cur>> BY <1>1 DEF vars, site
  <2> QED BY <2>1, SameDisk DEF FetchInv, MemoryInv, WriteInv
<1> QED BY <1>1, FetchStep

-----------------------------------------------------------------------------
(* What is computed step by step.  A set that has 0, and with each number  *)
(* the next one, has them all.                                             *)
LEMMA AllNumbers ==
  ASSUME NEW G, 0 \in G, \A n \in Nat : n \in G => n + 1 \in G
  PROVE  \A n \in Nat : n \in G
<1> SUFFICES ASSUME Nat \ G # {} PROVE FALSE OBVIOUS
<1>1. PICK x \in Nat \ G : \A y \in Nat \ G : ~(<<y, x>> \in OpToRel(<, Nat))
  <2>1. Nat \ G \subseteq Nat OBVIOUS
  <2> QED BY <2>1, WFMin, NatLessThanWellFounded
<1>2. \A y \in Nat \ G : ~(y < x) BY <1>1 DEF OpToRel
<1>3. x # 0 /\ x - 1 \in Nat OBVIOUS
<1>4. x - 1 \in G BY <1>2, <1>3
<1> QED BY <1>3, <1>4

(* Steps can be iterated.                                                  *)
Iterated(g, S, a, K, F) ==
  /\ g \in [0 .. K -> S]
  /\ g[0] = a /\ \A n \in 1 .. K : g[n] = F[n][g[n - 1]]

LEMMA Iterates ==
  ASSUME NEW S, NEW a \in S, NEW K \in Nat, NEW F \in [1 .. K -> [S -> S]]
  PROVE  \E g : Iterated(g, S, a, K, F)
<1> DEFINE Runs(n) == {g \in [0 .. n -> S] :
                         g[0] = a /\ \A m \in 1 .. n : g[m] = F[m][g[m - 1]]}
           G == {n \in Nat : n <= K => Runs(n) # {}}
<1>1. 0 \in G
  <2>1. [m \in 0 .. 0 |-> a] \in Runs(0) OBVIOUS
  <2> QED BY <2>1
<1>2. ASSUME NEW n \in Nat, n \in G PROVE n + 1 \in G
  <2> SUFFICES ASSUME n + 1 <= K PROVE Runs(n + 1) # {} OBVIOUS
  <2>1. PICK g \in [0 .. n -> S] :
          g[0] = a /\ \A m \in 1 .. n : g[m] = F[m][g[m - 1]]
    BY <1>2
  <2> DEFINE h == [m \in 0 .. n + 1 |-> IF m = n + 1 THEN F[n + 1][g[n]] ELSE g[m]]
  <2>2. n + 1 \in 1 .. K /\ g[n] \in S BY <2>1
  <2>3. F[n + 1][g[n]] \in S BY <2>2
  <2>4. h \in [0 .. n + 1 -> S] BY <2>1, <2>3
  <2>5. h[0] = a BY <2>1
  <2>6. ASSUME NEW m \in 1 .. n + 1 PROVE h[m] = F[m][h[m - 1]]
    <3>1. m - 1 \in 0 .. n /\ h[m - 1] = g[m - 1] OBVIOUS
    <3>2. CASE m = n + 1 BY <3>1, <3>2
    <3>3. CASE m # n + 1 BY <3>1, <3>3, <2>1
    <3> QED BY <3>2, <3>3
  <2> HIDE DEF h
  <2>7. h \in Runs(n + 1) BY <2>4, <2>5, <2>6
  <2> QED BY <2>7
<1> HIDE DEF G
<1>3. K \in G BY <1>1, <1>2, AllNumbers
<1> QED BY <1>3 DEF G, Iterated

LEMMA LeastOfTwo ==
  ASSUME NEW x \in Int, NEW y \in Int
  PROVE  Min({x, y}) = IF x <= y THEN x ELSE y
BY DEF Min

(* A list of n, and what a page has of it.                                 *)
Count(n) == [v \in 1 .. n |-> v]

LEMMA PageFactsOf ==
  ASSUME NEW n \in Nat, NEW offset \in Nat, PageSize \in Nat \ {0}
  PROVE  LET page == PageAt(n, offset) IN
         /\ page \in Seq(Nat) /\ Len(page) \in Nat
         /\ n <= offset => page = <<>>
         /\ n > offset =>
              /\ page # <<>>
              /\ Len(page) = IF n <= offset + PageSize THEN n - offset ELSE PageSize
              /\ Count(offset) \o page =
                   Count(IF n <= offset + PageSize THEN n ELSE offset + PageSize)
<1> DEFINE last == IF n <= offset + PageSize THEN n ELSE offset + PageSize
           page == PageAt(n, offset)
<1>1. Count(n) \in Seq(Nat) /\ Len(Count(n)) = n BY DEF Count
<1>2. page = SubSeq(Count(n), offset + 1, last)
  BY LeastOfTwo DEF PageAt, Count
<1>3. CASE n <= offset
  <2>1. page = <<>> BY <1>1, <1>2, <1>3
  <2> QED BY <1>3, <2>1
<1>4. CASE n > offset
  <2>1. last \in Nat /\ last <= n /\ last > offset BY <1>4
  <2>2. page = [v \in 1 .. last - offset |-> offset + v]
    BY <1>1, <1>2, <2>1 DEF Count
  <2>3. page \in Seq(Nat) /\ Len(page) = last - offset
    BY <2>1, <2>2
  <2>4. Count(offset) \o page = Count(last)
    BY <2>1, <2>2, <2>3 DEF Count
  <2> QED BY <1>4, <2>1, <2>3, <2>4
<1> QED BY <1>3, <1>4

(* The list of a cemetery is whole, whatever is said of its length, unless *)
(* it is longer than the pages asked for.                                  *)
LEMMA ListIsWhole ==
  ASSUME NEW n \in Nat, n <= MaxPages * PageSize, NEW says \in BOOLEAN
  PROVE  ListAll(n, says) = Count(n)
<1> DEFINE S == [list : Seq(Nat), more : BOOLEAN]
           a == [list |-> <<>>, more |-> TRUE]
           Step(k, was) ==
             LET offset == (k - 1) * PageSize
                 page == PageAt(n, offset)
             IN IF ~was.more \/ page = <<>> THEN [was EXCEPT !.more = FALSE]
                ELSE [list |-> was.list \o page, more |-> ~IsLast(n, offset, says)]
           Steps1(f) == [k \in 0 .. MaxPages |-> IF k = 0 THEN a ELSE Step(k, f[k - 1])]
           after == CHOOSE f : f = Steps1(f)
           F == [k \in 1 .. MaxPages |-> [was \in S |-> Step(k, was)]]
<1>1. ListAll(n, says) = after[MaxPages].list BY DEF ListAll
<1>2. /\ PageSize \in Nat \ {0} /\ MaxPages \in Nat \ {0}
      /\ \A k \in 1 .. MaxPages : (k - 1) * PageSize \in Nat
                                  /\ k * PageSize = (k - 1) * PageSize + PageSize
  BY HarvestAssumption
<1>3. ASSUME NEW k \in 1 .. MaxPages, NEW was \in S PROVE Step(k, was) \in S
  <2> DEFINE offset == (k - 1) * PageSize
  <2>1. offset \in Nat BY <1>2
  <2>2. PageAt(n, offset) \in Seq(Nat)
    <3> HIDE DEF offset
    <3> QED BY <1>2, <2>1, PageFactsOf
  <2>3. CASE ~was.more \/ PageAt(n, offset) = <<>> BY <2>3
  <2>4. CASE was.more /\ PageAt(n, offset) # <<>>
    <3>1. was.list \o PageAt(n, offset) \in Seq(Nat) BY <2>2
    <3> HIDE DEF offset
    <3>2. (~IsLast(n, offset, says)) \in BOOLEAN OBVIOUS
    <3> QED BY <2>4, <3>1, <3>2 DEF offset
  <2> QED BY <2>3, <2>4
<1>4. a \in S
  <2>1. <<>> \in Seq(Nat) OBVIOUS
  <2> QED BY <2>1
<1>5. after = Steps1(after)
  <2>1. F \in [1 .. MaxPages -> [S -> S]]
    <3> HIDE DEF Step, S
    <3> QED BY <1>3
  <2> HIDE DEF S, a, F
  <2>2. PICK g : Iterated(g, S, a, MaxPages, F)
    <3>1. MaxPages \in Nat BY <1>2
    <3> QED BY <1>4, <2>1, <3>1, Iterates
  <2>3. /\ g \in [0 .. MaxPages -> S]
        /\ g[0] = a /\ \A k \in 1 .. MaxPages : g[k] = F[k][g[k - 1]]
    BY <2>2 DEF Iterated
  <2>4. ASSUME NEW k \in 1 .. MaxPages PROVE g[k] = Step(k, g[k - 1])
    <3>1. k - 1 \in 0 .. MaxPages /\ g[k - 1] \in S BY <1>2, <2>3
    <3> HIDE DEF Step
    <3> QED BY <2>3, <3>1 DEF F
  <2> HIDE DEF Step
  <2>5. g = Steps1(g) BY <2>3, <2>4
  <2> QED BY <2>5
<1> HIDE DEF after
<1> DEFINE upto(k) == IF n <= k * PageSize THEN n ELSE k * PageSize
           Good(k) == /\ after[k] \in S /\ after[k].list = Count(upto(k))
                      /\ after[k].more \/ n <= k * PageSize
           G == {k \in Nat : k <= MaxPages => Good(k)}
<1>6. 0 \in G
  <2>1. after[0] = a BY <1>2, <1>5
  <2>2. upto(0) = 0 /\ Count(0) = <<>> BY <1>2 DEF Count
  <2> HIDE DEF S
  <2> QED BY <1>4, <2>1, <2>2
<1>7. ASSUME NEW k \in Nat, k \in G PROVE k + 1 \in G
  <2> SUFFICES ASSUME k + 1 <= MaxPages PROVE Good(k + 1) OBVIOUS
  <2> DEFINE offset == k * PageSize
             was == after[k]
             page == PageAt(n, offset)
  <2>1. /\ k + 1 \in 1 .. MaxPages /\ (k + 1) - 1 = k /\ offset \in Nat
        /\ (k + 1) * PageSize = offset + PageSize /\ PageSize \in Nat \ {0}
    BY <1>2
  <2>2. /\ was \in S /\ was.list = Count(IF n <= offset THEN n ELSE offset)
        /\ was.more \/ n <= offset
    <3>1. Good(k) BY <1>7, <2>1, <1>2
    <3> HIDE DEF S
    <3> QED BY <3>1
  <2>3. after[k + 1] = Step(k + 1, after[k])
    <3> HIDE DEF Step
    <3>1. k + 1 \in 0 .. MaxPages /\ k + 1 # 0 BY <2>1
    <3> QED BY <2>1, <3>1, <1>5
  <2>4. after[k + 1] \in S
    <3> HIDE DEF Step, S
    <3> QED BY <1>3, <2>1, <2>2, <2>3
  <2>5. after[k + 1] = IF ~was.more \/ page = <<>> THEN [was EXCEPT !.more = FALSE]
                       ELSE [list |-> was.list \o page,
                             more |-> ~IsLast(n, offset, says)]
    BY <2>1, <2>3
  <2>6. SUFFICES /\ after[k + 1].list = Count(IF n <= offset + PageSize
                                              THEN n ELSE offset + PageSize)
                 /\ after[k + 1].more \/ n <= offset + PageSize
    BY <2>1, <2>4
  <2> HIDE DEF offset
  <2>7. CASE n <= offset
    <3>1. page = <<>> BY <2>1, <2>7, PageFactsOf
    <3>2. after[k + 1].list = was.list BY <2>2, <2>5, <3>1
    <3> QED BY <2>1, <2>2, <2>7, <3>2
  <2>8. CASE n > offset
    <3>1. /\ page # <<>>
          /\ Len(page) = IF n <= offset + PageSize THEN n - offset ELSE PageSize
          /\ Count(offset) \o page =
               Count(IF n <= offset + PageSize THEN n ELSE offset + PageSize)
      BY <2>1, <2>8, PageFactsOf
    <3>2. was.more /\ was.list = Count(offset) BY <2>1, <2>2, <2>8
    <3>3. after[k + 1] = [list |-> was.list \o page,
                          more |-> ~IsLast(n, offset, says)]
      BY <2>5, <3>1, <3>2
    <3>4. IsLast(n, offset, says) => n <= offset + PageSize
      BY <2>1, <2>8, <3>1 DEF IsLast
    <3>5. /\ after[k + 1].list = was.list \o page
          /\ after[k + 1].more = ~IsLast(n, offset, says)
      BY <3>3
    <3>6. after[k + 1].more \/ IsLast(n, offset, says) BY <3>5
    <3> QED BY <3>1, <3>2, <3>4, <3>5, <3>6
  <2> QED BY <2>1, <2>7, <2>8
<1> HIDE DEF G
<1>8. MaxPages \in G BY <1>2, <1>6, <1>7, AllNumbers
<1>9. Good(MaxPages) BY <1>2, <1>8 DEF G
<1> QED BY <1>1, <1>9

(* A set of numbers up to a bound has a greatest one.                      *)
LEMMA MaxIsGreatest ==
  ASSUME NEW T \in SUBSET Nat, T # {}, NEW bound \in Nat, \A x \in T : x <= bound
  PROVE  Max(T) \in T /\ \A x \in T : x <= Max(T)
<1> DEFINE Gaps == {bound - x : x \in T}
<1>1. Gaps \subseteq Nat /\ Gaps # {}
  <2>1. \A x \in T : bound - x \in Nat OBVIOUS
  <2>2. PICK x \in T : TRUE OBVIOUS
  <2>3. bound - x \in Gaps OBVIOUS
  <2> QED BY <2>1, <2>3
<1>2. PICK gap \in Gaps : \A y \in Gaps : ~(<<y, gap>> \in OpToRel(<, Nat))
  BY <1>1, WFMin, NatLessThanWellFounded
<1>3. \A y \in Gaps : gap <= y
  <2> HIDE DEF Gaps
  <2>1. \A y \in Gaps : ~(y < gap) BY <1>1, <1>2 DEF OpToRel
  <2> QED BY <1>1, <2>1
<1>4. PICK m \in T : gap = bound - m OBVIOUS
<1>5. \A x \in T : x <= m
  <2> SUFFICES ASSUME NEW x \in T PROVE x <= m OBVIOUS
  <2>1. gap <= bound - x BY <1>3
  <2> QED BY <1>4, <2>1
<1> QED BY <1>5 DEF Max

(* The probe finds an id less than ProbeSlack below any before the first   *)
(* gap, or one beyond it.                                                  *)
LEMMA ProbeReaches ==
  ASSUME NEW has, NEW u \in 0 .. LastItem, 1 .. u \subseteq has
  PROVE  FindMaxId(has) \in Nat /\ u < FindMaxId(has) + ProbeSlack
<1> DEFINE hits == {k \in 0 .. LastItem : 1 + k * ProbeStep <= LastItem
                      /\ \A j \in 0 .. k : 1 + j * ProbeStep \in has}
           lastHit == IF hits = {} THEN 1 ELSE 1 + Max(hits) * ProbeStep
           S == [lo : Nat, hi : Nat]
           a == [lo |-> lastHit, hi |-> lastHit + ProbeStep]
           Step(was) ==
             LET mid == (was.lo + was.hi) \div 2
             IN IF was.hi - was.lo <= ProbeSlack THEN was
                ELSE IF mid \in has THEN [was EXCEPT !.lo = mid]
                ELSE [was EXCEPT !.hi = mid]
           Steps1(f) == [k \in 0 .. ProbeStep |-> IF k = 0 THEN a ELSE Step(f[k - 1])]
           after == CHOOSE f : f = Steps1(f)
           F == [k \in 1 .. ProbeStep |-> [was \in S |-> Step(was)]]
<1>1. FindMaxId(has) = after[ProbeStep].lo BY DEF FindMaxId
<1>2. {ProbeStep, ProbeSlack, LastItem} \subseteq Nat \ {0} BY HarvestAssumption
<1>3. lastHit \in Nat \ {0} /\ u < lastHit + ProbeStep
  <2>1. CASE hits = {}
    <3>1. 0 \notin hits /\ 1 + 0 * ProbeStep = 1 BY <1>2, <2>1
    <3>2. 1 \notin has
      <4> SUFFICES ASSUME 1 \in has PROVE 0 \in hits BY <3>1
      <4>1. \A j \in 0 .. 0 : 1 + j * ProbeStep = 1 BY <1>2
      <4>2. 0 \in 0 .. LastItem /\ 1 <= LastItem BY <1>2
      <4> QED BY <3>1, <4>1, <4>2
    <3>3. u = 0 BY <3>2
    <3> QED BY <1>2, <2>1, <3>3
  <2>2. CASE hits # {}
    <3> DEFINE m == Max(hits)
    <3>1. m \in hits /\ \A x \in hits : x <= m
      <4>1. hits \subseteq Nat /\ \A x \in hits : x <= LastItem BY <1>2
      <4> HIDE DEF hits
      <4> QED BY <1>2, <2>2, <4>1, MaxIsGreatest
    <3>2. m + 1 \notin hits BY <3>1
    <3>3. m \in Nat /\ lastHit = 1 + m * ProbeStep BY <2>2, <3>1
    <3> HIDE DEF m, lastHit
    <3> DEFINE top == m * ProbeStep
    <3>4. /\ top \in Nat /\ (m + 1) * ProbeStep = top + ProbeStep /\ m <= top
          /\ 1 + top <= LastItem /\ \A j \in 0 .. m : 1 + j * ProbeStep \in has
      BY <1>2, <3>1, <3>3
    <3>5. CASE 1 + top + ProbeStep > LastItem BY <1>2, <3>3, <3>4, <3>5
    <3>6. CASE 1 + top + ProbeStep <= LastItem
      <4>1. m + 1 \in 0 .. LastItem BY <1>2, <3>3, <3>4, <3>6
      <4>2. ~ \A j \in 0 .. m + 1 : 1 + j * ProbeStep \in has
        <5> DEFINE next == 1 + (m + 1) * ProbeStep
        <5>1. next <= LastItem BY <1>2, <3>3, <3>4, <3>6
        <5> QED BY <3>2, <4>1, <5>1
      <4>3. 1 + (m + 1) * ProbeStep \notin has
        <5>1. PICK j \in 0 .. m + 1 : 1 + j * ProbeStep \notin has BY <4>2
        <5>2. j = m + 1 BY <3>3, <3>4, <5>1
        <5> QED BY <5>1, <5>2
      <4>4. 1 + top + ProbeStep \notin 1 .. u
        <5>1. 1 + (m + 1) * ProbeStep = 1 + top + ProbeStep BY <1>2, <3>3, <3>4
        <5>2. 1 + top + ProbeStep \notin has BY <4>3, <5>1
        <5> QED BY <5>2
      <4> QED BY <1>2, <3>3, <3>4, <4>4
    <3> QED BY <1>2, <3>3, <3>4, <3>5, <3>6
  <2> QED BY <2>1, <2>2
<1> HIDE DEF lastHit
<1>4. ASSUME NEW was \in S PROVE Step(was) \in S
  <2> DEFINE mid == (was.lo + was.hi) \div 2
  <2>1. mid \in Nat OBVIOUS
  <2> HIDE DEF mid
  <2>2. /\ [was EXCEPT !.lo = mid] \in S /\ [was EXCEPT !.hi = mid] \in S
    BY <2>1
  <2> HIDE DEF S
  <2> QED BY <2>2 DEF mid
<1>5. a \in S BY <1>2, <1>3
<1>6. after = Steps1(after)
  <2>1. F \in [1 .. ProbeStep -> [S -> S]]
    <3> HIDE DEF Step, S
    <3> QED BY <1>4
  <2> HIDE DEF S, a, F
  <2>2. PICK g : Iterated(g, S, a, ProbeStep, F)
    <3>1. ProbeStep \in Nat BY <1>2
    <3> QED BY <1>5, <2>1, <3>1, Iterates
  <2>3. /\ g \in [0 .. ProbeStep -> S]
        /\ g[0] = a /\ \A k \in 1 .. ProbeStep : g[k] = F[k][g[k - 1]]
    BY <2>2 DEF Iterated
  <2>4. ASSUME NEW k \in 1 .. ProbeStep PROVE g[k] = Step(g[k - 1])
    <3>1. k - 1 \in 0 .. ProbeStep /\ g[k - 1] \in S BY <1>2, <2>3
    <3> HIDE DEF Step
    <3> QED BY <2>3, <3>1 DEF F
  <2> HIDE DEF Step
  <2>5. g = Steps1(g) BY <2>3, <2>4
  <2> QED BY <2>5
<1> HIDE DEF after
<1> DEFINE Good(k) ==
             /\ after[k] \in S /\ after[k].lo \in Nat \ {0} /\ u < after[k].hi
             /\ after[k].hi - after[k].lo <= ProbeSlack
                \/ after[k].hi - after[k].lo <= ProbeStep - k
           G == {k \in Nat : k <= ProbeStep => Good(k)}
<1>7. 0 \in G
  <2>1. after[0] = a BY <1>2, <1>6
  <2> QED BY <1>2, <1>3, <1>5, <2>1
<1>8. ASSUME NEW k \in Nat, k \in G PROVE k + 1 \in G
  <2> SUFFICES ASSUME k + 1 <= ProbeStep PROVE Good(k + 1) OBVIOUS
  <2> DEFINE lo == after[k].lo
             hi == after[k].hi
             mid == (lo + hi) \div 2
  <2>1. Good(k) BY <1>2, <1>8
  <2>2. after[k + 1] = Step(after[k])
    <3> HIDE DEF Step
    <3>1. k + 1 \in 0 .. ProbeStep /\ k + 1 # 0 /\ (k + 1) - 1 = k BY <1>2
    <3> QED BY <3>1, <1>6
  <2>3. after[k + 1] \in S
    <3> HIDE DEF Step, S
    <3> QED BY <1>4, <2>1, <2>2
  <2>4. /\ lo \in Nat \ {0} /\ hi \in Nat /\ u < hi
        /\ hi - lo <= ProbeSlack \/ hi - lo <= ProbeStep - k
    BY <2>1
  <2>5. hi - lo > 1 => mid \in Nat /\ lo < mid /\ mid < hi BY <2>4
  <2>6. CASE hi - lo <= ProbeSlack
    <3>1. after[k + 1] = after[k] BY <2>2, <2>6
    <3> QED BY <2>1, <2>6, <3>1
  <2>7. CASE hi - lo > ProbeSlack /\ mid \in has
    <3>1. after[k + 1] = [after[k] EXCEPT !.lo = mid] BY <2>2, <2>7, <2>4, <1>2
    <3> HIDE DEF mid
    <3>2. after[k + 1].lo = mid /\ after[k + 1].hi = hi BY <2>1, <3>1
    <3> HIDE DEF lo, hi, S
    <3> QED BY <1>2, <2>3, <2>4, <2>5, <2>7, <3>2
  <2>8. CASE hi - lo > ProbeSlack /\ mid \notin has
    <3>1. after[k + 1] = [after[k] EXCEPT !.hi = mid] BY <2>2, <2>8, <2>4, <1>2
    <3> HIDE DEF mid
    <3>2. after[k + 1].lo = lo /\ after[k + 1].hi = mid BY <2>1, <3>1
    <3> HIDE DEF lo, hi, S
    <3>3. mid \notin 1 .. u BY <2>8
    <3> QED BY <1>2, <2>3, <2>4, <2>5, <2>8, <3>2, <3>3
  <2> QED BY <1>2, <2>4, <2>6, <2>7, <2>8
<1> HIDE DEF G
<1>9. ProbeStep \in G BY <1>2, <1>7, <1>8, AllNumbers
<1>10. Good(ProbeStep) BY <1>2, <1>9 DEF G
<1> QED BY <1>1, <1>2, <1>10
-----------------------------------------------------------------------------
(* A whole pass of a tool that fetches.  No cemetery is longer than the    *)
(* pages asked for.                                                        *)
SiteTypes ==
  /\ size \in [Items -> Nat] /\ counted \in BOOLEAN
  /\ tool = "cemeteries" => \A i \in Items : size[i] <= MaxPages * PageSize

(* Of each item there is one record, and what is still to do is to be had  *)
(* in memory no more than on disk.                                         *)
OneEach(s) == \A a, b \in DOMAIN s : s[a].item = s[b].item => a = b

OnceInv ==
  /\ OneEach(disk.recs)
  /\ \A r, o \in mem : r.item = o.item => r = o
  /\ WholeFile /\ pc \in {"fetch", "saving", "final"} => todo \cap ItemsOf(mem) = {}
  /\ todo \subseteq Items

(* An empty file is what is left of an image only.                         *)
NoneHollow ==
  tool # "applications" =>
    /\ \A r \in Readable \cup mem : r.got # "hollow"
    /\ pc = "saving" => WholeFile \/ cur.got # "hollow"

(* What has come of an item of this pass.                                  *)
Settled(i) ==
  \/ WholeFile /\ i \in ItemsOf(mem)
  \/ ~WholeFile /\ i \in ItemsOf(ToSet(disk.recs))
  \/ ~WholeFile /\ pc = "saving" /\ i = cur.item
  \/ ~Appends /\ size[i] = 0

(* In a pass nothing failed in, over a file no line of which is torn, each *)
(* item of the range is to do or has come to something, and the range has  *)
(* what the probe owes.                                                    *)
CoverInv ==
  clean /\ pc # "off" =>
    /\ Appends => disk.tail = NoTail
    /\ \A i \in range : i \in todo \/ Settled(i)
    /\ limit = 0 => {i \in Items : i + ProbeSlack <= Unbroken + 1} \subseteq range
    /\ limit = 0 /\ pc \in {"final", "end"} => todo = {}
    /\ WholeFile /\ pc = "end" => ToSet(disk.recs) = mem

(* The record of a cemetery has its whole list.                            *)
Listed(r) == r.got # "failure" => r.list = size[r.item]
ListInv ==
  tool = "cemeteries" =>
    /\ \A r \in Readable : Listed(r)
    /\ pc = "saving" => Listed(cur)

PassInv == SiteTypes /\ OnceInv /\ NoneHollow /\ CoverInv /\ ListInv

LEMMA UnbrokenFacts ==
  ASSUME size \in [Items -> Nat]
  PROVE  Unbroken \in 0 .. LastItem /\ \A j \in 1 .. Unbroken : size[j] > 0
<1> DEFINE T == {0} \cup {i \in Items : \A j \in 1 .. i : size[j] > 0}
<1>1. LastItem \in Nat BY HarvestAssumption
<1>2. T \in SUBSET Nat /\ T # {} /\ \A x \in T : x <= LastItem BY <1>1 DEF Items
<1>3. Max(T) \in T
  <2> HIDE DEF T
  <2> QED BY <1>1, <1>2, MaxIsGreatest
<1>4. Unbroken = Max(T) BY DEF Unbroken
<1> HIDE DEF T
<1>5. PICK m \in T : m = Unbroken BY <1>3, <1>4
<1>6. m \in 0 .. LastItem /\ \A j \in 1 .. m : size[j] > 0
  BY <1>1 DEF T, Items
<1> QED BY <1>5, <1>6

(* What a pass goes through, and what it owes if its probe was answered.   *)
LEMMA RangeFacts ==
  ASSUME SiteTypes, tool \in Tools, NEW l, NEW unheard, NEW over \in Ranges(l, unheard)
  PROVE  /\ over \subseteq Items
         /\ l = 0 /\ unheard = {} =>
              {i \in Items : i + ProbeSlack <= Unbroken + 1} \subseteq over
<1> DEFINE Has(u) == {i \in Items \ u : size[i] > 0}
           Upto(u) == 1 .. Min({LastItem, FindMaxId(Has(u))})
<1>1. LastItem \in Nat /\ ProbeSlack \in Nat BY HarvestAssumption
<1>2. FindMaxId(Has(unheard)) \in Nat
  <2>1. 0 \in 0 .. LastItem /\ 1 .. 0 \subseteq Has(unheard) BY <1>1
  <2> HIDE DEF Has
  <2> QED BY <2>1, ProbeReaches
<1>3. Unbroken \in 0 .. LastItem /\ \A j \in 1 .. Unbroken : size[j] > 0
  BY UnbrokenFacts DEF SiteTypes
<1>4. Unbroken < FindMaxId(Has({})) + ProbeSlack /\ FindMaxId(Has({})) \in Nat
  <2>1. 1 .. Unbroken \subseteq Has({}) BY <1>1, <1>3 DEF Items
  <2> HIDE DEF Has
  <2> QED BY <1>3, <2>1, ProbeReaches
<1> HIDE DEF Has
<1>5. CASE over = Items BY <1>5
<1>6. CASE over = Upto(unheard)
  <2>1. \A x \in Nat : Min({LastItem, x}) = IF LastItem <= x THEN LastItem ELSE x
    BY <1>1, LeastOfTwo
  <2>2. over \subseteq Items BY <1>1, <1>2, <1>6, <2>1 DEF Items
  <2>3. ASSUME unheard = {}, NEW i \in Items, i + ProbeSlack <= Unbroken + 1
        PROVE  i \in over
    <3>1. i <= FindMaxId(Has({})) /\ i <= LastItem /\ i \in Nat \ {0}
      BY <1>1, <1>3, <1>4, <2>3 DEF Items
    <3> QED BY <1>1, <1>4, <1>6, <2>1, <2>3, <3>1
  <2> QED BY <2>2, <2>3
<1>7. CASE l > 0 /\ over \subseteq Items /\ l # 0 BY <1>7
<1> QED
  <2>1. CASE tool = "items"
    <3>1. Ranges(l, unheard) = {Items, Upto(unheard)} BY <2>1 DEF Ranges, Has
    <3> QED BY <1>5, <1>6, <3>1
  <2>2. CASE tool # "items" /\ l > 0 /\ tool \in {"crossref", "pages", "applications"}
    <3>1. over = {i \in Items : i <= l} BY <2>2 DEF Ranges
    <3>2. l = 0 => ~(l > 0) OBVIOUS
    <3> QED BY <1>7, <2>2, <3>1, <3>2
  <2>3. CASE tool # "items" /\ ~(l > 0 /\ tool \in {"crossref", "pages", "applications"})
    <3>1. over = Items BY <2>3 DEF Ranges
    <3> QED BY <1>5, <3>1
  <2> QED BY <2>1, <2>2, <2>3

(* What is on the site stays as it is.                                     *)
LEMMA SiteStays ==
  ASSUME UNCHANGED site
  PROVE  /\ tool' = tool /\ size' = size /\ WholeFile' = WholeFile /\ Appends' = Appends
         /\ Unbroken' = Unbroken /\ (SiteTypes => SiteTypes')
         /\ \A r : Listed(r)' = Listed(r)
<1>1. tool' = tool /\ size' = size /\ counted' = counted BY DEF site
<1> QED BY <1>1 DEF WholeFile, Appends, Unbroken, SiteTypes, Listed

LEMMA FailsFacts ==
  ASSUME NEW got, Fails(got), clean'
  PROVE  clean /\ got \notin {"failure", "gaps"}
BY DEF Fails

(* A record that is whole is read; of a file read by others than the tools *)
(* that append there is nothing else.                                      *)
LEMMA WholeRecords ==
  ASSUME DiskShape, ~Appends \/ disk.tail = NoTail
  PROVE  Readable = ToSet(disk.recs)
BY ReadableFacts DEF DiskShape

LEMMA StartPass ==
  ASSUME FetchInv, PassInv, NEW l, NEW unheard, Start(l, unheard)
  PROVE  PassInv'
<1>1. /\ UNCHANGED <<site, disk>> /\ pc' \in {"fetch", "end"} /\ limit' = l
      /\ range' \in Ranges(l, unheard) /\ todo' = range' \ Done
      /\ mem' = (IF WholeFile THEN Readable ELSE {})
      /\ pc' = "end" => tool = "items" /\ todo' = {}
  BY DEF Start
<1>2. clean' => unheard = {} /\ disk.tail = NoTail
  <2>1. Fails("failure") => clean' = FALSE BY DEF Fails
  <2> QED BY <2>1 DEF Start
<1>3. /\ tool' = tool /\ size' = size /\ WholeFile' = WholeFile /\ Appends' = Appends
      /\ Unbroken' = Unbroken /\ SiteTypes' /\ \A r : Listed(r)' = Listed(r)
  BY <1>1, SiteStays DEF PassInv
<1>4. Readable' = Readable /\ Done' = Done BY <1>1, <1>3, SameDisk
<1>5. /\ range' \subseteq Items
      /\ l = 0 /\ unheard = {} =>
           {i \in Items : i + ProbeSlack <= Unbroken + 1} \subseteq range'
  BY <1>1, RangeFacts DEF PassInv, FetchInv, DiskShape
<1>6. WholeFile => Readable = ToSet(disk.recs) /\ Done = ItemsOf(Readable)
  <2> SUFFICES ASSUME WholeFile PROVE Readable = ToSet(disk.recs) /\ Done = ItemsOf(Readable)
    OBVIOUS
  <2>1. ~Appends /\ tool # "applications" BY DEF WholeFile, Appends
  <2>2. Done = ItemsOf(Readable) BY <2>1 DEF PassInv, NoneHollow, Done, ItemsOf
  <2> QED BY <2>1, <2>2, WholeRecords DEF FetchInv
<1>7. OnceInv'
  <2>1. \A r, o \in mem' : r.item = o.item => r = o
    <3> SUFFICES ASSUME WholeFile, NEW r \in ToSet(disk.recs), NEW o \in ToSet(disk.recs),
                        r.item = o.item
                 PROVE  r = o
      BY <1>1, <1>6
    <3>1. PICK a \in DOMAIN disk.recs : disk.recs[a] = r BY DEF ToSet
    <3>2. PICK b \in DOMAIN disk.recs : disk.recs[b] = o BY DEF ToSet
    <3> QED BY <3>1, <3>2 DEF PassInv, OnceInv, OneEach
  <2>2. WholeFile => todo' \cap ItemsOf(mem') = {} BY <1>1, <1>6
  <2> QED BY <1>1, <1>3, <1>5, <2>1, <2>2 DEF PassInv, OnceInv
<1>8. NoneHollow' BY <1>1, <1>3, <1>4 DEF PassInv, NoneHollow
<1>9. CoverInv'
  <2> SUFFICES ASSUME clean' PROVE CoverInv' BY DEF CoverInv
  <2>1. Readable = ToSet(disk.recs) BY <1>2, WholeRecords DEF FetchInv
  <2>2. Done \subseteq ItemsOf(ToSet(disk.recs)) BY <2>1 DEF Done, ItemsOf
  <2>3. ASSUME NEW i \in range', i \notin todo' PROVE Settled(i)'
    <3>1. i \in Done BY <1>1, <2>3
    <3> QED BY <1>1, <1>3, <1>6, <2>2, <3>1 DEF Settled
  <2>4. WholeFile /\ pc' = "end" => ToSet(disk'.recs) = mem' BY <1>1, <1>6
  <2> QED BY <1>1, <1>2, <1>3, <1>5, <2>3, <2>4 DEF CoverInv
<1>10. ListInv' BY <1>1, <1>3, <1>4 DEF PassInv, ListInv
<1> QED BY <1>3, <1>7, <1>8, <1>9, <1>10 DEF PassInv

LEMMA ListingPass ==
  ASSUME FetchInv, PassInv, ListingFails
  PROVE  PassInv'
<1>1. /\ UNCHANGED <<site, disk, mem>> /\ pc' = "end" /\ todo' = {} /\ ~clean'
  BY DEF ListingFails, Fails
<1>2. /\ tool' = tool /\ size' = size /\ WholeFile' = WholeFile /\ Appends' = Appends
      /\ SiteTypes' /\ \A r : Listed(r)' = Listed(r)
  BY <1>1, SiteStays DEF PassInv
<1>3. Readable' = Readable BY <1>1, <1>2, SameDisk
<1>4. OnceInv' BY <1>1, <1>2 DEF PassInv, OnceInv
<1>5. CoverInv' BY <1>1 DEF CoverInv
<1> QED BY <1>1, <1>2, <1>3, <1>4, <1>5 DEF PassInv, NoneHollow, ListInv

LEMMA FetchLinePass ==
  ASSUME FetchInv, PassInv, NEW i \in Items, FetchLine(i)
  PROVE  PassInv'
<1>1. /\ UNCHANGED <<site, disk, mem, limit, range>> /\ Appends
      /\ pc = "fetch" /\ pc' = "saving" /\ todo' = todo \ {i}
  BY DEF FetchLine, Asked
<1>2. /\ tool' = tool /\ size' = size /\ WholeFile' = WholeFile /\ Appends' = Appends
      /\ Unbroken' = Unbroken /\ SiteTypes' /\ \A r : Listed(r)' = Listed(r)
  BY <1>1, SiteStays DEF PassInv
<1>3. Readable' = Readable BY <1>1, <1>2, SameDisk
<1>4. PICK got \in Answers(i) : Fails(got) /\ cur' = RecordOf(i, got)
  BY DEF FetchLine
<1>5. ~WholeFile /\ tool # "applications" /\ got # "hollow"
      /\ cur'.item = i /\ cur'.got = got
  BY <1>1, <1>4 DEF Appends, WholeFile, Answers, RecordOf, Rec
<1>6. Listed(cur)' \/ tool # "cemeteries"
  <2> SUFFICES ASSUME tool = "cemeteries", got # "failure"
               PROVE  cur'.list = size[i]
    BY <1>2, <1>5 DEF Listed
  <2>1. /\ size[i] \in Nat /\ size[i] <= MaxPages * PageSize /\ counted \in BOOLEAN
    BY DEF PassInv, SiteTypes
  <2>2. ListAll(size[i], counted) = Count(size[i]) BY <2>1, ListIsWhole
  <2>3. cur'.list = Len(Count(size[i])) BY <1>4, <2>2 DEF RecordOf, Rec
  <2> QED BY <2>1, <2>3 DEF Count
<1>7. OnceInv' BY <1>1, <1>2, <1>5 DEF PassInv, OnceInv
<1>8. NoneHollow' BY <1>1, <1>2, <1>3, <1>5 DEF PassInv, NoneHollow
<1>9. CoverInv'
  <2> SUFFICES ASSUME clean' PROVE CoverInv' BY DEF CoverInv
  <2>1. clean BY <1>4, FailsFacts
  <2>2. ASSUME NEW j \in range', j \notin todo' PROVE Settled(j)'
    <3>1. j = i \/ Settled(j) BY <1>1, <2>1, <2>2 DEF PassInv, CoverInv
    <3> QED BY <1>1, <1>2, <1>5, <3>1 DEF Settled
  <2> QED BY <1>1, <1>2, <1>5, <2>1, <2>2 DEF PassInv, CoverInv
<1>10. ListInv' BY <1>1, <1>2, <1>3, <1>6 DEF PassInv, ListInv
<1> QED BY <1>2, <1>7, <1>8, <1>9, <1>10 DEF PassInv

(* One more record leaves one for each item.                               *)
LEMMA OnceFacts ==
  ASSUME NEW s, s \in Seq(ToSet(s)), NEW r, OneEach(s)
  PROVE  /\ r.item \notin ItemsOf(ToSet(s)) => OneEach(Append(s, r))
         /\ OneEach(PutImage(s, r))
         /\ ItemsOf(ToSet(Append(s, r))) = ItemsOf(ToSet(s)) \cup {r.item}
         /\ ItemsOf(ToSet(s)) \cup {r.item} \subseteq ItemsOf(ToSet(PutImage(s, r)))
<1>1. /\ Len(s) \in Nat /\ DOMAIN s = 1 .. Len(s)
      /\ DOMAIN Append(s, r) = 1 .. Len(s) + 1
      /\ \A n \in 1 .. Len(s) : Append(s, r)[n] = s[n]
      /\ Append(s, r)[Len(s) + 1] = r
  OBVIOUS
<1>2. \A n \in 1 .. Len(s) : s[n].item \in ItemsOf(ToSet(s))
  BY <1>1 DEF ItemsOf, ToSet
<1>3. r.item \notin ItemsOf(ToSet(s)) => OneEach(Append(s, r))
  BY <1>1, <1>2 DEF OneEach
<1>4. ItemsOf(ToSet(Append(s, r))) = ItemsOf(ToSet(s)) \cup {r.item}
  BY AppendFacts DEF ItemsOf
<1>5. CASE r.item \in ItemsOf(ToSet(s))
  <2> DEFINE over == [n \in DOMAIN s |-> IF s[n].item = r.item THEN r ELSE s[n]]
  <2>1. PutImage(s, r) = over BY <1>5 DEF PutImage
  <2>2. DOMAIN over = DOMAIN s /\ \A n \in DOMAIN s : over[n].item = s[n].item OBVIOUS
  <2> HIDE DEF over
  <2>3. OneEach(over) BY <2>2 DEF OneEach
  <2>4. ItemsOf(ToSet(s)) \subseteq ItemsOf(ToSet(over))
    <3> SUFFICES ASSUME NEW n \in DOMAIN s PROVE s[n].item \in ItemsOf(ToSet(over))
      BY DEF ItemsOf, ToSet
    <3>1. over[n] \in ToSet(over) BY <2>2 DEF ToSet
    <3> QED BY <2>2, <3>1 DEF ItemsOf
  <2> QED BY <1>3, <1>4, <1>5, <2>1, <2>3, <2>4
<1>6. CASE r.item \notin ItemsOf(ToSet(s))
  <2>1. PutImage(s, r) = Append(s, r) BY <1>6 DEF PutImage
  <2> QED BY <1>3, <1>4, <1>6, <2>1
<1> QED BY <1>5, <1>6

LEMMA SavedOnce ==
  ASSUME NEW recs, IsFiniteSet(recs), \A r, o \in recs : r.item = o.item => r = o
  PROVE  OneEach(SetToSeq(recs))
<1> DEFINE n == Cardinality(recs)
           s == SetToSeq(recs)
<1>1. n \in Nat /\ ExistsBijection(1 .. n, recs) BY FS_CardinalityType
<1>2. \E f \in [1 .. n -> recs] : IsInjective(f)
  BY <1>1 DEF ExistsBijection, Bijection, Injection
<1>3. s \in [1 .. n -> recs] /\ IsInjective(s) BY <1>2 DEF SetToSeq
<1> HIDE DEF s
<1> QED BY <1>3 DEF OneEach, IsInjective, s

LEMMA FetchToMemoryPass ==
  ASSUME FetchInv, PassInv, NEW i \in Items, FetchToMemory(i)
  PROVE  PassInv'
<1>1. /\ UNCHANGED <<site, limit, range, cur>> /\ WholeFile
      /\ pc = "fetch" /\ i \in todo /\ todo' = todo \ {i}
  BY DEF FetchToMemory, Asked, MayBeNext
<1>2. /\ tool' = tool /\ size' = size /\ WholeFile' = WholeFile /\ Appends' = Appends
      /\ Unbroken' = Unbroken /\ SiteTypes' /\ \A r : Listed(r)' = Listed(r)
  BY <1>1, SiteStays DEF PassInv
<1>3. PICK got \in Answers(i) :
        /\ Fails(got)
        /\ mem' = IF got = "answer" THEN mem \cup {RecordOf(i, got)} ELSE mem
  BY DEF FetchToMemory
<1>4. /\ ~Appends /\ tool \notin {"applications", "cemeteries"}
      /\ got \in {"answer", "absent", "failure"}
      /\ size[i] > 0 \/ got # "answer"
      /\ got = "absent" => size[i] = 0
      /\ RecordOf(i, got).item = i /\ RecordOf(i, got).got = got
  BY <1>1, <1>3 DEF WholeFile, Appends, Answers, RecordOf, Rec, PassInv, SiteTypes
<1>5. \/ pc' = "saving" /\ disk' = Truncated
      \/ pc' \in {"fetch", "saving"} /\ disk' = disk
  BY <1>1 DEF FetchToMemory, OpenForSave
<1>6. Readable' \subseteq Readable /\ OneEach(disk'.recs)
  <2>1. CASE disk' = Truncated
    <3>1. disk'.recs = <<>> /\ disk'.tail = Part BY <2>1 DEF Truncated
    <3>2. Readable' = {} BY <3>1 DEF Readable, Part, ToSet
    <3> QED BY <3>1, <3>2 DEF OneEach
  <2>2. CASE disk' = disk BY <1>2, <2>2, SameDisk DEF PassInv, OnceInv
  <2> QED BY <1>5, <2>1, <2>2
<1>7. OnceInv'
  <2>1. i \notin ItemsOf(mem) /\ todo \cap ItemsOf(mem) = {}
    BY <1>1 DEF PassInv, OnceInv
  <2>2. ItemsOf(mem') \subseteq ItemsOf(mem) \cup {i} BY <1>3, <1>4 DEF ItemsOf
  <2>3. \A r, o \in mem' : r.item = o.item => r = o
    BY <1>3, <1>4, <2>1 DEF PassInv, OnceInv, ItemsOf
  <2> QED BY <1>1, <1>6, <2>1, <2>2, <2>3 DEF PassInv, OnceInv
<1>8. NoneHollow'
  BY <1>1, <1>2, <1>3, <1>4, <1>6 DEF PassInv, NoneHollow
<1>9. CoverInv'
  <2> SUFFICES ASSUME clean' PROVE CoverInv' BY DEF CoverInv
  <2>1. clean /\ got # "failure" BY <1>3, FailsFacts
  <2>2. ASSUME NEW j \in range', j \notin todo' PROVE Settled(j)'
    <3>1. j = i \/ Settled(j) BY <1>1, <2>1, <2>2 DEF PassInv, CoverInv
    <3>2. CASE j = i /\ got = "answer" BY <1>1, <1>2, <1>3, <1>4, <3>2 DEF Settled, ItemsOf
    <3>3. CASE j = i /\ got = "absent" BY <1>2, <1>4, <3>3 DEF Settled
    <3>4. CASE Settled(j)
      <4>1. mem \subseteq mem' BY <1>3
      <4> QED BY <1>1, <1>2, <3>4, <4>1 DEF Settled, ItemsOf
    <3> QED BY <1>4, <2>1, <3>1, <3>2, <3>3, <3>4
  <2> QED BY <1>1, <1>2, <1>4, <1>5, <2>1, <2>2 DEF PassInv, CoverInv
<1>10. ListInv' BY <1>2, <1>4 DEF ListInv
<1> QED BY <1>2, <1>7, <1>8, <1>9, <1>10 DEF PassInv

LEMMA FetchImagePass ==
  ASSUME FetchInv, PassInv, NEW i \in Items, FetchImage(i)
  PROVE  PassInv'
<1>1. /\ UNCHANGED <<site, disk, mem, limit, range>> /\ tool = "applications"
      /\ pc = "fetch" /\ i \in todo /\ todo' = todo \ {i}
  BY DEF FetchImage, Asked, MayBeNext
<1>2. /\ tool' = tool /\ size' = size /\ WholeFile' = WholeFile /\ Appends' = Appends
      /\ Unbroken' = Unbroken /\ SiteTypes' /\ \A r : Listed(r)' = Listed(r)
  BY <1>1, SiteStays DEF PassInv
<1>3. Readable' = Readable BY <1>1, <1>2, SameDisk
<1>4. PICK got \in Answers(i) :
        /\ Fails(got)
        /\ IF got = "answer" THEN cur' = RecordOf(i, got) /\ pc' = "saving"
           ELSE UNCHANGED <<cur, pc>>
  BY DEF FetchImage
<1>5. /\ ~WholeFile /\ ~Appends /\ got \in {"answer", "absent", "failure"}
      /\ got = "absent" => size[i] = 0
      /\ RecordOf(i, got).item = i
  BY <1>1, <1>4 DEF WholeFile, Appends, Answers, RecordOf, Rec, PassInv, SiteTypes
<1>6. pc' \in {"fetch", "saving"} BY <1>1, <1>4
<1>7. OnceInv' BY <1>1, <1>2, <1>5 DEF PassInv, OnceInv
<1>8. CoverInv'
  <2> SUFFICES ASSUME clean' PROVE CoverInv' BY DEF CoverInv
  <2>1. clean /\ got # "failure" BY <1>4, FailsFacts
  <2>2. ASSUME NEW j \in range', j \notin todo' PROVE Settled(j)'
    <3>1. j = i \/ Settled(j) BY <1>1, <2>1, <2>2 DEF PassInv, CoverInv
    <3>2. CASE j = i /\ got = "answer" BY <1>2, <1>4, <1>5, <3>2 DEF Settled
    <3>3. CASE j = i /\ got = "absent" BY <1>2, <1>5, <3>3 DEF Settled
    <3>4. CASE Settled(j) BY <1>1, <1>2, <3>4 DEF Settled
    <3> QED BY <1>5, <2>1, <3>1, <3>2, <3>3, <3>4
  <2> QED BY <1>1, <1>2, <1>5, <1>6, <2>1, <2>2 DEF PassInv, CoverInv
<1> QED BY <1>1, <1>2, <1>7, <1>8 DEF PassInv, NoneHollow, ListInv

LEMMA SavedPass ==
  ASSUME FetchInv, PassInv, Saved
  PROVE  PassInv'
<1>1. /\ UNCHANGED <<site, todo, mem, cur, limit, range, clean>>
      /\ pc \in {"saving", "final"}
      /\ pc' = (IF pc = "final" THEN "end" ELSE "fetch")
  BY DEF Saved, pass
<1>2. /\ tool' = tool /\ size' = size /\ WholeFile' = WholeFile /\ Appends' = Appends
      /\ Unbroken' = Unbroken /\ SiteTypes' /\ \A r : Listed(r)' = Listed(r)
  BY <1>1, SiteStays DEF PassInv
<1>3. disk.recs \in Seq(ToSet(disk.recs)) /\ OneEach(disk.recs)
  BY DEF FetchInv, DiskShape, PassInv, OnceInv
<1>4. todo \subseteq Items /\ \A r, o \in mem : r.item = o.item => r = o
  BY DEF PassInv, OnceInv
<1>5. CASE Appends /\ AppendLine(cur)
  <2>1. /\ ~WholeFile /\ tool # "applications" /\ pc = "saving" /\ pc' = "fetch"
        /\ cur.item \notin Done
    BY <1>1, <1>5 DEF WholeFile, Appends, FetchInv, WriteInv
  <2>2. Readable' \subseteq Readable \cup {cur} BY <1>2, <1>5, AppendStep
  <2>3. ToSet(disk.recs) \subseteq Readable BY ReadableFacts DEF FetchInv
  <2>4. cur.item \notin ItemsOf(ToSet(disk.recs))
    BY <2>1, <2>3 DEF PassInv, NoneHollow, Done, ItemsOf
  <2>5. /\ disk.tail = NoTail =>
             disk'.recs = Append(disk.recs, cur) /\ disk'.tail = NoTail
        /\ disk.tail # NoTail => disk'.recs = disk.recs
    BY <1>5 DEF AppendLine, FetchInv, DiskShape
  <2>6. /\ OneEach(Append(disk.recs, cur))
        /\ ItemsOf(ToSet(Append(disk.recs, cur))) = ItemsOf(ToSet(disk.recs)) \cup {cur.item}
    BY <1>3, <2>4, OnceFacts
  <2>7. OnceInv' BY <1>1, <1>2, <1>3, <1>4, <2>1, <2>5, <2>6 DEF OnceInv
  <2>8. NoneHollow' BY <1>1, <1>2, <2>1, <2>2 DEF PassInv, NoneHollow
  <2>9. CoverInv'
    <3> SUFFICES ASSUME clean PROVE CoverInv' BY <1>1 DEF CoverInv
    <3>1. disk.tail = NoTail BY <1>5, <2>1 DEF PassInv, CoverInv
    <3>2. ASSUME NEW j \in range, j \notin todo PROVE Settled(j)'
      <4>1. Settled(j) BY <2>1, <3>2 DEF PassInv, CoverInv
      <4> QED BY <1>1, <1>2, <2>1, <2>5, <2>6, <3>1, <4>1 DEF Settled
    <3> QED BY <1>1, <1>2, <2>1, <2>5, <3>1, <3>2 DEF PassInv, CoverInv
  <2>10. ListInv' BY <1>1, <1>2, <2>1, <2>2 DEF PassInv, ListInv
  <2> QED BY <1>2, <2>7, <2>8, <2>9, <2>10 DEF PassInv
<1>6. CASE WholeFile /\ SaveWhole
  <2>1. /\ ~Appends /\ tool \notin {"applications", "cemeteries"}
        /\ disk'.recs = SetToSeq(mem) /\ disk'.tail = NoTail
    BY <1>6 DEF WholeFile, Appends, SaveWhole
  <2>2. ToSet(disk'.recs) = mem /\ OneEach(disk'.recs)
    BY <1>4, <2>1, SavedFacts, SavedOnce DEF FetchInv, MemoryInv
  <2>3. Readable' = mem BY <2>1, <2>2 DEF Readable, NoTail
  <2>4. OnceInv' BY <1>1, <1>2, <1>4, <2>2 DEF PassInv, OnceInv
  <2>5. NoneHollow' BY <1>1, <1>2, <1>6, <2>3 DEF PassInv, NoneHollow
  <2>6. CoverInv'
    <3> SUFFICES ASSUME clean PROVE CoverInv' BY <1>1 DEF CoverInv
    <3>1. ASSUME NEW j \in range, j \notin todo PROVE Settled(j)'
      <4>1. Settled(j) BY <1>1, <3>1 DEF PassInv, CoverInv
      <4> QED BY <1>1, <1>2, <1>6, <4>1 DEF Settled
    <3> QED BY <1>1, <1>2, <2>1, <2>2, <3>1 DEF PassInv, CoverInv
  <2>7. ListInv' BY <1>2, <2>1 DEF ListInv
  <2> QED BY <1>2, <2>4, <2>5, <2>6, <2>7 DEF PassInv
<1>7. CASE tool = "applications" /\ WriteImage(cur)
  <2>1. ~WholeFile /\ ~Appends /\ pc = "saving" /\ pc' = "fetch"
    BY <1>1, <1>7 DEF WholeFile, Appends, FetchInv, WriteInv
  <2>2. disk'.recs = PutImage(disk.recs, cur)
    BY <1>7 DEF WriteImage, FetchInv, DiskShape
  <2>3. /\ OneEach(disk'.recs)
        /\ ItemsOf(ToSet(disk.recs)) \cup {cur.item} \subseteq ItemsOf(ToSet(disk'.recs))
    BY <1>3, <2>2, OnceFacts
  <2>4. OnceInv' BY <1>1, <1>2, <1>4, <2>1, <2>3 DEF OnceInv
  <2>5. CoverInv'
    <3> SUFFICES ASSUME clean PROVE CoverInv' BY <1>1 DEF CoverInv
    <3>1. ASSUME NEW j \in range, j \notin todo PROVE Settled(j)'
      <4>1. Settled(j) BY <2>1, <3>1 DEF PassInv, CoverInv
      <4> QED BY <1>1, <1>2, <2>1, <2>3, <4>1 DEF Settled
    <3> QED BY <1>1, <1>2, <2>1, <3>1 DEF PassInv, CoverInv
  <2> QED BY <1>2, <1>7, <2>4, <2>5 DEF PassInv, NoneHollow, ListInv
<1> QED BY <1>5, <1>6, <1>7 DEF Saved

LEMMA FinishPass ==
  ASSUME FetchInv, PassInv, Finish
  PROVE  PassInv'
<1>1. /\ UNCHANGED <<site, todo, mem, limit, range, clean>> /\ pc = "fetch"
      /\ limit = 0 => todo = {}
      /\ WholeFile => pc' = "final" /\ OpenForSave
      /\ ~WholeFile => pc' = "end" /\ UNCHANGED disk
  BY DEF Finish, pass, LimitReached
<1>2. /\ tool' = tool /\ size' = size /\ WholeFile' = WholeFile /\ Appends' = Appends
      /\ Unbroken' = Unbroken /\ SiteTypes' /\ \A r : Listed(r)' = Listed(r)
  BY <1>1, SiteStays DEF PassInv
<1>3. (disk' = Truncated /\ WholeFile) \/ disk' = disk
  BY <1>1 DEF OpenForSave
<1>4. Readable' \subseteq Readable /\ OneEach(disk'.recs)
  <2>1. CASE disk' = Truncated
    <3>1. disk'.recs = <<>> /\ disk'.tail = Part BY <2>1 DEF Truncated
    <3>2. Readable' = {} BY <3>1 DEF Readable, Part, ToSet
    <3> QED BY <3>1, <3>2 DEF OneEach
  <2>2. CASE disk' = disk BY <1>2, <2>2, SameDisk DEF PassInv, OnceInv
  <2> QED BY <1>3, <2>1, <2>2
<1>5. OnceInv' BY <1>1, <1>2, <1>4 DEF PassInv, OnceInv
<1>6. NoneHollow' BY <1>1, <1>2, <1>4 DEF PassInv, NoneHollow
<1>7. WholeFile => ~Appends /\ tool # "cemeteries" BY DEF WholeFile, Appends
<1>8. CoverInv'
  <2> SUFFICES ASSUME clean PROVE CoverInv' BY <1>1 DEF CoverInv
  <2>1. ASSUME NEW j \in range, j \notin todo PROVE Settled(j)'
    <3>1. Settled(j) BY <1>1, <2>1 DEF PassInv, CoverInv
    <3> QED BY <1>1, <1>2, <1>3, <3>1 DEF Settled
  <2> QED BY <1>1, <1>2, <1>7, <2>1 DEF PassInv, CoverInv
<1>9. ListInv' BY <1>1, <1>2, <1>4, <1>7 DEF PassInv, ListInv
<1> QED BY <1>2, <1>5, <1>6, <1>8, <1>9 DEF PassInv

LEMMA KillPass ==
  ASSUME FetchInv, PassInv, Kill
  PROVE  PassInv'
<1>1. /\ UNCHANGED site /\ pc' = "off" /\ mem' = {} /\ todo' = {}
      /\ disk' \in LeftBehind
  BY DEF Kill
<1>2. /\ tool' = tool /\ size' = size /\ WholeFile' = WholeFile /\ Appends' = Appends
      /\ Unbroken' = Unbroken /\ SiteTypes' /\ \A r : Listed(r)' = Listed(r)
  BY <1>1, SiteStays DEF PassInv
<1>3. disk.recs \in Seq(ToSet(disk.recs)) /\ OneEach(disk.recs)
  BY DEF FetchInv, DiskShape, PassInv, OnceInv
<1>4. SUFFICES /\ OneEach(disk'.recs)
               /\ tool # "applications" =>
                    \A r \in Readable' : r.got # "hollow"
                                         /\ (tool = "cemeteries" => Listed(r))
  BY <1>1, <1>2 DEF PassInv, OnceInv, NoneHollow, CoverInv, ListInv
<1>5. CASE disk' = disk
  BY <1>2, <1>3, <1>5, SameDisk DEF PassInv, NoneHollow, ListInv
<1>6. CASE pc \in {"saving", "final"} /\ ~WholeFile /\ Appends
  <2>1. pc = "saving" BY <1>6 DEF FetchInv, WriteInv
  <2>2. disk' = disk \/ disk' = [disk EXCEPT !.tail = Part]
          \/ disk' = [disk EXCEPT !.tail = Glued(cur)]
    BY <1>1, <1>6 DEF LeftBehind
  <2>3. CASE disk' # disk
    <3>1. disk'.recs = disk.recs /\ disk'.tail \in {Part, Glued(cur)}
      BY <2>2, <2>3 DEF FetchInv, DiskShape
    <3>2. Readable' \subseteq ToSet(disk.recs) \cup {cur}
      BY <3>1 DEF Readable, Part, Glued
    <3>3. ToSet(disk.recs) \subseteq Readable BY ReadableFacts DEF FetchInv
    <3> QED BY <1>3, <1>6, <2>1, <3>1, <3>2, <3>3 DEF PassInv, NoneHollow, ListInv
  <2> QED BY <1>5, <2>3
<1>7. CASE pc \in {"saving", "final"} /\ ~WholeFile /\ ~Appends
  <2>1. tool = "applications"
    BY <1>7, HarvestAssumption DEF FetchInv, DiskShape, Appends, WholeFile
  <2>2. PICK r : disk' = [disk EXCEPT !.recs = PutImage(@, r)]
    BY <1>1, <1>7 DEF LeftBehind
  <2>3. disk'.recs = PutImage(disk.recs, r) BY <2>2 DEF FetchInv, DiskShape
  <2> QED BY <1>3, <2>1, <2>3, OnceFacts
<1> QED
  <2>1. CASE pc \notin {"saving", "final"} \/ WholeFile
    BY <1>1, <1>5, <2>1 DEF LeftBehind
  <2> QED BY <1>6, <1>7, <2>1

LEMMA PassStarts ==
  ASSUME Init PROVE PassInv
<1>1. SiteTypes
  <2>1. /\ LastItem \in Nat \ {0} /\ PageSize \in Nat \ {0} /\ MaxPages \in Nat \ {0}
        /\ MaxSize \in Nat /\ MaxSize < PageSize * MaxPages
    BY HarvestAssumption
  <2>2. PICK odd \in Items, n \in 0 .. (IF tool = "cemeteries" THEN MaxSize ELSE 1) :
          size = [i \in Items |-> IF i = odd THEN n ELSE 1]
    BY DEF Init
  <2>3. n \in Nat /\ (tool = "cemeteries" => n <= MaxSize) BY <2>1, <2>2
  <2>4. size \in [Items -> Nat] BY <2>2, <2>3
  <2>5. PageSize * MaxPages = MaxPages * PageSize /\ PageSize * MaxPages \in Nat \ {0}
    BY <2>1
  <2>6. tool = "cemeteries" => \A i \in Items : size[i] <= MaxPages * PageSize
    <3> DEFINE most == MaxPages * PageSize
    <3>1. most \in Nat \ {0} /\ MaxSize < most BY <2>1, <2>5
    <3> HIDE DEF most
    <3>2. ASSUME tool = "cemeteries", NEW i \in Items PROVE size[i] <= most
      BY <2>1, <2>2, <2>3, <3>1, <3>2
    <3> QED BY <3>2 DEF most
  <2> QED BY <2>4, <2>6 DEF Init, SiteTypes
<1>2. disk.recs = <<>> /\ disk.tail = NoTail BY DEF Init, Nothing
<1>3. Readable = {} BY <1>2 DEF Readable, NoTail, ToSet
<1> QED
  BY <1>1, <1>2, <1>3
  DEF Init, PassInv, OnceInv, OneEach, NoneHollow, CoverInv, ListInv, ItemsOf

LEMMA PassStep ==
  ASSUME FetchInv, PassInv, [Next]_vars
  PROVE  PassInv'
<1>1. CASE \E l \in 0 .. 1, unheard \in {{}} \cup {{i} : i \in Items} :
             Start(l, unheard)
  BY <1>1, StartPass
<1>2. CASE Steps
  BY <1>2, FetchLinePass, FetchToMemoryPass, FetchImagePass, SavedPass, FinishPass
  DEF Steps
<1>3. CASE UNCHANGED vars
  <2>1. UNCHANGED <<site, disk, pc, limit, range, clean, todo, mem, cur>>
    BY <1>3 DEF vars, pass
  <2>2. /\ tool' = tool /\ size' = size /\ WholeFile' = WholeFile /\ Appends' = Appends
        /\ Unbroken' = Unbroken /\ SiteTypes' /\ \A r : Listed(r)' = Listed(r)
    BY <2>1, SiteStays DEF PassInv
  <2>3. Readable' = Readable BY <2>1, <2>2, SameDisk
  <2>4. \A i : Settled(i)' = Settled(i) BY <2>1, <2>2 DEF Settled
  <2> QED BY <2>1, <2>2, <2>3, <2>4 DEF PassInv, OnceInv, NoneHollow, CoverInv, ListInv
<1> QED BY <1>1, <1>2, <1>3, ListingPass, KillPass DEF Next

(* PassIsComplete: a pass without limit and failure, over a file no kill   *)
(* has torn, leaves one record of every item there is in its range, the    *)
(* range has what the probe owes, and the record of a cemetery has all its *)
(* veterans (cgr_client.list_all_veterans_in_cemetery,                     *)
(* scrape_digitalprairie.find_max_id, the resuming of each tool).          *)
THEOREM PassesAreComplete == Spec => []PassIsComplete
<1>1. Init => FetchInv /\ PassInv BY FetchStarts, PassStarts
<1>2. FetchInv /\ PassInv /\ [Next]_vars => FetchInv' /\ PassInv'
  BY FetchKept, PassStep
<1>3. FetchInv /\ PassInv => PassIsComplete
  <2> SUFFICES ASSUME FetchInv, PassInv, pc = "end", clean, limit = 0
               PROVE  PassIsComplete
    BY DEF PassIsComplete
  <2>1. ASSUME NEW i \in range \cup {j \in Items : j + ProbeSlack <= Unbroken + 1},
               size[i] > 0 \/ Appends
        PROVE  Cardinality({n \in DOMAIN disk.recs : disk.recs[n].item = i}) = 1
    <3>1. i \in range /\ todo = {} BY <2>1 DEF PassInv, CoverInv
    <3>2. Settled(i) BY <3>1 DEF PassInv, CoverInv
    <3>3. i \in ItemsOf(ToSet(disk.recs))
      BY <2>1, <3>2 DEF Settled, PassInv, CoverInv, SiteTypes
    <3>4. PICK n \in DOMAIN disk.recs : disk.recs[n].item = i
      BY <3>3 DEF ItemsOf, ToSet
    <3>5. {m \in DOMAIN disk.recs : disk.recs[m].item = i} = {n}
      BY <3>4 DEF PassInv, OnceInv, OneEach
    <3> QED BY <3>5, FS_Singleton
  <2>2. \A r \in Kept : tool = "cemeteries" /\ r.got # "failure" => r.list = size[r.item]
    BY DEF Kept, PassInv, ListInv, Listed
  <2> QED BY <2>1, <2>2 DEF PassIsComplete
<1> QED BY <1>1, <1>2, <1>3, PTL DEF Spec
-----------------------------------------------------------------------------
(* What kills cost.  What the tail of a file of lines takes with it when   *)
(* the next line is put behind it.                                         *)
Risk == IF disk.tail = NoTail THEN 0 ELSE IF disk.tail = Part THEN 1 ELSE 2

LossInv ==
  /\ broken \in Nat
  /\ Appends => IsFiniteSet(Lost) /\ Cardinality(Lost) + Risk <= 2 * broken
  /\ tool \in {"pages", "applications"} => disk.tail = NoTail /\ Lost = {}
  /\ tool = "items" /\ broken = 0 =>
       IF pc \in {"saving", "final"} THEN made \subseteq ItemsOf(mem) ELSE Lost = {}

LEMMA TailRead ==
  ASSUME NEW line, disk.tail = Glued(line)
  PROVE  Readable = ToSet(disk.recs) \cup {line}
<1> DEFINE tail == disk.tail
<1>1. Len(tail) = 2 /\ tail[2] = line BY DEF Glued
<1> HIDE DEF tail
<1>2. {1} \cap {Len(tail) - 1} = {1} BY <1>1
<1>3. Readable = ToSet(disk.recs) \cup {tail[2] : x \in {1} \cap {Len(tail) - 1}}
  BY DEF Readable, tail
<1> QED BY <1>1, <1>2, <1>3

LEMMA OneMore ==
  ASSUME NEW S, IsFiniteSet(S), NEW a, NEW T, T \subseteq S \cup {a}
  PROVE  IsFiniteSet(T) /\ Cardinality(T) <= Cardinality(S) + 1
<1>1. IsFiniteSet(S \cup {a}) /\ Cardinality(S \cup {a}) <= Cardinality(S) + 1
  <2>1. Cardinality(S) \in Nat BY FS_CardinalityType
  <2>2. /\ IsFiniteSet(S \cup {a})
        /\ Cardinality(S \cup {a}) = IF a \in S THEN Cardinality(S) ELSE Cardinality(S) + 1
    BY FS_AddElement
  <2> QED BY <2>1, <2>2
<1>2. IsFiniteSet(T) /\ Cardinality(T) <= Cardinality(S \cup {a})
  BY <1>1, FS_Subset
<1> QED
  BY <1>1, <1>2, FS_CardinalityType

LEMMA TwoMore ==
  ASSUME NEW S, IsFiniteSet(S), NEW a, NEW b, NEW T, T \subseteq S \cup {a, b}
  PROVE  IsFiniteSet(T) /\ Cardinality(T) <= Cardinality(S) + 2
<1>1. IsFiniteSet(S \cup {a}) /\ Cardinality(S \cup {a}) <= Cardinality(S) + 1
  BY OneMore
<1>2. T \subseteq (S \cup {a}) \cup {b} OBVIOUS
<1>3. IsFiniteSet(T) /\ Cardinality(T) <= Cardinality(S \cup {a}) + 1
  BY <1>1, <1>2, OneMore
<1> QED BY <1>1, <1>3, FS_CardinalityType

(* A step that writes nothing costs nothing.                               *)
LEMMA QuietLoss ==
  ASSUME FetchInv, LossInv, UNCHANGED <<tool, disk, past>>,
         tool = "items" => {pc, pc'} \cap {"saving", "final"} = {} \/ UNCHANGED <<pc, mem>>
  PROVE  LossInv'
<1>1. made' = made /\ broken' = broken /\ tool' = tool /\ disk' = disk BY DEF past
<1>2. Done' = Done /\ Appends' = Appends BY SameDisk
<1>3. Lost' = Lost /\ Risk' = Risk BY <1>1, <1>2 DEF Lost, Risk
<1> QED BY <1>1, <1>2, <1>3 DEF LossInv, ItemsOf

(* The file taken away to be rewritten is in memory.                       *)
LEMMA OpenedLoss ==
  ASSUME FetchInv, LossInv, tool = "items", UNCHANGED <<tool, past>>, pc = "fetch",
         Readable \subseteq mem'
  PROVE  pc' \in {"saving", "final"} => LossInv'
<1>1. made' = made /\ broken' = broken /\ tool' = "items" BY DEF past
<1>2. Done \subseteq ItemsOf(mem') BY DEF Done, ItemsOf
<1> QED BY <1>1, <1>2 DEF LossInv, Lost, Appends, ItemsOf

LEMMA FetchToMemoryLoss ==
  ASSUME FetchInv, LossInv, NEW i, FetchToMemory(i)
  PROVE  LossInv'
<1>1. /\ UNCHANGED <<tool, past>> /\ pc = "fetch" /\ WholeFile /\ Readable \subseteq mem
  BY DEF FetchToMemory, Asked, site, FetchInv, MemoryInv
<1>2. Readable \subseteq mem' BY <1>1 DEF FetchToMemory
<1>3. \/ pc' = "saving" /\ OpenForSave
      \/ UNCHANGED <<pc, disk>>
  BY DEF FetchToMemory
<1>4. CASE tool = "items" /\ pc' = "saving" BY <1>1, <1>2, <1>4, OpenedLoss
<1>5. CASE tool # "items" \/ UNCHANGED <<pc, disk>>
  <2>1. UNCHANGED disk BY <1>3, <1>5 DEF OpenForSave
  <2> QED BY <1>1, <1>5, <2>1, QuietLoss
<1> QED BY <1>3, <1>4, <1>5

LEMMA FinishLoss ==
  ASSUME FetchInv, LossInv, Finish
  PROVE  LossInv'
<1>1. UNCHANGED <<tool, past, mem>> /\ pc = "fetch" BY DEF Finish, site
<1>2. CASE tool = "items"
  <2>1. WholeFile /\ pc' = "final" BY <1>2 DEF WholeFile, Finish
  <2>2. Readable \subseteq mem' BY <1>1, <2>1 DEF FetchInv, MemoryInv
  <2> QED BY <1>1, <1>2, <2>1, <2>2, OpenedLoss
<1>3. CASE tool # "items"
  <2>1. UNCHANGED disk BY <1>3 DEF Finish, OpenForSave
  <2> QED BY <1>1, <1>3, <2>1, QuietLoss
<1> QED BY <1>2, <1>3

(* A line behind a torn one goes with it.                                  *)
LEMMA AppendLoss ==
  ASSUME FetchInv, PassInv, LossInv, Saved, Appends
  PROVE  LossInv'
<1>1. /\ tool' = tool /\ broken' = broken /\ made' = made \cup Done' \cup {cur.item}
      /\ AppendLine(cur) /\ pc = "saving" /\ Appends' /\ ~WholeFile
      /\ tool \notin {"items", "pages", "applications"}
  BY DEF Saved, site, Appends, WholeFile, FetchInv, WriteInv
<1>2. /\ IsFiniteSet(Lost) /\ Cardinality(Lost) + Risk <= 2 * broken /\ broken \in Nat
      /\ Cardinality(Lost) \in Nat
  BY FS_CardinalityType DEF LossInv
<1>3. \A r \in Readable \cup {cur} : r.got # "hollow"
  BY <1>1 DEF PassInv, NoneHollow
<1>4. Lost' = (made \cup {cur.item}) \ Done' BY <1>1 DEF Lost
<1>5. SUFFICES IsFiniteSet(Lost') /\ Cardinality(Lost') + Risk' <= 2 * broken
  BY <1>1, <1>2 DEF LossInv
<1>6. CASE disk.tail = NoTail
  <2>1. disk' = [recs |-> Append(disk.recs, cur), tail |-> NoTail]
    BY <1>1, <1>6 DEF AppendLine, FetchInv, DiskShape
  <2>2. ToSet(disk'.recs) = ToSet(disk.recs) \cup {cur}
    BY <2>1, AppendFacts DEF FetchInv, DiskShape
  <2>3. Readable = ToSet(disk.recs) /\ Readable' = ToSet(disk'.recs)
    BY <1>6, <2>1 DEF Readable, NoTail
  <2>4. Done' = Done \cup {cur.item} BY <1>3, <2>2, <2>3 DEF Done, ItemsOf
  <2>5. Lost' \subseteq Lost BY <1>4, <2>4 DEF Lost
  <2>6. IsFiniteSet(Lost') /\ Cardinality(Lost') <= Cardinality(Lost)
    BY <1>2, <2>5, FS_Subset
  <2>7. Risk = 0 /\ Risk' = 0 BY <1>6, <2>1 DEF Risk
  <2>8. Cardinality(Lost') \in Nat BY <2>6, FS_CardinalityType
  <2> QED BY <1>2, <2>6, <2>7, <2>8
<1>7. CASE disk.tail # NoTail
  <2>1. disk' = [recs |-> disk.recs, tail |-> NoTail]
    BY <1>1, <1>7 DEF AppendLine, FetchInv, DiskShape
  <2>2. Readable' = ToSet(disk.recs) BY <2>1 DEF Readable, NoTail
  <2>3. Risk' = 0 BY <2>1 DEF Risk
  <2>4. CASE disk.tail = Part
    <3>1. Readable = ToSet(disk.recs) BY <2>4 DEF Readable, Part
    <3>2. Done' = Done BY <2>2, <3>1 DEF Done, ItemsOf
    <3>3. Lost' \subseteq Lost \cup {cur.item} BY <1>4, <3>2 DEF Lost
    <3>4. IsFiniteSet(Lost') /\ Cardinality(Lost') <= Cardinality(Lost) + 1
      BY <1>2, <3>3, OneMore
    <3>5. Risk = 1 BY <2>4 DEF Risk, NoTail, Part
    <3>6. Cardinality(Lost') \in Nat BY <3>4, FS_CardinalityType
    <3> QED BY <1>2, <2>3, <3>4, <3>5, <3>6
  <2>5. CASE disk.tail # Part
    <3>1. PICK line : disk.tail = Glued(line) BY <1>7, <2>5 DEF FetchInv, DiskShape
    <3>2. Readable = ToSet(disk.recs) \cup {line} BY <3>1, TailRead
    <3>3. Done \subseteq Done' \cup {line.item} BY <2>2, <3>2 DEF Done, ItemsOf
    <3>4. Lost' \subseteq Lost \cup {cur.item, line.item} BY <1>4, <3>3 DEF Lost
    <3>5. IsFiniteSet(Lost') /\ Cardinality(Lost') <= Cardinality(Lost) + 2
      BY <1>2, <3>4, TwoMore
    <3>6. Risk = 2 BY <1>7, <2>5 DEF Risk
    <3>7. Cardinality(Lost') \in Nat BY <3>5, FS_CardinalityType
    <3> QED BY <1>2, <2>3, <3>5, <3>6, <3>7
  <2> QED BY <2>4, <2>5
<1> QED BY <1>6, <1>7

LEMMA SavedLoss ==
  ASSUME FetchInv, PassInv, LossInv, Saved
  PROVE  LossInv'
<1>1. CASE Appends BY <1>1, AppendLoss
<1>2. CASE ~Appends
  <2>1. /\ tool' = tool /\ broken' = broken /\ made' = made \cup Done'
        /\ pc \in {"saving", "final"} /\ pc' \in {"end", "fetch"} /\ ~Appends'
        /\ tool \in {"items", "pages", "applications"}
    BY <1>2, HarvestAssumption DEF Saved, site, Appends, FetchInv, DiskShape
  <2>2. Lost' = made \ Done' BY <2>1 DEF Lost
  <2>3. CASE tool = "items"
    <3>1. disk' = [recs |-> SetToSeq(mem), tail |-> NoTail] /\ IsFiniteSet(mem)
      BY <2>3 DEF Saved, SaveWhole, Appends, FetchInv, MemoryInv
    <3>2. Readable' = mem BY <3>1, SavedFacts DEF Readable, NoTail
    <3>3. \A r \in mem : r.got # "hollow" BY <2>3 DEF PassInv, NoneHollow
    <3>4. Done' = ItemsOf(mem) BY <3>2, <3>3 DEF Done, ItemsOf
    <3> QED BY <2>1, <2>2, <2>3, <3>4 DEF LossInv
  <2>4. CASE tool # "items"
    <3>1. KeepsRecords BY SavedStep
    <3>2. disk.tail = NoTail /\ made \subseteq Done BY <2>1, <2>4 DEF LossInv, Lost
    <3>3. Kept \subseteq Kept' BY <2>4, <3>1, <3>2 DEF KeepsRecords
    <3>4. Done = ItemsOf(Kept) /\ Done' = ItemsOf(Kept') BY DEF Done, Kept, ItemsOf
    <3>5. Done \subseteq Done' BY <3>3, <3>4 DEF ItemsOf
    <3>6. disk'.tail = NoTail
      BY <1>2, <2>1, <3>2
      DEF Saved, SaveWhole, WriteImage, FetchInv, DiskShape
    <3> QED BY <2>1, <2>2, <2>4, <3>2, <3>5, <3>6 DEF LossInv
  <2> QED BY <2>3, <2>4
<1> QED BY <1>1, <1>2

LEMMA KillLoss ==
  ASSUME FetchInv, LossInv, Kill
  PROVE  LossInv'
<1>1. /\ tool' = tool /\ made' = made \cup Done' /\ Appends' = Appends /\ pc' = "off"
      /\ disk' \in LeftBehind /\ broken' = IF pc = "fetch" THEN broken ELSE broken + 1
      /\ pc \in {"fetch", "saving", "final"} /\ broken \in Nat
  BY DEF Kill, site, Appends, LossInv
<1>2. Lost' = made \ Done' /\ broken' \in Nat BY <1>1 DEF Lost
<1>3. CASE Appends
  <2>1. /\ IsFiniteSet(Lost) /\ Cardinality(Lost) + Risk <= 2 * broken
        /\ Cardinality(Lost) \in Nat /\ Risk \in 0 .. 2
    BY <1>3, FS_CardinalityType DEF LossInv, Risk
  <2>2. tool \notin {"items", "pages", "applications"} /\ ~WholeFile
    BY <1>3 DEF Appends, WholeFile
  <2>3. SUFFICES IsFiniteSet(Lost') /\ Cardinality(Lost') + Risk' <= 2 * broken'
    BY <1>1, <1>2, <2>2 DEF LossInv
  <2>4. CASE disk' = disk
    <3>1. Done' = Done /\ Risk' = Risk BY <1>1, <2>4, SameDisk DEF Risk
    <3>2. Lost' = Lost BY <1>2, <3>1 DEF Lost
    <3> QED BY <1>1, <2>1, <3>1, <3>2
  <2>5. CASE disk' # disk
    <3>1. broken' = broken + 1 BY <1>1, <2>2, <2>5 DEF LeftBehind
    <3>2. CASE disk' = [disk EXCEPT !.tail = Part]
      <4>1. disk'.recs = disk.recs /\ disk'.tail = Part
        BY <3>2 DEF FetchInv, DiskShape
      <4>2. Readable' = ToSet(disk.recs) /\ Risk' = 1
        BY <4>1 DEF Readable, Risk, NoTail, Part
      <4>3. CASE disk.tail \in {NoTail, Part}
        <5>1. Readable = ToSet(disk.recs) BY <4>3, ReadableFacts DEF FetchInv
        <5>2. Lost' = Lost BY <1>2, <4>2, <5>1 DEF Lost, Done, ItemsOf
        <5> QED BY <1>1, <2>1, <3>1, <4>2, <5>2
      <4>4. CASE disk.tail \notin {NoTail, Part}
        <5>1. PICK line : disk.tail = Glued(line) BY <4>4 DEF FetchInv, DiskShape
        <5>2. Readable = ToSet(disk.recs) \cup {line} BY <5>1, TailRead
        <5>3. Done \subseteq Done' \cup {line.item} BY <4>2, <5>2 DEF Done, ItemsOf
        <5>4. Lost' \subseteq Lost \cup {line.item} BY <1>2, <5>3 DEF Lost
        <5>5. IsFiniteSet(Lost') /\ Cardinality(Lost') <= Cardinality(Lost) + 1
          BY <2>1, <5>4, OneMore
        <5>6. Cardinality(Lost') \in Nat BY <5>5, FS_CardinalityType
        <5> QED BY <1>1, <2>1, <3>1, <4>2, <5>5, <5>6
      <4> QED BY <4>3, <4>4
    <3>3. CASE disk.tail = NoTail /\ disk' = [disk EXCEPT !.tail = Glued(cur)]
      <4>1. disk'.recs = disk.recs /\ disk'.tail = Glued(cur)
        BY <3>3 DEF FetchInv, DiskShape
      <4>2. Readable \subseteq Readable'
        BY <3>3, <4>1, ReadableFacts DEF FetchInv, Readable
      <4>3. Lost' \subseteq Lost BY <1>2, <4>2 DEF Lost, Done, ItemsOf
      <4>4. IsFiniteSet(Lost') /\ Cardinality(Lost') <= Cardinality(Lost)
        BY <2>1, <4>3, FS_Subset
      <4>5. Risk = 0 /\ Risk' \in 0 .. 2 BY <3>3 DEF Risk
      <4>6. Cardinality(Lost') \in Nat BY <4>4, FS_CardinalityType
      <4> QED BY <1>1, <2>1, <3>1, <4>4, <4>5, <4>6
    <3> QED BY <1>1, <1>3, <2>2, <2>5, <3>2, <3>3 DEF LeftBehind
  <2> QED BY <2>4, <2>5
<1>4. CASE tool = "items"
  <2>1. ~Appends /\ WholeFile /\ disk' = disk
    BY <1>1, <1>4 DEF Appends, WholeFile, LeftBehind
  <2>2. Done' = Done BY <1>1, <2>1, SameDisk
  <2> QED BY <1>1, <1>2, <1>4, <2>1, <2>2 DEF LossInv, Lost
<1>5. CASE tool \in {"pages", "applications"}
  <2>1. KeepsRecords BY KillStep
  <2>2. disk.tail = NoTail /\ made \subseteq Done /\ ~Appends
    BY <1>5 DEF LossInv, Lost, Appends
  <2>3. Kept \subseteq Kept' BY <1>5, <2>1, <2>2 DEF KeepsRecords
  <2>4. Done = ItemsOf(Kept) /\ Done' = ItemsOf(Kept') BY DEF Done, Kept, ItemsOf
  <2>5. Done \subseteq Done' BY <2>3, <2>4 DEF ItemsOf
  <2>6. disk'.tail = NoTail BY <1>1, <2>2 DEF LeftBehind, FetchInv, DiskShape
  <2> QED BY <1>1, <1>2, <1>5, <2>2, <2>5, <2>6 DEF LossInv
<1> QED BY <1>3, <1>4, <1>5, HarvestAssumption DEF FetchInv, DiskShape, Appends

LEMMA LossStep ==
  ASSUME FetchInv, PassInv, LossInv, [Next]_vars
  PROVE  LossInv'
<1>1. ASSUME NEW l, NEW unheard, Start(l, unheard) PROVE LossInv'
  BY <1>1, QuietLoss DEF Start, site
<1>2. CASE ListingFails BY <1>2, QuietLoss DEF ListingFails, site
<1>3. ASSUME NEW i, FetchLine(i) \/ FetchImage(i) PROVE LossInv'
  BY <1>3, QuietLoss DEF FetchLine, FetchImage, Asked, site, Appends
<1>4. CASE UNCHANGED vars BY <1>4, QuietLoss DEF vars, site
<1> QED
  BY <1>1, <1>2, <1>3, <1>4, FetchToMemoryLoss, FinishLoss, SavedLoss, KillLoss
  DEF Next, Steps

LEMMA LossStarts ==
  ASSUME Init PROVE LossInv
<1>1. IsFiniteSet({}) /\ Cardinality({}) = 0 BY FS_EmptySet
<1>2. disk.tail = NoTail /\ Lost = {} /\ broken = 0 /\ pc = "off"
  BY DEF Init, Nothing, Lost
<1> QED BY <1>1, <1>2 DEF LossInv, Risk

(* LossesAreBounded: started again and again over what kills left, a tool  *)
(* that appends loses no more than two records for each write broken off,  *)
(* one that replaces its file none, and the scraper of Digital Prairie has *)
(* all of them in memory while its file is away, until a kill there        *)
(* (cgr_ok_scraper.py, cgr_enrich_run.py, cgr_xref_run.py,                 *)
(* fetch_pensioncard_pages.save_cache, scrape_digitalprairie.save_records).*)
THEOREM LossesStayBounded == Spec => []LossesAreBounded
<1>1. Init => FetchInv /\ PassInv /\ LossInv BY FetchStarts, PassStarts, LossStarts
<1>2. FetchInv /\ PassInv /\ LossInv /\ [Next]_vars => FetchInv' /\ PassInv' /\ LossInv'
  BY FetchKept, PassStep, LossStep
<1>3. FetchInv /\ LossInv => LossesAreBounded
  <2> SUFFICES ASSUME FetchInv, LossInv PROVE LossesAreBounded OBVIOUS
  <2>1. Appends => Cardinality(Lost) <= 2 * broken
    <3> SUFFICES ASSUME Appends PROVE Cardinality(Lost) <= 2 * broken OBVIOUS
    <3>1. Cardinality(Lost) \in Nat /\ Risk \in Nat
      BY FS_CardinalityType DEF LossInv, Risk
    <3> QED BY <3>1 DEF LossInv
  <2>2. tool = "items" => broken > 0 \/ Lost \subseteq ItemsOf(mem)
    BY DEF LossInv, Lost
  <2> QED BY <2>1, <2>2 DEF LossInv, LossesAreBounded
<1> QED BY <1>1, <1>2, <1>3, PTL DEF Spec
-----------------------------------------------------------------------------
(* The viewer.  The archives there may be, and the files in them.          *)
Archives == V!Places \cup {"index"} \cup ToSet(PartNames)
Files ==
  [kind : {"page", "pic", "card", "all"},
   name : DOMAIN CardOf \cup V!Places \cup {"all"}, build : Nat, cut : BOOLEAN]

ViewerTypes ==
  /\ img \subseteq DOMAIN CardOf /\ mode \in {"letters", "parts"}
  /\ builds \in Nat /\ bpc \in {"off", "letters", "index"}
  /\ DOMAIN byLetter \subseteq V!Places
  /\ tree = [l \in DOMAIN tree |-> tree[l]] /\ DOMAIN tree \subseteq V!Places
  /\ \A l \in DOMAIN tree :
       /\ tree[l] = [page |-> tree[l].page, build |-> builds,
                     pics |-> tree[l].pics]
       /\ tree[l].pics \subseteq img
  /\ bpc = "letters" => DOMAIN tree \subseteq DOMAIN byLetter
  /\ plan \in Seq([name : Archives, files : SUBSET Files]) /\ open \subseteq Files
  /\ partial \in [Archives -> [state : {"none", "torn", "closed"},
                               entries : Seq(Files)]]
  /\ zips \in [Archives -> Seq(Files)]
  /\ zpc \in {"off", "next", "adding", "done"} /\ resumed \in BOOLEAN
  /\ packed \subseteq Archives \X BOOLEAN

(* The builder and the packer take turns, and the packer has files to add  *)
(* while it fills an archive only.                                         *)
TurnsInv ==
  /\ bpc # "off" => zpc = "off"
  /\ zpc \in {"off", "done"} => plan = <<>>
  /\ zpc # "adding" => open = {}
  /\ zpc = "adding" => plan # <<>>

(* No file is in an archive twice, or there and still to add.              *)
Distinct(files) == \A e, f \in files : V!Key(e) = V!Key(f) => e = f

OnceIn ==
  /\ \A p \in Archives :
       V!NoneTwice(zips[p]) /\ V!NoneTwice(partial[p].entries)
  /\ Distinct(open)
  /\ zpc = "adding" =>
       \A e \in open : V!Key(e) \notin V!Keys(partial[plan[1].name].entries)

(* What the archive under way shall have is in it or still to add; what is *)
(* in it was asked for, if it was begun anew.                              *)
AllIn(entries, files) == \A k \in DOMAIN entries : entries[k] \in files

WantedNow == IF mode = "letters" THEN V!FilesOf(plan[1].name) ELSE plan[1].files

FillInv ==
  /\ zpc = "adding" =>
       \A e \in WantedNow :
         \/ e \in open
         \/ V!Key(e) \in V!Keys(partial[plan[1].name].entries)
  /\ zpc = "adding" => open \subseteq asked
  /\ zpc = "adding" /\ ~resumed => AllIn(partial[plan[1].name].entries, asked)

(* An archive that is finished has the files of its letter, and only those *)
(* asked for if it was begun anew.                                         *)
PackedInv ==
  zpc # "off" => \A e \in packed :
    /\ mode = "letters" =>
         \A f \in V!FilesOf(e[1]) : V!Key(f) \in V!Keys(zips[e[1]])
    /\ e[2] \/ AllIn(zips[e[1]], asked)

(* What was asked for is in a part that is finished, or in the plan.       *)
Planned(n) == IF mode = "letters" THEN V!FilesOf(plan[n].name) ELSE plan[n].files

PlannedInv ==
  /\ \A j, k \in DOMAIN plan :
        mode = "parts" /\ plan[j].name = plan[k].name => j = k
  /\ \A k \in DOMAIN plan : Distinct(plan[k].files)
  /\ zpc # "off" => \A k \in DOMAIN plan : Planned(k) \subseteq asked
  /\ zpc # "off" /\ mode = "parts" => \A f \in asked :
       \/ \E k \in DOMAIN plan : f \in plan[k].files
       \/ \E e \in packed :
            /\ V!Key(f) \in V!Keys(zips[e[1]])
            /\ \A k \in DOMAIN plan : plan[k].name # e[1]

ViewerInv ==
  ViewerTypes /\ TurnsInv /\ OnceIn /\ FillInv /\ PackedInv /\ PlannedInv

(* What an archive has depends on the tree alone.                          *)
LEMMA TreeFiles ==
  ASSUME UNCHANGED tree
  PROVE  \A name : V!FilesOf(name)' = V!FilesOf(name)
BY DEF V!FilesOf, V!CollectIndexFiles, V!CollectFilesForLetter, V!Pages, V!Shared,
       V!Entry

(* The operators of the library mean the same in Viewer.                   *)
LEMMA SameLibrary ==
  /\ \A S : V!IsFiniteSet(S) = IsFiniteSet(S)
  /\ \A S : V!Cardinality(S) = Cardinality(S)
  /\ \A S : V!SetToSeq(S) = SetToSeq(S)
  /\ \A s : V!ToSet(s) = ToSet(s)
  /\ \A S : V!Min(S) = Min(S)
<1>1. \A S : V!IsFiniteSet(S) = IsFiniteSet(S)
  BY DEF V!IsFiniteSet, IsFiniteSet
<1>2. \A S : V!Cardinality(S) = Cardinality(S)
  BY Zenon DEF V!Cardinality, Cardinality
<1>3. \A S : V!SetToSeq(S) = SetToSeq(S)
  BY <1>2, Zenon DEF V!SetToSeq, SetToSeq, V!IsInjective, IsInjective
<1>4. /\ \A s : V!ToSet(s) = ToSet(s)
      /\ \A S : V!Min(S) = Min(S)
  BY Zenon DEF V!ToSet, ToSet, V!Min, Min
<1> QED BY <1>1, <1>2, <1>3, <1>4

(* What there is to pack, whole or for an archive.                         *)
LEMMA IterFacts ==
  ASSUME ViewerTypes
  PROVE  /\ V!IterFiles \subseteq Files /\ Distinct(V!IterFiles)
         /\ \A e \in V!IterFiles : e.kind = "page" => e.build = builds
         /\ \A name : V!FilesOf(name) \subseteq V!IterFiles
<1> DEFINE Is(e) ==
      \/ \E i \in img : e = V!Entry("card", i, 0) \/ e = V!Entry("pic", i, 0)
      \/ \E l \in DOMAIN tree : e = V!Entry("page", l, builds)
      \/ e = V!Entry("all", "all", 0)
<1>1. \A l : \A e \in V!Pages(l) : l \in DOMAIN tree /\ Is(e)
  BY DEF V!Pages, ViewerTypes
<1>2. \A e \in V!IterFiles : Is(e)
  <2> SUFFICES ASSUME NEW e \in V!IterFiles PROVE Is(e) OBVIOUS
  <2>1. \/ e \in {V!Entry("card", i, 0) : i \in img}
        \/ \E l \in DOMAIN tree : e \in V!Pages(l)
        \/ e = V!Entry("all", "all", 0)
    BY DEF V!IterFiles, V!Shared
  <2>2. CASE e \in {V!Entry("card", i, 0) : i \in img} BY <2>2
  <2>3. CASE \E l \in DOMAIN tree : e \in V!Pages(l)
    <3> HIDE DEF Is
    <3> QED BY <1>1, <2>3
  <2>4. CASE e = V!Entry("all", "all", 0) BY <2>4
  <2> QED BY <2>1, <2>2, <2>3, <2>4
<1>3. ASSUME NEW e, Is(e) PROVE e \in Files
  <2>1. builds \in Nat /\ img \subseteq DOMAIN CardOf /\ DOMAIN tree \subseteq V!Places
    BY DEF ViewerTypes
  <2>2. ASSUME NEW k \in {"card", "pic", "page", "all"},
               NEW name \in DOMAIN CardOf \cup V!Places \cup {"all"}, NEW b \in Nat
        PROVE  V!Entry(k, name, b) \in Files
    <3>1. FALSE \in BOOLEAN OBVIOUS
    <3>2. V!Entry(k, name, b) = [kind |-> k, name |-> name, build |-> b, cut |-> FALSE]
      BY DEF V!Entry
    <3> QED BY <3>1, <3>2 DEF Files
  <2> QED BY <1>3, <2>1, <2>2
<1>4. ASSUME NEW e, NEW f, Is(e), Is(f), V!Key(e) = V!Key(f) PROVE e = f
  <2>1. ASSUME NEW g, Is(g)
        PROVE  g = V!Entry(g.kind, g.name, IF g.kind = "page" THEN builds ELSE 0)
    BY <2>1 DEF V!Entry
  <2>2. e.kind = f.kind /\ e.name = f.name BY <1>4 DEF V!Key
  <2> HIDE DEF Is
  <2> QED BY <1>4, <2>1, <2>2
<1>5. \A e : Is(e) /\ e.kind = "page" => e.build = builds BY DEF V!Entry
<1>6. \A name : V!FilesOf(name) \subseteq V!IterFiles
  <2>1. \A l : V!Pages(l) \cup V!Shared \subseteq V!IterFiles
    <3> SUFFICES ASSUME NEW l, NEW e \in V!Pages(l) PROVE e \in V!IterFiles
      BY DEF V!IterFiles
    <3>1. l \in DOMAIN tree BY DEF V!Pages
    <3> QED BY <3>1 DEF V!IterFiles
  <2>2. V!CollectIndexFiles \subseteq V!IterFiles
    BY DEF V!CollectIndexFiles, V!IterFiles
  <2> QED BY <2>1, <2>2 DEF V!FilesOf, V!CollectFilesForLetter
<1> HIDE DEF Is
<1> QED BY <1>2, <1>3, <1>4, <1>5, <1>6 DEF Distinct

(* There are names enough for the parts.                                   *)
LEMMA IterIsFinite ==
  ASSUME V!ViewerAssumption, ViewerTypes
  PROVE  /\ IsFiniteSet(V!IterFiles)
         /\ Cardinality(V!IterFiles) <= Len(PartNames) * PartSize
<1> DEFINE twice == {"card", "pic"} \X DOMAIN CardOf
           pages == {"page"} \X (Letters \cup {V!Orphan})
           keys == twice \cup {<<"all", "all">>} \cup pages
           f == [e \in V!IterFiles |-> V!Key(e)]
<1>1. IsFiniteSet({"card", "pic"}) /\ IsFiniteSet({"page"})
  <2>1. IsFiniteSet({"card"}) /\ IsFiniteSet({"page"}) BY FS_Singleton
  <2>2. IsFiniteSet({"card"} \cup {"pic"}) BY <2>1, FS_AddElement
  <2>3. {"card", "pic"} = {"card"} \cup {"pic"} BY Zenon
  <2> QED BY <2>1, <2>2, <2>3
<1>2. IsFiniteSet(twice)
  <2>1. IsFiniteSet(DOMAIN CardOf) BY SameLibrary DEF V!ViewerAssumption
  <2> QED BY <1>1, <2>1, FS_Product
<1>3. IsFiniteSet(Letters \cup {V!Orphan})
  <2>1. IsFiniteSet(Letters) BY SameLibrary DEF V!ViewerAssumption
  <2> QED BY <2>1, FS_AddElement
<1>4. IsFiniteSet(pages) BY <1>1, <1>3, FS_Product
<1>5. IsFiniteSet(keys)
  <2> HIDE DEF twice, pages
  <2>1. IsFiniteSet(twice \cup {<<"all", "all">>})
    BY <1>2, FS_Singleton, FS_Union
  <2> QED BY <1>4, <2>1, FS_Union
<1>6. \A e \in V!IterFiles : V!Key(e) \in keys
  <2> SUFFICES ASSUME NEW e \in V!IterFiles PROVE V!Key(e) \in keys OBVIOUS
  <2>1. /\ img \subseteq DOMAIN CardOf
        /\ DOMAIN tree \subseteq Letters \cup {V!Orphan}
        /\ \A l \in DOMAIN tree : tree[l].pics \subseteq DOMAIN CardOf
    BY DEF ViewerTypes, V!Places
  <2>2. CASE \E i \in img : e = V!Entry("card", i, 0)
    BY <2>1, <2>2 DEF V!Key, V!Entry
  <2>3. CASE \E l \in DOMAIN tree : e \in V!Pages(l)
    <3>1. PICK l \in DOMAIN tree : e \in V!Pages(l) BY <2>3
    <3>2. CASE e = V!Entry("page", l, tree[l].build)
      BY <2>1, <3>2 DEF V!Key, V!Entry
    <3>3. CASE \E i \in tree[l].pics : e = V!Entry("pic", i, 0)
      BY <2>1, <3>3 DEF V!Key, V!Entry
    <3> QED BY <3>1, <3>2, <3>3 DEF V!Pages
  <2>4. CASE e = V!Entry("all", "all", 0) BY <2>4 DEF V!Key, V!Entry
  <2> QED BY <2>2, <2>3, <2>4 DEF V!IterFiles, V!Shared
<1>7. f \in Injection(V!IterFiles, keys)
  <2> HIDE DEF keys
  <2>1. f \in [V!IterFiles -> keys] BY <1>6
  <2> QED BY <2>1, IterFacts DEF Injection, IsInjective, Distinct
<1>8. Cardinality(keys) <= Len(PartNames) * PartSize
  BY SameLibrary, Zenon DEF V!ViewerAssumption
<1>9. Cardinality(V!IterFiles) \in Nat /\ Cardinality(keys) \in Nat
      /\ IsFiniteSet(V!IterFiles) /\ Cardinality(V!IterFiles) <= Cardinality(keys)
  <2> HIDE DEF keys, f
  <2> QED BY <1>5, <1>7, FS_Injection, FS_CardinalityType
<1>10. Len(PartNames) * PartSize \in Nat BY DEF V!ViewerAssumption
<1> QED
  <2> HIDE DEF keys
  <2> QED BY <1>8, <1>9, <1>10

(* A finite set is empty after as many removals as it has elements.        *)
OneLess(s) == s \ {CHOOSE e \in s : TRUE}

Removing(S, f) ==
  [k \in 0 .. Cardinality(S) |-> IF k = 0 THEN S ELSE OneLess(f[k - 1])]

LEMMA RemovalsAre ==
  ASSUME NEW S, IsFiniteSet(S)
  PROVE  LET left == CHOOSE f : f = Removing(S, f)
         IN /\ left[0] = S
            /\ \A k \in 1 .. Cardinality(S) : left[k] = OneLess(left[k - 1])
<1> DEFINE n == Cardinality(S)
           left == CHOOSE f : f = Removing(S, f)
           F == [k \in 1 .. n |-> [s \in SUBSET S |-> OneLess(s)]]
<1>1. n \in Nat BY FS_CardinalityType
<1>2. F \in [1 .. n -> [SUBSET S -> SUBSET S]]
  <2>1. \A s \in SUBSET S : OneLess(s) \in SUBSET S BY DEF OneLess
  <2> QED BY <2>1
<1> HIDE DEF F
<1>3. PICK g : Iterated(g, SUBSET S, S, n, F) BY <1>1, <1>2, Iterates
<1>4. /\ g \in [0 .. n -> SUBSET S]
      /\ g[0] = S /\ \A k \in 1 .. n : g[k] = F[k][g[k - 1]]
  BY <1>3 DEF Iterated
<1>5. ASSUME NEW k \in 1 .. n PROVE g[k] = OneLess(g[k - 1])
  <2>1. k - 1 \in 0 .. n /\ g[k - 1] \in SUBSET S BY <1>1, <1>4
  <2> QED BY <1>4, <2>1 DEF F
<1>6. g = Removing(S, g) BY <1>1, <1>4, <1>5 DEF Removing
<1>7. left = Removing(S, left) BY <1>6
<1> HIDE DEF left
<1>8. left[0] = S BY <1>1, <1>7 DEF Removing
<1>9. ASSUME NEW k \in 1 .. n PROVE left[k] = OneLess(left[k - 1])
  BY <1>1, <1>7 DEF Removing
<1> QED BY <1>8, <1>9 DEF left

LEMMA RemovedFacts ==
  ASSUME NEW S, IsFiniteSet(S), NEW left, left[0] = S,
         \A k \in 1 .. Cardinality(S) : left[k] = OneLess(left[k - 1])
  PROVE  /\ left[Cardinality(S)] = {}
         /\ \A k \in 0 .. Cardinality(S) : left[k] \subseteq S
<1> DEFINE n == Cardinality(S)
           Good(k) == left[k] \subseteq S /\ Cardinality(left[k]) = n - k
           G == {k \in Nat : k <= n => Good(k)}
<1>1. n \in Nat BY FS_CardinalityType
<1>2. 0 \in G BY <1>1
<1>3. ASSUME NEW k \in Nat, k \in G PROVE k + 1 \in G
  <2>1. SUFFICES ASSUME k + 1 <= n PROVE Good(k + 1) OBVIOUS
  <2>2. /\ k \in 0 .. n /\ k + 1 \in 1 .. n /\ (k + 1) - 1 = k
        /\ left[k] \subseteq S /\ Cardinality(left[k]) = n - k /\ n - k # 0
    BY <1>1, <1>3, <2>1
  <2>3. IsFiniteSet(left[k]) BY <2>2, FS_Subset
  <2>4. left[k] # {} BY <2>2, <2>3, FS_EmptySet
  <2> DEFINE e == CHOOSE e \in left[k] : TRUE
  <2>5. e \in left[k] BY <2>4
  <2>6. left[k + 1] = left[k] \ {e} BY <2>2 DEF OneLess
  <2> HIDE DEF e
  <2>7. Cardinality(left[k] \ {e}) = Cardinality(left[k]) - 1
    BY <2>3, <2>5, FS_RemoveElement
  <2> QED BY <1>1, <2>2, <2>6, <2>7
<1> HIDE DEF G
<1>4. \A k \in Nat : k \in G BY <1>2, <1>3, AllNumbers
<1>5. \A k \in 0 .. n : Good(k) BY <1>1, <1>4 DEF G
<1>6. Cardinality(left[n]) = 0 /\ left[n] \subseteq S BY <1>1, <1>5
<1>7. IsFiniteSet(left[n]) BY <1>6, FS_Subset
<1>8. left[n] = {} BY <1>6, <1>7, FS_EmptySet
<1> QED BY <1>5, <1>8

(* Numbers have a least one.                                               *)
LEMMA LeastIsThere ==
  ASSUME NEW T \in SUBSET Nat, T # {}
  PROVE  \E x \in T : \A m \in T : x <= m
<1>1. PICK x \in T : \A m \in T : ~(<<m, x>> \in OpToRel(<, Nat))
  BY WFMin, NatLessThanWellFounded
<1>2. \A m \in T : ~(m < x) BY <1>1 DEF OpToRel
<1> QED BY <1>2

(* The parts have each file, and different names.                          *)
LEMMA PartsFacts ==
  ASSUME V!ViewerAssumption, NEW S, IsFiniteSet(S),
         Cardinality(S) <= Len(PartNames) * PartSize
  PROVE  /\ V!Parts(S) \in Seq([name : ToSet(PartNames), files : SUBSET S])
         /\ \A j, k \in DOMAIN V!Parts(S) :
              V!Parts(S)[j].name = V!Parts(S)[k].name => j = k
         /\ \A e \in S : \E k \in DOMAIN V!Parts(S) : e \in V!Parts(S)[k].files
<1> DEFINE n == Cardinality(S)
           left == CHOOSE f : f = Removing(S, f)
           upto(k) == Min({n, k * PartSize})
           after(k) == left[upto(k)]
           enough == {m \in 0 .. n : n <= m * PartSize}
           last == Min(enough)
           parts == [k \in 1 .. last |->
                       [name |-> PartNames[k], files |-> after(k - 1) \ after(k)]]
<1>1. V!Parts(S) = parts
  <2>1. left = CHOOSE f : f = [k \in 0 .. n |->
                   IF k = 0 THEN S ELSE f[k - 1] \ {CHOOSE e \in f[k - 1] : TRUE}]
    BY Zenon DEF Removing, OneLess
  <2> HIDE DEF left
  <2> QED BY <2>1, SameLibrary, Zenon DEF V!Parts
<1>2. /\ n \in Nat /\ PartSize \in Nat \ {0} /\ Len(PartNames) \in Nat
      /\ DOMAIN PartNames = 1 .. Len(PartNames)
      /\ \A j, k \in DOMAIN PartNames : PartNames[j] = PartNames[k] => j = k
  <2>1. PartNames \in Seq(STRING) BY DEF V!ViewerAssumption
  <2> QED BY <2>1, FS_CardinalityType DEF V!ViewerAssumption, V!IsInjective
<1>3. left[0] = S /\ \A k \in 1 .. n : left[k] = OneLess(left[k - 1])
  BY RemovalsAre
<1> HIDE DEF left
<1>4. left[n] = {} /\ \A k \in 0 .. n : left[k] \subseteq S
  BY <1>3, RemovedFacts
<1>5. \A k \in Nat : /\ k * PartSize \in Nat
                     /\ upto(k) = IF n <= k * PartSize THEN n ELSE k * PartSize
  BY <1>2, LeastOfTwo
<1>6. \A k \in Nat : upto(k) \in 0 .. n BY <1>2, <1>5
<1>7. last \in enough /\ \A m \in enough : last <= m
  <2>1. n <= n * PartSize BY <1>2
  <2>2. n \in enough BY <1>2, <2>1
  <2>3. enough \subseteq Nat OBVIOUS
  <2> HIDE DEF enough
  <2>4. \E x \in enough : \A m \in enough : x <= m BY <2>2, <2>3, LeastIsThere
  <2> QED BY <2>4 DEF Min
<1>8. last \in 0 .. n /\ n <= last * PartSize /\ last <= Len(PartNames)
  <2>1. CASE Len(PartNames) <= n BY <1>2, <1>7, <2>1
  <2>2. CASE Len(PartNames) > n BY <1>2, <1>7, <2>2
  <2> QED BY <1>2, <1>7, <2>1, <2>2
<1> HIDE DEF upto, last
<1>9. upto(0) = 0 /\ upto(last) = n
  <2>1. 0 * PartSize = 0 BY <1>2
  <2>2. upto(0) = 0 BY <1>2, <1>5, <2>1
  <2>3. last \in Nat BY <1>2, <1>8
  <2> QED BY <1>5, <1>8, <2>2, <2>3
<1>10. parts \in Seq([name : ToSet(PartNames), files : SUBSET S])
  <2> DEFINE T == [name : ToSet(PartNames), files : SUBSET S]
  <2>1. ASSUME NEW k \in 1 .. last PROVE parts[k] \in T
    <3>1. k - 1 \in Nat /\ k \in DOMAIN PartNames BY <1>2, <1>8
    <3>2. after(k - 1) \subseteq S BY <1>4, <1>6, <3>1
    <3>3. PartNames[k] \in ToSet(PartNames) BY <3>1 DEF ToSet
    <3> QED BY <3>2, <3>3
  <2>2. last \in Nat BY <1>2, <1>8
  <2>3. parts = [k \in 1 .. last |-> parts[k]] OBVIOUS
  <2> HIDE DEF parts, T
  <2>4. parts \in Seq(T) BY <2>1, <2>2, <2>3
  <2> QED BY <2>4 DEF T
<1>11. \A j, k \in DOMAIN parts : parts[j].name = parts[k].name => j = k
  BY <1>2, <1>8
<1>12. ASSUME NEW e \in S
       PROVE  \E k \in DOMAIN parts : e \in parts[k].files
  <2> DEFINE Has(k) == e \in after(k)
             G == {k \in Nat : k <= last => Has(k)}
  <2>1. SUFFICES ASSUME \A k \in 1 .. last : ~(Has(k - 1) /\ ~Has(k))
                 PROVE  FALSE
    <3> HIDE DEF after
    <3> QED OBVIOUS
  <2>2. 0 \in G BY <1>3, <1>9
  <2>3. ASSUME NEW k \in Nat, k \in G PROVE k + 1 \in G
    <3>1. (k + 1) - 1 = k /\ (k + 1 <= last => k + 1 \in 1 .. last /\ k <= last)
      BY <1>2, <1>8
    <3> HIDE DEF Has
    <3> QED BY <2>1, <2>3, <3>1
  <2> HIDE DEF G
  <2>4. last \in G BY <1>2, <1>8, <2>2, <2>3, AllNumbers
  <2>5. Has(last) BY <1>2, <1>8, <2>4 DEF G
  <2> QED BY <1>4, <1>9, <2>5
<1> HIDE DEF parts
<1> QED BY <1>1, <1>10, <1>11, <1>12

LEMMA ViewerStarts ==
  ASSUME V!ViewerAssumption, V!Init
  PROVE  ViewerInv
<1>1. DOMAIN partial = Archives BY SameLibrary DEF V!Init, Archives
<1>2. <<>> \in Seq(Files) /\ Early \subseteq DOMAIN CardOf
  BY DEF V!ViewerAssumption
<1>3. /\ \A p \in Archives : partial[p] = V!NoPartial /\ zips[p] = <<>>
      /\ partial = [p \in Archives |-> V!NoPartial] /\ zips = [p \in Archives |-> <<>>]
  BY <1>1 DEF V!Init
<1>4. /\ plan = <<>> /\ open = {} /\ bpc = "off" /\ zpc = "off"
      /\ DOMAIN tree = {} /\ DOMAIN byLetter = {} /\ builds = 0
      /\ tree = [l \in DOMAIN tree |-> tree[l]]
      /\ mode \in {"letters", "parts"} /\ img = Early
      /\ resumed = FALSE /\ packed = {}
  BY DEF V!Init
<1>5. ViewerTypes
  <2>1. partial \in [Archives -> [state : {"none", "torn", "closed"}, entries : Seq(Files)]]
    BY <1>2, <1>3 DEF V!NoPartial
  <2>2. zips \in [Archives -> Seq(Files)] BY <1>2, <1>3
  <2>3. plan \in Seq([name : Archives, files : SUBSET Files]) BY <1>4
  <2>4. resumed \in BOOLEAN BY <1>4
  <2> QED BY <1>2, <1>4, <2>1, <2>2, <2>3, <2>4 DEF ViewerTypes
<1>6. TurnsInv BY <1>4 DEF TurnsInv
<1>7. OnceIn BY <1>3, <1>4 DEF OnceIn, V!NoPartial, V!NoneTwice, Distinct
<1>8. FillInv /\ PackedInv BY <1>4 DEF FillInv, PackedInv
<1>9. PlannedInv BY <1>4 DEF PlannedInv
<1> QED BY <1>5, <1>6, <1>7, <1>8, <1>9 DEF ViewerInv

(* What is said of the packer while the builder works, or nothing does.    *)
LEMMA PackerRests ==
  ASSUME ViewerInv,
         UNCHANGED <<mode, plan, open, partial, zips, resumed, asked, packed>>,
         \/ UNCHANGED <<tree, zpc>>
         \/ zpc' = "off" /\ zpc \in {"off", "done"}
  PROVE  /\ OnceIn' /\ FillInv' /\ PackedInv' /\ PlannedInv'
         /\ bpc' = "off" \/ zpc' = "off" => TurnsInv'
<1>1. OnceIn'
  BY DEF ViewerInv, OnceIn, Distinct, V!NoneTwice, V!Keys, V!Key, Archives, V!Places
<1>2. bpc' = "off" \/ zpc' = "off" => TurnsInv' BY DEF ViewerInv, TurnsInv
<1>3. CASE zpc' = "off"
  <2>1. plan = <<>> BY <1>3 DEF ViewerInv, TurnsInv
  <2>2. FillInv' /\ PackedInv' BY <1>3 DEF FillInv, PackedInv
  <2>3. PlannedInv' BY <1>3 DEF ViewerInv, PlannedInv, Distinct, V!Key
  <2> QED BY <1>1, <1>2, <2>2, <2>3
<1>4. CASE UNCHANGED <<tree, zpc>>
  <2>1. \A name : V!FilesOf(name)' = V!FilesOf(name) BY <1>4, TreeFiles
  <2>2. WantedNow' = WantedNow /\ \A k : Planned(k)' = Planned(k)
    BY <2>1 DEF WantedNow, Planned
  <2>3. FillInv' BY <1>4, <2>2 DEF ViewerInv, FillInv, AllIn, V!Keys, V!Key
  <2>4. PackedInv' BY <1>4, <2>1 DEF ViewerInv, PackedInv, AllIn, V!Keys, V!Key
  <2>5. PlannedInv'
    BY <1>4, <2>2 DEF ViewerInv, PlannedInv, Distinct, V!Keys, V!Key
  <2> QED BY <1>1, <1>2, <2>3, <2>4, <2>5
<1> QED BY <1>3, <1>4

LEMMA BuildStep ==
  ASSUME ViewerInv, NEW wanted, V!BuildStarts(wanted)
  PROVE  ViewerInv'
<1>1. /\ bpc = "off" /\ zpc \in {"off", "done"} /\ zpc' = "off" /\ bpc' = "letters"
      /\ builds' = builds + 1 /\ builds \in Nat /\ img' = img
      /\ UNCHANGED <<mode, plan, open, partial, zips, resumed, asked, packed>>
      /\ DOMAIN tree' = {} /\ tree' = [l \in DOMAIN tree' |-> tree'[l]]
      /\ byLetter' = V!GroupByLetter(wanted)
  BY DEF V!BuildStarts, ViewerInv, ViewerTypes, TurnsInv
<1>2. DOMAIN byLetter' \subseteq V!Places
  <2>1. \A q : V!LetterOf(q) \in V!Places BY DEF V!LetterOf, V!Places
  <2>2. \A r \in V!Records : r.letter \in V!Places BY <2>1 DEF V!Records
  <2> QED BY <1>1, <2>2 DEF V!GroupByLetter
<1>3. ViewerTypes'
  <2>1. Archives' = Archives /\ Files' = Files /\ V!Places' = V!Places
    BY DEF Archives, Files, V!Places
  <2> QED BY <1>1, <1>2, <2>1 DEF ViewerInv, ViewerTypes
<1>4. OnceIn' /\ FillInv' /\ PackedInv' /\ PlannedInv' /\ TurnsInv'
  BY <1>1, PackerRests
<1> QED BY <1>3, <1>4 DEF ViewerInv

LEMMA PlaceStep ==
  ASSUME ViewerInv, V!PlacePage \/ V!CopyImage
  PROVE  ViewerInv'
<1>1. /\ bpc = "letters" /\ bpc' = bpc /\ zpc = "off" /\ zpc' = zpc
      /\ UNCHANGED <<img, builds, byLetter, mode, plan, open, partial, zips,
                     resumed, asked, packed>>
      /\ ViewerTypes
  BY DEF V!PlacePage, V!CopyImage, V!packing, ViewerInv, TurnsInv
<1>2. /\ tree' = [l \in DOMAIN tree' |-> tree'[l]]
      /\ DOMAIN tree' \subseteq DOMAIN byLetter
      /\ \A l \in DOMAIN tree' :
           /\ tree'[l] = [page |-> tree'[l].page, build |-> builds,
                          pics |-> tree'[l].pics]
           /\ tree'[l].pics \subseteq img
  <2>1. CASE V!PlacePage
    <3> DEFINE n == CHOOSE l \in DOMAIN byLetter \ DOMAIN tree : TRUE
               bare == [page |-> byLetter[n], build |-> builds, pics |-> {}]
    <3>1. DOMAIN byLetter # DOMAIN tree /\ DOMAIN tree \subseteq DOMAIN byLetter
      BY <1>1, <2>1 DEF V!PlacePage, ViewerTypes
    <3>2. n \in DOMAIN byLetter BY <3>1
    <3>3. tree' = [k \in DOMAIN tree \cup {n} |-> IF k = n THEN bare ELSE tree[k]]
      BY <2>1 DEF V!PlacePage
    <3> HIDE DEF n
    <3> QED BY <1>1, <3>1, <3>2, <3>3 DEF ViewerTypes
  <2>2. CASE V!CopyImage
    <3> DEFINE e == CHOOSE e \in V!ToCopy : TRUE
    <3>1. e \in V!ToCopy /\ tree' = [tree EXCEPT ![e[1]].pics = @ \cup {e[2]}]
      BY <2>2 DEF V!CopyImage
    <3> HIDE DEF e
    <3>2. e[1] \in DOMAIN tree /\ e[2] \in img BY <3>1 DEF V!ToCopy
    <3>3. DOMAIN tree' = DOMAIN tree
          /\ \A l \in DOMAIN tree : tree'[l] =
               IF l = e[1] THEN [tree[l] EXCEPT !.pics = @ \cup {e[2]}] ELSE tree[l]
      BY <3>1, <3>2, <1>1 DEF ViewerTypes
    <3>4. tree' = [l \in DOMAIN tree' |-> tree'[l]] BY <3>1
    <3>5. DOMAIN tree' \subseteq DOMAIN byLetter BY <1>1, <3>3 DEF ViewerTypes
    <3>6. ASSUME NEW l \in DOMAIN tree'
          PROVE  /\ tree'[l] = [page |-> tree'[l].page, build |-> builds,
                                pics |-> tree'[l].pics]
                 /\ tree'[l].pics \subseteq img
      <4> DEFINE r == tree[l]
      <4>1. r = [page |-> r.page, build |-> builds, pics |-> r.pics]
            /\ r.pics \subseteq img
        BY <1>1, <3>3 DEF ViewerTypes
      <4>2. tree'[l] = IF l = e[1] THEN [r EXCEPT !.pics = @ \cup {e[2]}] ELSE r
        BY <3>3
      <4> HIDE DEF r
      <4>3. [r EXCEPT !.pics = @ \cup {e[2]}]
              = [page |-> r.page, build |-> builds, pics |-> r.pics \cup {e[2]}]
        BY <4>1
      <4> QED BY <3>2, <4>1, <4>2, <4>3
    <3> QED BY <3>4, <3>5, <3>6
  <2> QED BY <2>1, <2>2
<1>3. ViewerTypes'
  <2>1. Archives' = Archives /\ Files' = Files /\ V!Places' = V!Places
    BY DEF Archives, Files, V!Places
  <2> QED BY <1>1, <1>2, <2>1 DEF ViewerTypes
<1>4. OnceIn' /\ FillInv' /\ PackedInv' /\ PlannedInv' /\ TurnsInv'
  BY <1>1, PackerRests
<1> QED BY <1>3, <1>4 DEF ViewerInv

LEMMA RestStep ==
  ASSUME ViewerInv,
         \/ V!WriteAllJson \/ V!RenderIndex \/ V!KillBuilder
         \/ \E i \in V!Images : V!ImageArrives(i)
  PROVE  ViewerInv'
<1>1. /\ UNCHANGED <<builds, tree, mode, plan, open, partial, zips, zpc, resumed,
                     asked, packed>>
      /\ img \subseteq img' /\ img' \subseteq DOMAIN CardOf
      /\ bpc' # bpc => zpc = "off"
      /\ bpc = "off" => bpc' = "off"
      /\ bpc' \in {"off", "index"} \/ bpc' = bpc
      /\ byLetter' = byLetter \/ (byLetter' = <<>> /\ bpc' = "off")
  BY DEF V!WriteAllJson, V!RenderIndex, V!KillBuilder, V!ImageArrives,
         V!packing, V!building, V!Images, ViewerInv, ViewerTypes, TurnsInv
<1>2. ViewerTypes'
  <2>1. Archives' = Archives /\ Files' = Files /\ V!Places' = V!Places
    BY DEF Archives, Files, V!Places
  <2>2. byLetter' = <<>> => DOMAIN byLetter' \subseteq V!Places OBVIOUS
  <2> QED BY <1>1, <2>1, <2>2 DEF ViewerInv, ViewerTypes
<1>3. TurnsInv' BY <1>1 DEF ViewerInv, TurnsInv
<1>4. OnceIn' /\ FillInv' /\ PackedInv' /\ PlannedInv' BY <1>1, PackerRests
<1> QED BY <1>2, <1>3, <1>4 DEF ViewerInv

(* What is first in a sequence, and what behind it.                        *)
LEMMA FirstFacts ==
  ASSUME NEW T, NEW s \in Seq(T), NEW U, T \subseteq U
  PROVE  /\ s \in Seq(U) /\ \A k \in DOMAIN s : s[k] \in T
         /\ s # <<>> =>
              /\ 1 \in DOMAIN s /\ Head(s) = s[1] /\ Tail(s) \in Seq(T)
              /\ \A k \in DOMAIN Tail(s) :
                   /\ k \in Nat /\ k + 1 # 1
                   /\ k + 1 \in DOMAIN s /\ Tail(s)[k] = s[k + 1]
              /\ \A k \in DOMAIN s :
                   k = 1 \/ (k - 1 \in DOMAIN Tail(s) /\ Tail(s)[k - 1] = s[k])
OBVIOUS

(* A plan is for archives there may be, and in parts has every file.       *)
LEMMA PackStep ==
  ASSUME V!ViewerAssumption, ViewerInv,
         NEW wanted \in {V!Places} \cup {{l} : l \in Letters}, V!PackStarts(wanted)
  PROVE  ViewerInv'
<1> DEFINE names == V!LettersPresent \cap wanted
           order == Append(V!SetToSeq(names), "index")
           Item == [name : Archives, files : SUBSET Files]
<1>1. /\ ViewerTypes /\ OnceIn
      /\ bpc = "off" /\ zpc' = "next" /\ open' = {} /\ mode \in {"letters", "parts"}
      /\ resumed' = FALSE /\ packed' = {}
      /\ UNCHANGED <<img, builds, bpc, byLetter, tree, mode, partial, zips>>
  BY DEF V!PackStarts, V!building, ViewerInv, ViewerTypes
<1>2. Archives' = Archives /\ Files' = Files /\ V!Places' = V!Places
  BY DEF Archives, Files, V!Places
<1>3. \A name : V!FilesOf(name)' = V!FilesOf(name) BY <1>1, TreeFiles
<1>4. /\ plan' \in Seq(Item)
      /\ \A j, k \in DOMAIN plan' :
           mode = "parts" /\ plan'[j].name = plan'[k].name => j = k
      /\ \A k \in DOMAIN plan' :
           /\ plan'[k].files \subseteq V!IterFiles
           /\ mode = "letters" => V!FilesOf(plan'[k].name) \subseteq asked'
           /\ mode = "parts" => plan'[k].files \subseteq asked'
      /\ mode = "parts" =>
           \A f \in asked' : \E k \in DOMAIN plan' : f \in plan'[k].files
  <2>1. CASE mode = "letters"
    <3>1. /\ plan' = [k \in DOMAIN order |-> [name |-> order[k], files |-> {}]]
          /\ asked' = UNION {V!FilesOf(name) : name \in names \cup {"index"}}
      BY <2>1 DEF V!PackStarts
    <3>2. names \subseteq V!Places BY DEF V!Places
    <3>3. IsFiniteSet(names)
      <4>1. IsFiniteSet(Letters) BY SameLibrary DEF V!ViewerAssumption
      <4>2. IsFiniteSet(V!Places) BY <4>1, FS_AddElement DEF V!Places
      <4> QED BY <3>2, <4>2, FS_Subset
    <3>4. V!SetToSeq(names) \in Seq(names)
      <4>1. V!SetToSeq(names) = SetToSeq(names) BY SameLibrary
      <4> QED BY <3>3, <4>1, SavedFacts
    <3> HIDE DEF names
    <3>5. order \in Seq(names \cup {"index"}) BY <3>4
    <3> HIDE DEF order
    <3>6. \A k \in DOMAIN order : order[k] \in names \cup {"index"} BY <3>5
    <3>7. names \cup {"index"} \subseteq Archives BY <3>2 DEF Archives
    <3>8. plan' \in Seq(Item)
      <4>1. \A k \in DOMAIN order : plan'[k] \in Item BY <3>1, <3>6, <3>7
      <4>2. DOMAIN plan' = DOMAIN order /\ DOMAIN order = 1 .. Len(order)
            /\ Len(order) \in Nat /\ plan' = [k \in 1 .. Len(order) |-> plan'[k]]
        BY <3>1, <3>5
      <4> HIDE DEF Item
      <4> QED BY <4>1, <4>2
    <3>9. \A k \in DOMAIN plan' : /\ plan'[k].files = {}
                                  /\ V!FilesOf(plan'[k].name) \subseteq asked'
      BY <3>1, <3>6
    <3> HIDE DEF Item
    <3> QED BY <2>1, <3>8, <3>9
  <2>2. CASE mode = "parts"
    <3>1. plan' = V!Parts(V!IterFiles) /\ asked' = V!IterFiles
      BY <2>2 DEF V!PackStarts
    <3>2. /\ plan' \in Seq([name : ToSet(PartNames), files : SUBSET V!IterFiles])
          /\ \A j, k \in DOMAIN plan' : plan'[j].name = plan'[k].name => j = k
          /\ \A e \in V!IterFiles : \E k \in DOMAIN plan' : e \in plan'[k].files
      BY <1>1, <3>1, IterIsFinite, PartsFacts
    <3>3. ToSet(PartNames) \subseteq Archives /\ V!IterFiles \subseteq Files
      BY <1>1, IterFacts DEF Archives
    <3> DEFINE T == [name : ToSet(PartNames), files : SUBSET V!IterFiles]
    <3>4. T \subseteq Item BY <3>3
    <3>5. plan' \in Seq(Item) /\ \A k \in DOMAIN plan' : plan'[k] \in T
      <4>1. plan' \in Seq(T) BY <3>2
      <4> HIDE DEF Item, T
      <4> QED BY <3>4, <4>1, FirstFacts
    <3>6. \A k \in DOMAIN plan' : plan'[k].files \subseteq V!IterFiles
      BY <3>5
    <3> HIDE DEF Item
    <3> QED BY <2>2, <3>1, <3>2, <3>5, <3>6
  <2> QED BY <1>1, <2>1, <2>2
<1> HIDE DEF names, order
<1>5. ViewerTypes' BY <1>1, <1>2, <1>4 DEF ViewerTypes
<1>6. TurnsInv' BY <1>1 DEF TurnsInv
<1>7. OnceIn'
  BY <1>1, <1>2 DEF OnceIn, Distinct, V!NoneTwice, V!Keys, V!Key
<1>8. FillInv' /\ PackedInv' BY <1>1 DEF FillInv, PackedInv
<1>9. PlannedInv'
  <2>1. \A k \in DOMAIN plan' : Distinct(plan'[k].files)
    BY <1>1, <1>4, IterFacts DEF Distinct
  <2>2. \A k \in DOMAIN plan' : Planned(k)' \subseteq asked'
    BY <1>1, <1>3, <1>4 DEF Planned
  <2> HIDE DEF Item
  <2> QED BY <1>1, <1>4, <2>1, <2>2 DEF PlannedInv, Distinct, V!Key
<1> QED BY <1>5, <1>6, <1>7, <1>8, <1>9 DEF ViewerInv

LEMMA PlanFacts ==
  ASSUME ViewerTypes, plan # <<>>
  PROVE  /\ 1 \in DOMAIN plan /\ Head(plan) = plan[1]
         /\ plan[1].name \in Archives /\ plan[1].files \subseteq Files
<1> DEFINE Item == [name : Archives, files : SUBSET Files]
<1>1. plan \in Seq(Item) BY DEF ViewerTypes
<1>2. 1 \in DOMAIN plan /\ Head(plan) = plan[1] /\ plan[1] \in Item
  <2> HIDE DEF Item
  <2> QED BY <1>1, FirstFacts
<1> QED BY <1>2

LEMMA OpenZipStep ==
  ASSUME V!ViewerAssumption, ViewerInv, V!OpenPartial
  PROVE  ViewerInv'
<1> DEFINE p == plan[1].name
           found == IF partial[p].state = "closed" THEN partial[p].entries ELSE <<>>
           files == IF mode = "letters" THEN V!FilesOf(p) ELSE plan[1].files
           full == [state |-> "closed", entries |-> found]
<1>1. /\ ViewerTypes /\ TurnsInv /\ OnceIn /\ PackedInv /\ PlannedInv
      /\ zpc = "next" /\ zpc' = "adding" /\ plan # <<>> /\ bpc = "off"
      /\ UNCHANGED <<img, builds, bpc, byLetter, tree, mode, plan, zips, asked, packed>>
  BY DEF V!OpenPartial, V!building, ViewerInv, TurnsInv
<1>2. Archives' = Archives /\ Files' = Files /\ V!Places' = V!Places
  BY DEF Archives, Files, V!Places
<1>3. /\ 1 \in DOMAIN plan /\ Head(plan) = plan[1]
      /\ p \in Archives /\ plan[1].files \subseteq Files
  BY <1>1, PlanFacts
<1>4. /\ open' = V!Missing(files, found) /\ partial' = [partial EXCEPT ![p] = full]
      /\ resumed' = (found # <<>>)
  BY <1>3 DEF V!OpenPartial
<1>5. found \in Seq(Files) /\ V!NoneTwice(found)
  BY <1>1, <1>3 DEF ViewerTypes, OnceIn, V!NoneTwice
<1>6. files \subseteq Files /\ Distinct(files) /\ files \subseteq asked
  <2>1. CASE mode = "letters"
    <3>1. files \subseteq V!IterFiles BY <1>1, <2>1, IterFacts
    <3>2. files \subseteq asked BY <1>1, <1>3, <2>1 DEF PlannedInv, Planned
    <3> QED BY <1>1, <3>1, <3>2, IterFacts DEF Distinct
  <2>2. CASE mode # "letters"
    BY <1>1, <1>3, <2>2 DEF PlannedInv, Planned
  <2> QED BY <2>1, <2>2
<1>7. WantedNow' = files /\ \A k : Planned(k)' = Planned(k)
  BY <1>1, TreeFiles DEF WantedNow, Planned
<1> HIDE DEF p, found, files
<1>8. /\ \A q \in Archives : partial'[q] = IF q = p THEN full ELSE partial[q]
      /\ partial'[p].entries = found /\ full.entries = found
      /\ full \in [state : {"none", "torn", "closed"}, entries : Seq(Files)]
      /\ partial' \in [Archives -> [state : {"none", "torn", "closed"},
                                    entries : Seq(Files)]]
  BY <1>1, <1>3, <1>4, <1>5 DEF ViewerTypes
<1> HIDE DEF full
<1>9. open' = {e \in files : V!Key(e) \notin V!Keys(found)}
  BY <1>4 DEF V!Missing
<1>10. ViewerTypes' BY <1>1, <1>2, <1>4, <1>6, <1>8, <1>9 DEF ViewerTypes
<1>11. TurnsInv' BY <1>1 DEF TurnsInv
<1>12. p' = p BY <1>1 DEF p
<1>13. OnceIn'
  <2>1. \A q \in Archives : V!NoneTwice(zips[q]) /\ V!NoneTwice(partial'[q].entries)
    BY <1>1, <1>5, <1>8 DEF OnceIn
  <2>2. Distinct(open') BY <1>6, <1>9 DEF Distinct
  <2>3. \A e \in open' : V!Key(e) \notin V!Keys(partial'[p].entries) BY <1>8, <1>9
  <2> QED BY <1>1, <1>2, <1>12, <2>1, <2>2, <2>3
     DEF OnceIn, p, V!NoneTwice, Distinct, V!Keys, V!Key
<1>14. FillInv'
  <2>1. \A e \in files : e \in open' \/ V!Key(e) \in V!Keys(partial'[p].entries)
    BY <1>8, <1>9
  <2>2. ASSUME ~resumed' PROVE AllIn(partial'[p].entries, asked)
    <3>1. found = <<>> BY <1>4, <2>2
    <3>2. DOMAIN partial'[p].entries = {} BY <1>8, <3>1
    <3> QED BY <3>2 DEF AllIn
  <2>3. open' \subseteq asked BY <1>6, <1>9
  <2> QED BY <1>1, <1>7, <1>12, <2>1, <2>2, <2>3
      DEF FillInv, p, AllIn, V!Keys, V!Key
<1>15. PackedInv'
  BY <1>1, TreeFiles DEF PackedInv, AllIn, V!Keys, V!Key
<1>16. PlannedInv' BY <1>1, <1>7 DEF PlannedInv, Distinct, V!Keys, V!Key
<1> QED BY <1>10, <1>11, <1>13, <1>14, <1>15, <1>16 DEF ViewerInv

(* An entry more in the archive under way.                                 *)
LEMMA OneEntryMore ==
  ASSUME NEW was, was \in [state : {"none", "torn", "closed"}, entries : Seq(Files)],
         V!NoneTwice(was.entries), NEW e \in Files, V!Key(e) \notin V!Keys(was.entries)
  PROVE  LET now == [was EXCEPT !.entries = Append(@, e)] IN
         /\ now \in [state : {"none", "torn", "closed"}, entries : Seq(Files)]
         /\ V!NoneTwice(now.entries)
         /\ V!Keys(now.entries) = V!Keys(was.entries) \cup {V!Key(e)}
         /\ \A S : AllIn(was.entries, S) /\ e \in S => AllIn(now.entries, S)
<1> DEFINE now == [was EXCEPT !.entries = Append(@, e)]
           s == was.entries
<1>1. s \in Seq(Files) /\ now.entries = Append(s, e) OBVIOUS
<1>2. Append(s, e) \in Seq(Files) BY <1>1
<1>3. now \in [state : {"none", "torn", "closed"}, entries : Seq(Files)]
  <2> HIDE DEF s
  <2>1. now = [state |-> was.state, entries |-> Append(s, e)] BY DEF s
  <2> HIDE DEF now
  <2> QED BY <1>2, <2>1
<1>4. V!NoneTwice(s) /\ V!Key(e) \notin V!Keys(s) OBVIOUS
<1> HIDE DEF now, s
<1>5. /\ DOMAIN s = 1 .. Len(s) /\ Len(s) \in Nat
      /\ DOMAIN now.entries = DOMAIN s \cup {Len(s) + 1}
      /\ \A k \in DOMAIN s : now.entries[k] = s[k] /\ k # Len(s) + 1
      /\ now.entries[Len(s) + 1] = e
  BY <1>1
<1>6. V!Keys(now.entries) = V!Keys(s) \cup {V!Key(e)} BY <1>5 DEF V!Keys
<1>7. V!NoneTwice(now.entries) BY <1>4, <1>5 DEF V!NoneTwice, V!Keys
<1>8. \A S : AllIn(s, S) /\ e \in S => AllIn(now.entries, S) BY <1>5 DEF AllIn
<1> QED BY <1>3, <1>6, <1>7, <1>8 DEF now, s

LEMMA AddStep ==
  ASSUME ViewerInv, V!AddEntry
  PROVE  ViewerInv'
<1> DEFINE p == plan[1].name
           e == CHOOSE e \in open : TRUE
           was == partial[p]
           now == [was EXCEPT !.entries = Append(@, e)]
<1>1. /\ ViewerTypes /\ TurnsInv /\ OnceIn /\ FillInv /\ PackedInv /\ PlannedInv
      /\ zpc = "adding" /\ plan # <<>> /\ bpc = "off" /\ open # {}
      /\ UNCHANGED <<img, builds, bpc, byLetter, tree, mode, plan, zips, zpc, resumed,
                     asked, packed>>
  BY DEF V!AddEntry, V!building, ViewerInv, TurnsInv
<1>2. Archives' = Archives /\ Files' = Files /\ V!Places' = V!Places
  BY DEF Archives, Files, V!Places
<1>3. /\ 1 \in DOMAIN plan /\ Head(plan) = plan[1] /\ p \in Archives
      /\ e \in open /\ e \in Files
  BY <1>1, PlanFacts DEF ViewerTypes
<1>4. open' = open \ {e} /\ partial' = [partial EXCEPT ![p] = now]
  BY <1>3 DEF V!AddEntry
<1>5. /\ was \in [state : {"none", "torn", "closed"}, entries : Seq(Files)]
      /\ V!NoneTwice(was.entries) /\ V!Key(e) \notin V!Keys(was.entries)
      /\ e \in asked /\ ~resumed => AllIn(was.entries, asked)
  BY <1>1, <1>3 DEF ViewerTypes, OnceIn, FillInv
<1>6. e \in asked /\ (~resumed => AllIn(was.entries, asked))
  BY <1>1, <1>3 DEF FillInv
<1> HIDE DEF p, e
<1>7. p' = p /\ WantedNow' = WantedNow /\ \A k : Planned(k)' = Planned(k)
  BY <1>1, TreeFiles DEF p, WantedNow, Planned
<1>8. \A q \in Archives : partial'[q] = IF q = p THEN now ELSE partial[q]
  BY <1>1, <1>3, <1>4 DEF ViewerTypes
<1>9. /\ now \in [state : {"none", "torn", "closed"}, entries : Seq(Files)]
      /\ V!NoneTwice(now.entries)
      /\ V!Keys(now.entries) = V!Keys(was.entries) \cup {V!Key(e)}
      /\ \A S : AllIn(was.entries, S) /\ e \in S => AllIn(now.entries, S)
  <2> HIDE DEF was
  <2> QED BY <1>3, <1>5, OneEntryMore
<1>10. partial' \in [Archives -> [state : {"none", "torn", "closed"},
                                  entries : Seq(Files)]]
  BY <1>1, <1>3, <1>4, <1>9 DEF ViewerTypes
<1> HIDE DEF now, was
<1>11. partial'[p] = now BY <1>3, <1>8
<1>12. ViewerTypes' BY <1>1, <1>2, <1>4, <1>10 DEF ViewerTypes
<1>13. TurnsInv' BY <1>1, <1>4 DEF TurnsInv
<1>14. OnceIn'
  <2>1. \A q \in Archives : V!NoneTwice(zips[q]) /\ V!NoneTwice(partial'[q].entries)
    BY <1>1, <1>8, <1>9 DEF OnceIn
  <2>2. Distinct(open') BY <1>1, <1>4 DEF OnceIn, Distinct
  <2>3. \A f \in open' : V!Key(f) \notin V!Keys(partial'[p].entries)
    BY <1>1, <1>3, <1>4, <1>9, <1>11 DEF OnceIn, p, was, Distinct
  <2> QED BY <1>1, <1>2, <1>7, <2>1, <2>2, <2>3
     DEF OnceIn, p, V!NoneTwice, Distinct, V!Keys, V!Key
<1>15. FillInv'
  <2>1. \A f \in WantedNow : f \in open' \/ V!Key(f) \in V!Keys(partial'[p].entries)
    BY <1>1, <1>4, <1>9, <1>11 DEF FillInv, p, was
  <2>2. ~resumed' => AllIn(partial'[p].entries, asked) BY <1>1, <1>6, <1>9, <1>11
  <2>3. open' \subseteq asked BY <1>1, <1>4 DEF FillInv
  <2> QED BY <1>1, <1>7, <2>1, <2>2, <2>3 DEF FillInv, p, AllIn, V!Keys, V!Key
<1>16. PackedInv' BY <1>1, TreeFiles DEF PackedInv, AllIn, V!Keys, V!Key
<1>17. PlannedInv' BY <1>1, <1>7 DEF PlannedInv, Distinct, V!Keys, V!Key
<1> QED BY <1>12, <1>13, <1>14, <1>15, <1>16, <1>17 DEF ViewerInv

(* A finished archive has all that was wanted of it.                       *)
LEMMA FinishZipStep ==
  ASSUME ViewerInv, V!FinishZip
  PROVE  ViewerInv'
<1> DEFINE p == plan[1].name
           whole == partial[p].entries
           Item == [name : Archives, files : SUBSET Files]
<1>1. /\ ViewerTypes /\ TurnsInv /\ OnceIn /\ FillInv /\ PackedInv /\ PlannedInv
      /\ zpc = "adding" /\ plan # <<>> /\ bpc = "off" /\ open = {} /\ open' = open
      /\ plan' = Tail(plan)
      /\ zpc' = IF plan' = <<>> THEN "done" ELSE "next"
      /\ UNCHANGED <<img, builds, bpc, byLetter, tree, mode, resumed, asked>>
  BY DEF V!FinishZip, V!building, ViewerInv, TurnsInv
<1>2. Archives' = Archives /\ Files' = Files /\ V!Places' = V!Places
  BY DEF Archives, Files, V!Places
<1>3. /\ 1 \in DOMAIN plan /\ Head(plan) = plan[1] /\ p \in Archives
  BY <1>1, PlanFacts
<1>4. /\ zips' = [zips EXCEPT ![p] = whole]
      /\ partial' = [partial EXCEPT ![p] = V!NoPartial]
      /\ packed' = {e \in packed : e[1] # p} \cup {<<p, resumed>>}
  BY <1>3 DEF V!FinishZip
<1>5. /\ plan' \in Seq(Item)
      /\ \A k \in DOMAIN plan' : /\ k \in Nat /\ k + 1 # 1
                                 /\ k + 1 \in DOMAIN plan /\ plan'[k] = plan[k + 1]
      /\ \A k \in DOMAIN plan :
           k = 1 \/ (k - 1 \in DOMAIN plan' /\ plan'[k - 1] = plan[k])
  <2>1. plan \in Seq(Item) BY <1>1 DEF ViewerTypes
  <2> HIDE DEF Item
  <2> QED BY <1>1, <2>1, FirstFacts
<1>6. /\ whole \in Seq(Files) /\ V!NoneTwice(whole)
      /\ \A f \in WantedNow : V!Key(f) \in V!Keys(whole)
      /\ resumed \/ AllIn(whole, asked)
  BY <1>1, <1>3 DEF ViewerTypes, OnceIn, FillInv
<1>7. V!NoPartial \in [state : {"none", "torn", "closed"}, entries : Seq(Files)]
      /\ V!NoPartial.entries = <<>>
  BY DEF V!NoPartial
<1>8. /\ \A name : V!FilesOf(name)' = V!FilesOf(name)
      /\ mode = "letters" => WantedNow = V!FilesOf(p)
      /\ mode = "parts" => WantedNow = plan[1].files
  BY <1>1, TreeFiles DEF WantedNow
<1> HIDE DEF p, whole
<1>9. /\ \A q \in Archives : /\ partial'[q] = IF q = p THEN V!NoPartial ELSE partial[q]
                             /\ zips'[q] = IF q = p THEN whole ELSE zips[q]
      /\ partial' \in [Archives -> [state : {"none", "torn", "closed"},
                                    entries : Seq(Files)]]
      /\ zips' \in [Archives -> Seq(Files)]
  BY <1>1, <1>3, <1>4, <1>6, <1>7 DEF ViewerTypes
<1>10. packed' \subseteq Archives \X BOOLEAN BY <1>1, <1>3, <1>4 DEF ViewerTypes
<1>11. ViewerTypes'
  <2> HIDE DEF Item
  <2>1. zpc' \in {"done", "next"} /\ plan' \in Seq(Item) BY <1>1, <1>5
  <2> QED BY <1>1, <1>2, <1>9, <1>10, <2>1 DEF ViewerTypes, Item
<1> HIDE DEF Item
<1>12. TurnsInv' BY <1>1 DEF TurnsInv
<1>13. OnceIn'
  <2>1. V!NoneTwice(<<>>) BY DEF V!NoneTwice
  <2>2. \A q \in Archives : V!NoneTwice(zips'[q]) /\ V!NoneTwice(partial'[q].entries)
    BY <1>1, <1>6, <1>7, <1>9, <2>1 DEF OnceIn
  <2> QED BY <1>1, <1>2, <2>2 DEF OnceIn, V!NoneTwice, Distinct, V!Key
<1>14. FillInv' BY <1>1 DEF FillInv
<1>15. PackedInv'
  <2> SUFFICES ASSUME NEW e \in packed'
               PROVE  /\ mode = "letters" =>
                           \A f \in V!FilesOf(e[1]) : V!Key(f) \in V!Keys(zips'[e[1]])
                      /\ e[2] \/ AllIn(zips'[e[1]], asked)
    BY <1>1, <1>8 DEF PackedInv, AllIn, V!Keys, V!Key
  <2>1. CASE e = <<p, resumed>>
    <3>1. e[1] = p /\ e[2] = resumed /\ zips'[e[1]] = whole BY <1>3, <1>9, <2>1
    <3> QED BY <1>6, <1>8, <3>1
  <2>2. CASE e \in packed /\ e[1] # p
    <3>1. zips'[e[1]] = zips[e[1]] BY <1>1, <1>9, <2>2 DEF ViewerTypes
    <3> QED BY <1>1, <2>2, <3>1 DEF PackedInv
  <2> QED BY <1>4, <2>1, <2>2
<1>16. PlannedInv'
  <2>1. \A j, k \in DOMAIN plan' :
          mode = "parts" /\ plan'[j].name = plan'[k].name => j = k
    BY <1>1, <1>5 DEF PlannedInv
  <2>2. \A k \in DOMAIN plan' : Distinct(plan'[k].files)
    BY <1>1, <1>5 DEF PlannedInv
  <2>3. \A k \in DOMAIN plan' : Planned(k)' \subseteq asked
    <3>1. \A k \in DOMAIN plan : Planned(k) \subseteq asked BY <1>1 DEF PlannedInv
    <3> QED BY <1>1, <1>5, <1>8, <3>1 DEF Planned
  <2>4. ASSUME mode = "parts", NEW f \in asked
        PROVE  \/ \E k \in DOMAIN plan' : f \in plan'[k].files
               \/ \E e \in packed' :
                    /\ V!Key(f) \in V!Keys(zips'[e[1]])
                    /\ \A k \in DOMAIN plan' : plan'[k].name # e[1]
    <3>1. CASE \E k \in DOMAIN plan : f \in plan[k].files
      <4>1. PICK k \in DOMAIN plan : f \in plan[k].files BY <3>1
      <4>2. CASE k = 1
        <5>1. V!Key(f) \in V!Keys(zips'[p]) BY <1>3, <1>6, <1>8, <1>9, <2>4, <4>1, <4>2
        <5>2. \A j \in DOMAIN plan' : plan'[j].name # p
          BY <1>1, <1>3, <1>5, <2>4 DEF PlannedInv, p
        <5>3. <<p, resumed>> \in packed' /\ <<p, resumed>>[1] = p BY <1>4
        <5> QED BY <5>1, <5>2, <5>3
      <4>3. CASE k # 1 BY <1>5, <4>1, <4>3
      <4> QED BY <4>2, <4>3
    <3>2. CASE \E e \in packed : /\ V!Key(f) \in V!Keys(zips[e[1]])
                                 /\ \A k \in DOMAIN plan : plan[k].name # e[1]
      <4>1. PICK e \in packed : /\ V!Key(f) \in V!Keys(zips[e[1]])
                               /\ \A k \in DOMAIN plan : plan[k].name # e[1]
        BY <3>2
      <4>2. e[1] # p /\ e[1] \in Archives BY <1>1, <1>3, <4>1 DEF p, ViewerTypes
      <4>3. zips'[e[1]] = zips[e[1]] /\ e \in packed' BY <1>4, <1>9, <4>2
      <4> QED BY <1>5, <4>1, <4>3
    <3> QED BY <1>1, <2>4, <3>1, <3>2 DEF PlannedInv
  <2> QED BY <1>1, <2>1, <2>2, <2>3, <2>4 DEF PlannedInv, Distinct, V!Keys, V!Key
<1> QED BY <1>11, <1>12, <1>13, <1>14, <1>15, <1>16 DEF ViewerInv

(* A packer that ends leaves its archive as it was, with an entry more, or *)
(* torn.                                                                   *)
LEMMA PackerEnds ==
  ASSUME ViewerInv, V!AddRaises \/ V!KillPacker
  PROVE  ViewerInv'
<1> DEFINE State == [state : {"none", "torn", "closed"}, entries : Seq(Files)]
<1>1. /\ ViewerTypes /\ TurnsInv /\ OnceIn /\ PlannedInv
      /\ zpc = "adding" => plan # <<>>
      /\ zpc' = "off" /\ plan' = <<>> /\ open' = {} /\ bpc = "off"
      /\ UNCHANGED <<img, builds, bpc, byLetter, tree, mode, zips, resumed, asked,
                     packed>>
  BY DEF V!AddRaises, V!KillPacker, V!PackerStops, V!building, ViewerInv, TurnsInv
<1>2. Archives' = Archives /\ Files' = Files /\ V!Places' = V!Places
  BY DEF Archives, Files, V!Places
<1>3. ASSUME NEW p \in Archives, NEW now \in State, V!NoneTwice(now.entries),
             partial' = [partial EXCEPT ![p] = now]
      PROVE  /\ partial' \in [Archives -> State]
             /\ \A q \in Archives : V!NoneTwice(partial'[q].entries)
  <2>1. partial \in [Archives -> State] BY <1>1 DEF ViewerTypes
  <2>2. \A q \in Archives : V!NoneTwice(partial[q].entries) BY <1>1 DEF OnceIn
  <2> HIDE DEF State
  <2> QED BY <1>3, <2>1, <2>2
<1>4. /\ partial' \in [Archives -> State]
      /\ \A q \in Archives : V!NoneTwice(partial'[q].entries)
  <2> DEFINE p == plan[1].name
             e == CHOOSE e \in open : TRUE
             cutOff == [e EXCEPT !.cut = TRUE]
             longer == [partial[p] EXCEPT !.entries = Append(@, cutOff)]
  <2>1. zpc = "adding" => Head(plan).name = p /\ p \in Archives
    BY <1>1, PlanFacts
  <2>2. CASE partial' = partial BY <1>1, <2>2 DEF ViewerTypes, OnceIn
  <2>3. CASE zpc = "adding" /\ partial' = [partial EXCEPT ![p] = V!Torn]
    <3>1. V!Torn \in State /\ V!Torn.entries = <<>> BY DEF V!Torn
    <3>2. V!NoneTwice(V!Torn.entries) BY <3>1 DEF V!NoneTwice
    <3> HIDE DEF State, p
    <3> QED BY <1>3, <2>1, <2>3, <3>1, <3>2
  <2>4. CASE /\ zpc = "adding" /\ open # {}
             /\ partial' = [partial EXCEPT ![p] = longer]
    <3>1. e \in open /\ e \in Files /\ V!Key(e) \notin V!Keys(partial[p].entries)
      BY <1>1, <2>4 DEF ViewerTypes, OnceIn
    <3> HIDE DEF e
    <3>2. cutOff \in Files /\ V!Key(cutOff) = V!Key(e)
      BY <3>1 DEF Files, V!Key
    <3>3. partial[p] \in State /\ V!NoneTwice(partial[p].entries)
      BY <1>1, <2>1, <2>4 DEF ViewerTypes, OnceIn
    <3> HIDE DEF cutOff, p
    <3>4. longer \in State /\ V!NoneTwice(longer.entries)
      BY <3>1, <3>2, <3>3, OneEntryMore
    <3> HIDE DEF State, longer
    <3> QED BY <1>3, <2>1, <2>4, <3>4
  <2>5. CASE V!KillPacker BY <2>1, <2>2, <2>3, <2>5 DEF V!KillPacker
  <2>6. CASE V!AddRaises
    <3>1. \/ partial' = partial
          \/ partial' = [partial EXCEPT ![p].entries = Append(@, cutOff)]
      BY <2>1, <2>6 DEF V!AddRaises
    <3>2. [partial EXCEPT ![p].entries = Append(@, cutOff)] = [partial EXCEPT ![p] = longer]
      OBVIOUS
    <3>3. zpc = "adding" /\ open # {} BY <2>6 DEF V!AddRaises
    <3> QED BY <2>2, <2>4, <3>1, <3>2, <3>3
  <2> QED BY <2>5, <2>6
<1>5. plan' \in Seq([name : Archives, files : SUBSET Files]) BY <1>1
<1>6. ViewerTypes' BY <1>1, <1>2, <1>4, <1>5 DEF ViewerTypes
<1>7. TurnsInv' BY <1>1 DEF TurnsInv
<1>8. OnceIn' BY <1>1, <1>2, <1>4 DEF OnceIn, V!NoneTwice, Distinct, V!Key
<1>9. FillInv' /\ PackedInv' /\ PlannedInv' BY <1>1 DEF FillInv, PackedInv, PlannedInv
<1> QED BY <1>6, <1>7, <1>8, <1>9 DEF ViewerInv

LEMMA ViewerStep ==
  ASSUME V!ViewerAssumption, ViewerInv, [V!Next]_V!vars
  PROVE  ViewerInv'
<1>1. CASE UNCHANGED V!vars
  <2>1. UNCHANGED <<img, builds, bpc, byLetter, tree, mode, plan, open, partial,
                    zips, zpc, resumed, asked, packed>>
    BY <1>1 DEF V!vars, V!building, V!packing
  <2>2. Archives' = Archives /\ Files' = Files /\ V!Places' = V!Places
    BY DEF Archives, Files, V!Places
  <2>3. ViewerTypes' /\ TurnsInv'
    BY <2>1, <2>2 DEF ViewerInv, ViewerTypes, TurnsInv
  <2> QED BY <2>1, <2>3, PackerRests DEF ViewerInv
<1>2. CASE V!Next
  BY <1>2, BuildStep, PackStep, PlaceStep, RestStep, OpenZipStep, AddStep,
     FinishZipStep, PackerEnds
  DEF V!Next
<1> QED BY <1>1, <1>2

(* ArchivesAreWhole: however often the packer is broken off, fails and     *)
(* begins again over what it left, no archive has a file twice, those it   *)
(* has finished have every file of their letter, nothing but the present   *)
(* files, whole, if they were begun anew, and the parts together have      *)
(* every file there was (distribute_pension_viewer.write_letter_zip and    *)
(* main, build_pensioncard_viewer.place_letter_files).                     *)
THEOREM ArchivesStayWhole == V!Spec => []ArchivesAreWhole
<1>1. V!ViewerAssumption BY CollectionsAssumption
<1>2. V!Init => ViewerInv BY <1>1, ViewerStarts
<1>3. ViewerInv /\ [V!Next]_V!vars => ViewerInv' BY <1>1, ViewerStep
<1>4. ViewerInv => ArchivesAreWhole
  <2> SUFFICES ASSUME ViewerInv PROVE V!ArchivesAreWhole BY DEF ArchivesAreWhole
  <2>1. DOMAIN zips = Archives /\ packed \subseteq Archives \X BOOLEAN
    BY DEF ViewerInv, ViewerTypes
  <2>2. zpc = "done" /\ mode = "parts" =>
          \A f \in asked : \E e \in packed : V!Key(f) \in V!Keys(zips[e[1]])
    BY DEF ViewerInv, TurnsInv, PlannedInv
  <2>3. \A p : AllIn(zips[p], asked) => V!ToSet(zips[p]) \subseteq asked
    BY DEF AllIn, V!ToSet
  <2> QED BY <2>1, <2>2, <2>3 DEF V!ArchivesAreWhole, ViewerInv, OnceIn, PackedInv
<1> QED BY <1>2, <1>3, <1>4, PTL DEF V!Spec
=============================================================================
