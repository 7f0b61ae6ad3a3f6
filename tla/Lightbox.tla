------------------------------ MODULE Lightbox ------------------------------
(***************************************************************************)
(* The image overlay of a viewer page (the script LETTER_APP_JS that       *)
(* build_pensioncard_viewer.py writes beside each page).  Choosing an      *)
(* image mounts it one frame later; mounting removes the map there is,     *)
(* starts to load the image, and the map is made when that is loaded,      *)
(* while the reader goes on choosing.                                      *)
(***************************************************************************)
EXTENDS Naturals, Sequences, SequencesExt

CONSTANTS
  PageCount,  \* the number of images of each record
  WithApp,    \* the records with an application
  MaxLoads    \* bound: images under way at a time

(* What the constants must be; assumed where they get their values.        *)
LightboxAssumption ==
  /\ \A r \in DOMAIN PageCount : PageCount[r] \in Nat \ {0}
  /\ WithApp \subseteq DOMAIN PageCount /\ MaxLoads \in Nat \ {0}

VARIABLES
  box,      \* the record opened, the page and the view; rec = None if closed
  frames,   \* mounts waiting for the next frame
  loading,  \* the images being loaded
  shown,    \* the image of the map, or NoMap
  late      \* history: the images that were loading when the last mount came

vars == <<box, frames, loading, shown, late>>

None == "none"
NoMap == <<>>
Closed == [rec |-> None, idx |-> 0, view |-> "card"]

HasApplication(r) == r \in WithApp

ImgPath(b) ==
  IF b.view = "application" /\ HasApplication(b.rec)
  THEN <<b.rec, "application", 0>> ELSE <<b.rec, "card", b.idx>>

Room == frames + Len(loading) < MaxLoads

Init ==
  /\ box = Closed /\ frames = 0 /\ loading = <<>>
  /\ shown = NoMap /\ late = {}

(* A mutant: the map of the last image is left where it is.                *)
LeaveMap == UNCHANGED shown

RemoveMap == shown' = NoMap

(* mountLeaflet                                                            *)
Mount(b) ==
  IF b.rec = None THEN UNCHANGED <<loading, shown, late>>
  ELSE /\ RemoveMap
       /\ loading' = Append(loading, ImgPath(b))
       /\ late' = ToSet(loading)

(* openLightbox leaves the view undefined, whatever it was.                *)
OpenLightbox(r, idx) ==
  /\ Room
  /\ box' = [rec |-> r, idx |-> idx, view |-> None]
  /\ frames' = frames + 1
  /\ UNCHANGED <<loading, shown, late>>

NextFrame ==
  /\ frames > 0 /\ frames' = frames - 1
  /\ Mount(box) /\ UNCHANGED box

(* A thumbnail can be clicked while the overlay is closed.                 *)
ClickThumb ==
  /\ box.rec = None
  /\ \E r \in DOMAIN PageCount : \E i \in 0 .. PageCount[r] - 1 :
       OpenLightbox(r, i)

Step(delta) ==
  /\ box.rec # None
  /\ LET n == PageCount[box.rec]
     IN OpenLightbox(box.rec, (box.idx + delta + n) % n)

SwitchView(target) ==
  /\ Room /\ box.rec # None /\ target # box.view
  /\ target = "application" => HasApplication(box.rec)
  /\ box' = [box EXCEPT !.view = target]
  /\ Mount(box') /\ UNCHANGED frames

CloseLightbox ==
  /\ box.rec # None
  /\ box' = Closed /\ shown' = NoMap
  /\ UNCHANGED <<frames, loading, late>>

(* onload: L.map raises on a container that has a map.                     *)
Loaded(k) ==
  /\ shown' = IF shown = NoMap THEN loading[k] ELSE shown
  /\ loading' = RemoveAt(loading, k)
  /\ UNCHANGED <<box, frames, late>>

LoadFails(k) ==
  /\ loading' = RemoveAt(loading, k)
  /\ UNCHANGED <<box, frames, shown, late>>

(* handleKey and the toolbar: zooming, rotating, saving and filtering      *)
(* change nothing kept here.                                               *)
HandleKey ==
  \/ \E delta \in {1, -1} : Step(delta)
  \/ \E target \in {"card", "application"} : SwitchView(target)
  \/ CloseLightbox

Next ==
  \/ ClickThumb \/ HandleKey \/ NextFrame
  \/ \E k \in DOMAIN loading : Loaded(k) \/ LoadFails(k)

Spec == Init /\ [][Next]_vars
-----------------------------------------------------------------------------
Settled == frames = 0 /\ loading = <<>>

(* However fast the reader goes through the images, closes the overlay and *)
(* opens it: once the choice is mounted nothing is shown but the image     *)
(* chosen, or one that was still loading when it was mounted.  What had    *)
(* been loaded by then does not come back.                                 *)
NothingOldIsShown ==
  frames = 0 /\ box.rec # None => shown \in {NoMap, ImgPath(box)} \cup late

(* build_pensioncard_viewer.py:695-697: "Tear down any previous map ...    *)
(* before building a new one", so that what is shown, when all is loaded,  *)
(* is what was chosen last.                                                *)
LastChosenIsShown ==
  Settled /\ box.rec # None => shown \in {NoMap, ImgPath(box)}
=============================================================================
