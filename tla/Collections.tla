----------------------------- MODULE Collections -----------------------------
(***************************************************************************)
(* The programs around what was collected: the tools that fetch it item by *)
(* item (Harvest), the offline viewer and its packer (Viewer), and a page  *)
(* of the viewer in a browser (Lightbox).  The bound on failures is the    *)
(* same for the first two, of which one runs at a time.                    *)
(***************************************************************************)
EXTENDS Harvest

CONSTANTS
  People, Dated, CardOf, Early, Letters, PartSize, PartNames,  \* Viewer
  MaxBuilds, MaxBuildKills,
  PageCount, WithApp, MaxLoads  \* Lightbox

VARIABLES
  img, builds, bpc, byLetter, tree, all, mode, plan, open, partial, dirty,
  zips, zpc, resumed, asked, packed,
  box, frames, loading, shown, late

V == INSTANCE Viewer WITH MaxKills <- MaxBuildKills
L == INSTANCE Lightbox

ASSUME CollectionsAssumption == V!ViewerAssumption /\ L!LightboxAssumption

FetchingVars == <<tool, size, counted, disk, pc, limit, range, known, clean,
                  todo, mem, cur, new, made, broken>>
ViewerVars == <<img, builds, bpc, byLetter, tree, all, mode, plan, open,
                partial, dirty, zips, zpc, resumed, asked, packed>>
LightboxVars == <<box, frames, loading, shown, late>>
-----------------------------------------------------------------------------
(* Viewer: what is packed is all there is; no file is cut short; the pages *)
(* are those there are.                                                    *)
ArchivesAreWhole == V!ArchivesAreWhole
NoneIsCut == V!NoneIsCut
PagesMatch == V!PagesMatch

(* Lightbox: what was loaded before the choice was mounted is not shown;   *)
(* the image chosen last is.                                               *)
NothingOldIsShown == L!NothingOldIsShown
LastChosenIsShown == L!LastChosenIsShown
==============================================================================
