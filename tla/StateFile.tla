----------------------------- MODULE StateFile -----------------------------
(***************************************************************************)
(* results.jsonl on disk: JsonlStateRepository (state/repository.py), the  *)
(* driver that appends to it and resumes from it (run_unified.py), the two *)
(* post-passes that rewrite it, and the checkpoint commands                *)
(* (pipeline/checkpoint.py).                                               *)
(*                                                                         *)
(* A file is its lines, and whether the last one lacks its newline.  A     *)
(* line is the pensioner it is for, Blank for {}, or Corrupt when it is    *)
(* not JSON.  A killed process leaves the file as written so far; a power  *)
(* cut leaves any member of survivors, what the syncs so far guarantee.    *)
(***************************************************************************)
EXTENDS Integers, Sequences, FiniteSets, SequencesExt

CONSTANTS
  Input,        \* the pensioners of the run, in order, each once: the scraper of
                \* the collection keeps its records under their ids
  Paged,        \* those the pension-card sidecar has pages for
  Corrupt, Blank,
  PowerCuts,    \* whether the machine may lose power
  MaxFaults,    \* bound: kills and power cuts
  MaxSkips,     \* bound: pensioners left without a row, their work deferred
  MaxReprocess, \* bound: starts with --reprocess
  MaxRollbacks  \* bound: rollbacks

Ids == ToSet(Input)

ASSUME StateFileAssumption ==
  /\ Input \in Seq(Ids) /\ \A i, j \in DOMAIN Input : Input[i] = Input[j] => i = j
  /\ Corrupt # Blank /\ {Corrupt, Blank} \cap Ids = {}
  /\ Paged \subseteq Ids
  /\ PowerCuts \in BOOLEAN
  /\ {MaxFaults, MaxSkips, MaxReprocess, MaxRollbacks} \subseteq Nat

VARIABLES
  file,       \* the file as a reader sees it
  survivors,  \* the files a power cut may leave
  snap,       \* the checkpoint snapshots: none, or the latest
  pc,         \* "down", "loop", "flush", "enrich", "pages"
  todo,       \* the places in Input of those this run has still to append
  acked,      \* history: those whose append returned
  unsynced,   \* history: the file was rewritten without a sync since the last
  exposed,    \* history: power was lost while it was
  reprocesses, faults, skips, rollbacks

disk == <<file, survivors, unsynced>>
counts == <<reprocesses, faults, skips, rollbacks>>
vars == <<disk, snap, pc, todo, acked, exposed, counts>>

(* The one whose turn it is.                                               *)
First == Min(todo)

Empty == [lines |-> <<>>, open |-> FALSE]

IdsOf(f) == ToSet(f.lines) \cap Ids
IsCorrupt(f) == Corrupt \in ToSet(f.lines)
Terminated(f) == IF f.open THEN ToSet(Front(f.lines)) \cap Ids ELSE IdsOf(f)
-----------------------------------------------------------------------------
(* What write() does to the end of the file: a line is begun, and glued to *)
(* an unterminated one if that is where the file ends.                     *)
Extend(f, l, open) ==
  IF f.open
  THEN [lines |-> Append(Front(f.lines), Corrupt), open |-> open]
  ELSE [lines |-> Append(f.lines, l), open |-> open]

(* The file with part of a row on it: the JSON cut short, or whole and     *)
(* only the newline missing.                                               *)
Torn(f, id) == {Extend(f, Corrupt, TRUE), Extend(f, id, TRUE)}

(* Every way a rewrite that was not synced can end up.                     *)
Cut(f) ==
  LET head(n) == SubSeq(f.lines, 1, n)
  IN  {[lines |-> head(n), open |-> FALSE] : n \in 0 .. Len(f.lines)} \cup
      {[lines |-> Append(head(n - 1), Corrupt), open |-> TRUE] : n \in 1 .. Len(f.lines)}

(* A mutant: the file is rewritten in place.                               *)
TruncateAndRewrite(f, new) == {f} \cup Cut(new)

(* What a process killed during a rewrite leaves: the rewrite goes to a    *)
(* .tmp file first.                                                        *)
MidRewrite(f, new) == {f}

(* A mutant: the unreadable line is written back as it was.                *)
KeepLine(l) == l

(* The records post-pass pensioncard_pages writes back.                    *)
PagesLine(l) == IF l = Corrupt THEN Blank ELSE l
PagesFile(f) == [lines |-> [i \in DOMAIN f.lines |-> PagesLine(f.lines[i])], open |-> FALSE]

(* A mutant: the run resumes from the last row.                            *)
LastRow(f) == IF f.lines = <<>> THEN {} ELSE {Last(f.lines)} \cap Ids

(* The pensioners a resumed run takes as done.                             *)
Completed(f) == IdsOf(f)
-----------------------------------------------------------------------------
Init ==
  /\ file = Empty /\ survivors = {Empty} /\ unsynced = FALSE /\ snap = {}
  /\ pc = "down" /\ todo = {}
  /\ acked = {} /\ exposed = FALSE
  /\ reprocesses = 0 /\ faults = 0 /\ skips = 0 /\ rollbacks = 0

(* iter_all(strict=True) raises on a corrupt line and the program does not *)
(* come up.                                                                *)
Resume ==
  /\ pc = "down" /\ ~IsCorrupt(file)
  /\ todo' = {i \in DOMAIN Input : Input[i] \notin Completed(file)}
  /\ pc' = "loop"
  /\ UNCHANGED <<disk, snap, acked, exposed, counts>>

(* --reprocess does not read the file.                                     *)
Reprocess ==
  /\ pc = "down" /\ reprocesses < MaxReprocess
  /\ reprocesses' = reprocesses + 1
  /\ todo' = DOMAIN Input
  /\ pc' = "loop"
  /\ UNCHANGED <<disk, snap, acked, exposed, faults, skips, rollbacks>>

(* append: the row and its newline are written, then flushed and synced.   *)
WriteRow ==
  /\ pc = "loop" /\ todo # {}
  /\ file' = Extend(file, Input[First], FALSE)
  /\ survivors' = survivors \cup Torn(file, Input[First]) \cup {file'}
  /\ pc' = "flush"
  /\ UNCHANGED <<unsynced, snap, todo, acked, exposed, counts>>

SyncRow ==
  /\ pc = "flush"
  /\ survivors' = {file} /\ unsynced' = FALSE
  /\ acked' = acked \cup {Input[First]}
  /\ todo' = todo \ {First}
  /\ pc' = "loop"
  /\ UNCHANGED <<file, snap, exposed, counts>>

SkipDeferred ==
  /\ pc = "loop" /\ todo # {} /\ skips < MaxSkips
  /\ skips' = skips + 1
  /\ todo' = todo \ {First}
  /\ UNCHANGED <<disk, snap, pc, acked, exposed, reprocesses, faults, rollbacks>>

EndLoop ==
  /\ pc = "loop" /\ todo = {}
  /\ pc' = "enrich"
  /\ UNCHANGED <<disk, snap, todo, acked, exposed, counts>>

(* observation_enrichment reads strictly (its exception is swallowed) and  *)
(* rewrites when a row gained a field, each line synced before the rename. *)
Enrich ==
  /\ pc = "enrich"
  /\ \/ /\ ~IsCorrupt(file) /\ IdsOf(file) # {}
        /\ file' = [file EXCEPT !.open = FALSE]
        /\ survivors' = survivors \cup {file'}
     \/ UNCHANGED <<file, survivors>>
  /\ pc' = "pages"
  /\ UNCHANGED <<unsynced, snap, todo, acked, exposed, counts>>

(* pensioncard_pages rewrites if a row of the file has pages; no sync.     *)
AddPages ==
  /\ pc = "pages"
  /\ IF IdsOf(file) \cap Paged # {}
     THEN /\ file' = PagesFile(file)
          /\ survivors' = survivors \cup Cut(file')
          /\ unsynced' = TRUE
     ELSE UNCHANGED disk
  /\ pc' = "down"
  /\ UNCHANGED <<snap, todo, acked, exposed, counts>>

PostProcessOnly ==
  /\ pc = "down" /\ file # Empty
  /\ pc' = "pages" /\ todo' = {}
  /\ UNCHANGED <<disk, snap, acked, exposed, counts>>
-----------------------------------------------------------------------------
(* --write-checkpoint, perhaps beside a running program: what read_bytes   *)
(* sees is copied, synced and renamed into place.                          *)
Checkpoint ==
  /\ MaxRollbacks > 0
  /\ \E f \in {file} \cup (IF pc = "loop" /\ todo # {} THEN Torn(file, Input[First]) ELSE {}) :
       snap' = {f}
  /\ UNCHANGED <<disk, pc, todo, acked, exposed, counts>>

(* --rollback-to latest: the snapshot is copied over the file, synced and  *)
(* renamed; what it does not hold is given up.                             *)
Rollback ==
  /\ pc = "down" /\ rollbacks < MaxRollbacks
  /\ \E f \in snap :
       /\ file' = f
       /\ survivors' = survivors \cup {f}
       /\ acked' = acked \cap Terminated(f)
  /\ rollbacks' = rollbacks + 1
  /\ UNCHANGED <<unsynced, snap, pc, todo, exposed, reprocesses, faults, skips>>

(* What is on the way to the disk when the process dies.                   *)
InFlight ==
  CASE pc = "loop" /\ todo # {} -> Torn(file, Input[First])
    [] pc = "enrich" -> MidRewrite(file, [file EXCEPT !.open = FALSE])
    [] pc = "pages" -> MidRewrite(file, PagesFile(file))
    [] OTHER -> {}

Kill ==
  /\ pc # "down" /\ faults < MaxFaults
  /\ faults' = faults + 1
  /\ \E f \in {file} \cup InFlight :
       file' = f /\ survivors' = survivors \cup {f}
  /\ pc' = "down" /\ todo' = {}
  /\ UNCHANGED <<unsynced, snap, acked, exposed, reprocesses, skips, rollbacks>>

PowerLoss ==
  /\ PowerCuts /\ faults < MaxFaults
  /\ faults' = faults + 1
  /\ \E f \in survivors \cup InFlight : file' = f /\ survivors' = {f}
  /\ exposed' = (exposed \/ unsynced) /\ unsynced' = FALSE
  /\ pc' = "down" /\ todo' = {}
  /\ UNCHANGED <<snap, acked, reprocesses, skips, rollbacks>>

Run == WriteRow \/ SyncRow \/ SkipDeferred \/ EndLoop \/ Enrich \/ AddPages

Next == \/ Resume \/ Reprocess \/ PostProcessOnly \/ Run
        \/ Checkpoint \/ Rollback \/ Kill \/ PowerLoss

Spec == Init /\ [][Next]_vars

(* The operator starts the program again when it is down, and runs the     *)
(* --post-process-only repair when it does not come up.                    *)
FairSpec == Spec /\ WF_vars(Run) /\ SF_vars(Resume) /\ WF_vars(PostProcessOnly)
-----------------------------------------------------------------------------
Files ==
  {f \in [lines : Seq(Ids \cup {Corrupt, Blank}), open : BOOLEAN] :
     f.open => f.lines # <<>>}

(* Every variable keeps its type; the file a reader sees may survive a power *)
(* cut, and a run that left its loop has no pensioner to do.               *)
TypeOK ==
  /\ file \in Files /\ snap \subseteq Files /\ Cardinality(snap) <= 1
  /\ survivors \subseteq Files /\ file \in survivors
  /\ pc \in {"down", "loop", "flush", "enrich", "pages"}
  /\ todo \subseteq DOMAIN Input /\ (pc \in {"down", "enrich", "pages"} => todo = {})
  /\ acked \subseteq Ids
  /\ unsynced \in BOOLEAN /\ exposed \in BOOLEAN
  /\ reprocesses \in 0 .. MaxReprocess /\ faults \in 0 .. MaxFaults
  /\ skips \in 0 .. MaxSkips /\ rollbacks \in 0 .. MaxRollbacks

(* Resuming never repeats a pensioner: as long as nobody asks for          *)
(* --reprocess, kills, power cuts, repairs and rollbacks leave at most one *)
(* row of each in the file (run_unified.py's completed_ids, L5).           *)
OneRowEach ==
  reprocesses = 0 =>
    \A i, j \in DOMAIN file.lines :
      file.lines[i] = file.lines[j] /\ file.lines[i] \in Ids => i = j

(* A fault costs at most one acknowledged row, and so does a rollback (to  *)
(* a snapshot taken in the middle of an append): append syncs before it    *)
(* returns, a rewrite goes through a .tmp file, and a row can only be lost *)
(* later by being glued to the one unterminated line that was left.  The   *)
(* exception is power lost over the rewrite pensioncard_pages does not     *)
(* sync.                                                                   *)
LossesAreBounded ==
  ~exposed => Cardinality(acked \ IdsOf(file)) <= faults + rollbacks

(* A fault or a rollback makes at most one line unreadable, so the strict  *)
(* reader never refuses a file none has hit.                               *)
DamageIsBounded ==
  Cardinality({i \in DOMAIN file.lines : file.lines[i] = Corrupt}) <= faults + rollbacks

(* What a fault or a rollback costs, in rows and in lines.                 *)
FaultsCostOneEach == LossesAreBounded /\ DamageIsBounded

(* Whatever happens, in the end every pensioner has a row, or the file is  *)
(* one the strict reader refuses and --post-process-only never rewrites    *)
(* (it has no row with pages).                                             *)
CompleteOrBeyondRepair ==
  <>[](\/ Ids \subseteq IdsOf(file)
       \/ IsCorrupt(file) /\ IdsOf(file) \cap Paged = {})

(* CONTEXT.md L3: a crash mid-run leaves the file reloadable by re-running *)
(* with the same path.                                                     *)
Reloadable == pc = "down" => ~IsCorrupt(file)

(* CONTEXT.md L10: a kill can not lose a whole record once append, which   *)
(* syncs, has returned.                                                    *)
AckedSurvive == ~PowerCuts => acked \subseteq IdsOf(file)
=============================================================================
