--------------------------- MODULE StateFileProofs ---------------------------
(***************************************************************************)
(* Proofs about StateFile for any input, any pages and any number of       *)
(* faults, skips, --reprocess runs and rollbacks: types, one row each, and *)
(* what a fault may cost in lines and in acknowledged rows.                *)
(***************************************************************************)
EXTENDS StateFile, SequenceTheorems, FiniteSetTheorems, WellFoundedInduction, TLAPS

Lines == Ids \cup {Corrupt, Blank}

(* A row that is being flushed is the row of one who waits.                *)
Wanted == pc = "flush" => todo # {}

(* No two lines of a file are rows of one pensioner.                       *)
Unique(f) ==
  \A i, j \in DOMAIN f.lines :
    f.lines[i] = f.lines[j] /\ f.lines[i] \in Ids => i = j

(* Every file a reader may ever be shown, the file's successors and the    *)
(* snapshot, has one row of each, and none of a pensioner whose row is     *)
(* still to be appended.                                                   *)
OneRowInv ==
  reprocesses = 0 =>
    /\ \A f \in survivors \cup snap : Unique(f)
    /\ pc = "loop" => \A i \in todo : Input[i] \notin IdsOf(file)
    /\ pc = "flush" => \A i \in todo \ {First} : Input[i] \notin IdsOf(file)

(* The lines that are lost, or will be: the unreadable ones, and the one   *)
(* the next append would be glued to.                                      *)
Marks(f) == {i \in DOMAIN f.lines : f.lines[i] = Corrupt \/ (f.open /\ i = Len(f.lines))}

(* A power cut or a rollback shows a file with one mark more at most, and  *)
(* is counted when it does.                                                *)
DamageInv ==
  /\ Cardinality(Marks(file)) <= faults + rollbacks
  /\ \A f \in survivors \cup snap : Cardinality(Marks(f)) <= faults + rollbacks + 1

(* Those whose append has written its row, returned or not.                *)
InHand == IF pc = "flush" THEN acked \cup {Input[First]} ELSE acked

(* What a file has lost of them, or loses with the next append: the row    *)
(* without a newline is glued to it.                                       *)
Missing(ids, f) == Cardinality(ids \ Terminated(f)) + (IF f.open THEN 1 ELSE 0)

(* A power cut shows a file that misses one more at most, unless the file  *)
(* was rewritten without a sync.                                           *)
LossInv ==
  ~exposed =>
    /\ Missing(InHand, file) <= faults + rollbacks
    /\ ~unsynced => \A f \in survivors : Missing(acked, f) <= faults + rollbacks + 1

-----------------------------------------------------------------------------
(* Places, sets and sequences.                                             *)

(* A set of places has a first one.                                        *)
LEMMA MinIsFirst ==
  ASSUME NEW S \in SUBSET Nat, S # {}
  PROVE  Min(S) \in S
<1>1. PICK x \in S : \A y \in S : ~(<<y, x>> \in OpToRel(<, Nat))
  BY WFMin, NatLessThanWellFounded
<1>2. \A y \in S : ~(y < x)
  BY <1>1 DEF OpToRel
<1>3. \A y \in S : x <= y
  BY <1>2
<1>4. QED BY <1>3 DEF Min

(* The one whose turn it is is one of those that wait.                     *)
LEMMA FirstWaits ==
  ASSUME todo \subseteq DOMAIN Input, todo # {}
  PROVE  First \in todo /\ First \in DOMAIN Input /\ Input[First] \in Ids
<1>1. DOMAIN Input \subseteq Nat BY StateFileAssumption
<1>2. First \in todo BY <1>1, MinIsFirst DEF First
<1>3. QED BY <1>2, StateFileAssumption

(* A line written behind a file of lines: on a closed file it is a line of *)
(* its own, on an open one it spoils the last.                             *)
LEMMA Extended ==
  ASSUME NEW f \in Files, NEW l \in Lines, NEW open \in BOOLEAN
  PROVE  LET g == Extend(f, l, open) IN
           /\ g \in Files /\ g.open = open
           /\ f.open =>
                /\ Len(f.lines) \in Nat \ {0} /\ Len(g.lines) = Len(f.lines)
                /\ g.lines[Len(f.lines)] = Corrupt
                /\ \A i \in 1 .. Len(f.lines) - 1 : g.lines[i] = f.lines[i]
           /\ ~f.open =>
                /\ Len(g.lines) = Len(f.lines) + 1 /\ g.lines[Len(f.lines) + 1] = l
                /\ \A i \in 1 .. Len(f.lines) : g.lines[i] = f.lines[i]
<1> DEFINE g == Extend(f, l, open)
<1>1. /\ f.lines \in Seq(Lines) /\ f.open \in BOOLEAN
      /\ f.open => f.lines # <<>>
  BY DEF Files, Lines
<1>2. Corrupt \in Lines BY DEF Lines
<1>3. CASE f.open
  <2> DEFINE n == Len(f.lines)
  <2>1. n \in Nat \ {0} BY <1>1, <1>3, EmptySeq
  <2>2. /\ Front(f.lines) \in Seq(Lines) /\ Len(Front(f.lines)) = n - 1
        /\ \A i \in 1 .. n - 1 : Front(f.lines)[i] = f.lines[i]
    <3>1. \A i \in 1 .. n - 1 : f.lines[i] \in Lines BY <1>1, <2>1, ElementOfSeq
    <3>2. QED BY <2>1, <3>1, SubSeqProperties DEF Front
  <2>3. /\ g.lines = Append(Front(f.lines), Corrupt) /\ g.open = open
        /\ g = [lines |-> Append(Front(f.lines), Corrupt), open |-> open]
    BY <1>3 DEF Extend
  <2>4. /\ g.lines \in Seq(Lines) /\ g.lines # <<>> /\ Len(g.lines) = n
        /\ \A i \in 1 .. n - 1 : g.lines[i] = f.lines[i]
        /\ g.lines[n] = Corrupt
    BY <1>2, <2>1, <2>2, <2>3, AppendProperties
  <2>5. g \in Files BY <2>3, <2>4 DEF Files, Lines
  <2>6. QED BY <1>3, <2>1, <2>3, <2>4, <2>5
<1>4. CASE ~f.open
  <2>1. g = [lines |-> Append(f.lines, l), open |-> open] BY <1>4 DEF Extend
  <2>2. /\ g.lines \in Seq(Lines) /\ g.lines # <<>> /\ Len(g.lines) = Len(f.lines) + 1
        /\ \A i \in 1 .. Len(f.lines) : g.lines[i] = f.lines[i]
        /\ g.lines[Len(f.lines) + 1] = l
    BY <1>1, <2>1, AppendProperties
  <2>3. g \in Files BY <2>1, <2>2 DEF Files, Lines
  <2>4. QED BY <1>4, <2>1, <2>2, <2>3
<1>5. QED BY <1>1, <1>3, <1>4

(* The lines of a file are numbered from one.                              *)
LEMMA Numbered ==
  ASSUME NEW f \in Files
  PROVE  /\ Len(f.lines) \in Nat /\ DOMAIN f.lines = 1 .. Len(f.lines)
         /\ \A i \in DOMAIN f.lines : f.lines[i] \in Lines
         /\ f.lines \in Seq(Lines) /\ f.open \in BOOLEAN
         /\ f.open => Len(f.lines) > 0
<1>1. f.lines \in Seq(Lines) /\ f.open \in BOOLEAN /\ (f.open => f.lines # <<>>)
  BY DEF Files, Lines
<1>2. QED BY <1>1, LenProperties, EmptySeq, ElementOfSeq

(* What a rewrite that was not synced leaves is the beginning of it, its   *)
(* last line perhaps cut.                                                  *)
LEMMA CutFile ==
  ASSUME NEW f \in Files, NEW g \in Cut(f)
  PROVE  /\ g \in Files
         /\ Len(g.lines) <= Len(f.lines)
         /\ \A i \in DOMAIN g.lines :
              IF g.open /\ i = Len(g.lines) THEN g.lines[i] = Corrupt
                                            ELSE g.lines[i] = f.lines[i]
<1> DEFINE head(n) == SubSeq(f.lines, 1, n)
<1>1. \A n \in 0 .. Len(f.lines) :
        /\ head(n) \in Seq(Lines) /\ Len(head(n)) = n
        /\ \A i \in 1 .. n : head(n)[i] = f.lines[i]
  <2> TAKE n \in 0 .. Len(f.lines)
  <2>1. \A i \in 1 .. n : f.lines[i] \in Lines BY Numbered
  <2>2. QED BY <2>1, Numbered, SubSeqProperties
<1>2. CASE \E n \in 0 .. Len(f.lines) : g = [lines |-> head(n), open |-> FALSE]
  <2>1. PICK n \in 0 .. Len(f.lines) : g = [lines |-> head(n), open |-> FALSE] BY <1>2
  <2> HIDE DEF head
  <2>2. g \in Files BY <1>1, <2>1 DEF Files, Lines
  <2>3. QED BY <1>1, <2>1, <2>2, Numbered
<1>3. CASE \E n \in 1 .. Len(f.lines) :
             g = [lines |-> Append(head(n - 1), Corrupt), open |-> TRUE]
  <2>1. PICK n \in 1 .. Len(f.lines) :
               g = [lines |-> Append(head(n - 1), Corrupt), open |-> TRUE] BY <1>3
  <2> HIDE DEF head
  <2>2. n - 1 \in 0 .. Len(f.lines) /\ Corrupt \in Lines BY Numbered DEF Lines
  <2>3. /\ g.lines \in Seq(Lines) /\ g.lines # <<>> /\ Len(g.lines) = n
        /\ \A i \in 1 .. n - 1 : g.lines[i] = f.lines[i]
        /\ g.lines[n] = Corrupt
    BY <1>1, <2>1, <2>2, AppendProperties
  <2>4. g \in Files BY <2>1, <2>3 DEF Files, Lines
  <2>5. QED BY <2>1, <2>3, <2>4, Numbered
<1>4. QED BY <1>2, <1>3 DEF Cut

(* The file with pages has the lines it had, but no unreadable one.        *)
LEMMA PagesKept ==
  ASSUME NEW f \in Files
  PROVE  LET g == PagesFile(f) IN
           /\ g \in Files /\ ~g.open /\ Len(g.lines) = Len(f.lines)
           /\ \A i \in DOMAIN g.lines :
                g.lines[i] = IF f.lines[i] = Corrupt THEN Blank ELSE f.lines[i]
<1> DEFINE g == PagesFile(f)
<1>1. /\ Len(f.lines) \in Nat /\ DOMAIN f.lines = 1 .. Len(f.lines)
      /\ \A i \in DOMAIN f.lines : f.lines[i] \in Lines
  BY Numbered
<1>2. \A i \in DOMAIN f.lines : PagesLine(f.lines[i]) \in Lines
  BY <1>1 DEF PagesLine, Lines
<1>3. /\ g = [lines |-> [i \in 1 .. Len(f.lines) |-> PagesLine(f.lines[i])], open |-> FALSE]
      /\ g.lines \in Seq(Lines) /\ Len(g.lines) = Len(f.lines)
      /\ DOMAIN g.lines = 1 .. Len(f.lines)
  BY <1>1, <1>2 DEF PagesFile
<1>4. g \in Files BY <1>3 DEF Files, Lines
<1>5. QED BY <1>1, <1>3, <1>4 DEF PagesLine

(* A killed append leaves the file as it was, or a torn row at its end; a  *)
(* killed rewrite leaves the file as it was.                               *)
LEMMA OnItsWay ==
  ASSUME TypeOK, NEW f \in {file} \cup InFlight, f # file
  PROVE  /\ pc = "loop" /\ todo # {} /\ Input[First] \in Ids
         /\ \E l \in {Corrupt, Input[First]} : f = Extend(file, l, TRUE)
<1>1. /\ pc = "loop" /\ todo # {} /\ f \in Torn(file, Input[First])
  BY DEF InFlight, MidRewrite
<1>2. Input[First] \in Ids BY <1>1, FirstWaits DEF TypeOK
<1>3. QED BY <1>1, <1>2 DEF Torn

LEMMA OnItsWayFits ==
  ASSUME TypeOK, NEW f \in {file} \cup InFlight
  PROVE  f \in Files
<1>1. CASE f = file BY <1>1 DEF TypeOK
<1>2. CASE f # file
  <2>1. PICK l \in Lines : f = Extend(file, l, TRUE) BY <1>2, OnItsWay DEF Lines
  <2>2. QED BY <2>1, Extended DEF TypeOK
<1>3. QED BY <1>1, <1>2

-----------------------------------------------------------------------------
(* The types.                                                              *)

(* The file, its successors and the snapshots stay files, the places still *)
(* to do are places in the input, and only bounded many faults happen.     *)
THEOREM StateFileTypes == Spec => [](TypeOK /\ Wanted)
<1>0. /\ MaxReprocess \in Nat /\ MaxFaults \in Nat /\ MaxSkips \in Nat /\ MaxRollbacks \in Nat
  BY StateFileAssumption
<1> USE <1>0
<1>1. Init => TypeOK /\ Wanted
  <2>1. Empty \in Files BY EmptySeq DEF Empty, Files
  <2>2. Cardinality({}) = 0 BY FS_EmptySet
  <2>3. 0 \in 0 .. MaxReprocess /\ 0 \in 0 .. MaxFaults /\ 0 \in 0 .. MaxSkips
        /\ 0 \in 0 .. MaxRollbacks
    OBVIOUS
  <2>4. SUFFICES ASSUME Init PROVE TypeOK /\ Wanted OBVIOUS
  <2>5. Cardinality(snap) <= 1 BY <2>2, <2>4 DEF Init
  <2>6. QED BY <2>1, <2>3, <2>4, <2>5 DEF Init, TypeOK, Wanted
<1>2. TypeOK /\ Wanted /\ [Next]_vars => (TypeOK /\ Wanted)'
  <2> SUFFICES ASSUME TypeOK, Wanted, [Next]_vars PROVE TypeOK' /\ Wanted' OBVIOUS
  <2> USE DEF TypeOK, Wanted, disk, counts
  <2>1. ASSUME Resume PROVE TypeOK' /\ Wanted' BY <2>1 DEF Resume
  <2>2. ASSUME Reprocess PROVE TypeOK' /\ Wanted' BY <2>2 DEF Reprocess
  <2>3. ASSUME WriteRow PROVE TypeOK' /\ Wanted'
    <3>1. Input[First] \in Ids /\ Input[First] \in Lines /\ Corrupt \in Lines
      BY <2>3, FirstWaits DEF WriteRow, Lines
    <3>2. \A l \in {Corrupt, Input[First]}, open \in BOOLEAN : Extend(file, l, open) \in Files
      BY <3>1, Extended
    <3>3. QED BY <2>3, <3>2 DEF WriteRow, Torn
  <2>4. ASSUME SyncRow PROVE TypeOK' /\ Wanted'
    <3>1. Input[First] \in Ids BY <2>4, FirstWaits DEF SyncRow
    <3>2. QED BY <2>4, <3>1 DEF SyncRow
  <2>5. ASSUME SkipDeferred PROVE TypeOK' /\ Wanted' BY <2>5 DEF SkipDeferred
  <2>6. ASSUME EndLoop PROVE TypeOK' /\ Wanted' BY <2>6 DEF EndLoop
  <2>7. ASSUME Enrich PROVE TypeOK' /\ Wanted'
    <3>1. [file EXCEPT !.open = FALSE] \in Files BY DEF Files
    <3>2. QED BY <2>7, <3>1 DEF Enrich
  <2>8. ASSUME AddPages PROVE TypeOK' /\ Wanted'
    <3>1. PagesFile(file) \in Files /\ Cut(PagesFile(file)) \subseteq Files
      BY PagesKept, CutFile
    <3>2. PagesFile(file) \in Cut(PagesFile(file))
      <4>1. PICK g : g = PagesFile(file) OBVIOUS
      <4>2. g \in Files /\ ~g.open BY <4>1, PagesKept
      <4>3. /\ Len(g.lines) \in 0 .. Len(g.lines) /\ SubSeq(g.lines, 1, Len(g.lines)) = g.lines
            /\ g = [lines |-> g.lines, open |-> FALSE]
        BY <4>2, SubSeqFull DEF Files
      <4>4. QED BY <4>1, <4>3 DEF Cut
    <3>3. CASE IdsOf(file) \cap Paged # {}
      <4>1. /\ file' = PagesFile(file) /\ survivors' = survivors \cup Cut(PagesFile(file))
            /\ unsynced' = TRUE
        BY <2>8, <3>3 DEF AddPages
      <4>2. file' \in Files /\ survivors' \subseteq Files /\ file' \in survivors'
        BY <3>1, <3>2, <4>1
      <4>3. QED BY <2>8, <4>1, <4>2 DEF AddPages
    <3>4. CASE IdsOf(file) \cap Paged = {}
      BY <2>8, <3>4 DEF AddPages
    <3>5. QED BY <3>3, <3>4
  <2>9. ASSUME PostProcessOnly PROVE TypeOK' /\ Wanted' BY <2>9 DEF PostProcessOnly
  <2>10. ASSUME Checkpoint PROVE TypeOK' /\ Wanted'
    <3>1. PICK f \in {file} \cup InFlight : snap' = {f}
      BY <2>10 DEF Checkpoint, InFlight
    <3>2. f \in Files /\ Cardinality({f}) = 1 BY <3>1, OnItsWayFits, FS_Singleton
    <3>3. QED BY <2>10, <3>1, <3>2 DEF Checkpoint
  <2>11. ASSUME Rollback PROVE TypeOK' /\ Wanted' BY <2>11 DEF Rollback
  <2>12. ASSUME Kill PROVE TypeOK' /\ Wanted'
    <3>1. PICK f \in {file} \cup InFlight : file' = f /\ survivors' = survivors \cup {f}
      BY <2>12 DEF Kill
    <3>2. f \in Files BY <3>1, OnItsWayFits
    <3>3. QED BY <2>12, <3>1, <3>2 DEF Kill
  <2>13. ASSUME PowerLoss PROVE TypeOK' /\ Wanted'
    <3>1. PICK f \in survivors \cup InFlight : file' = f /\ survivors' = {f}
      BY <2>13 DEF PowerLoss
    <3>2. f \in Files BY <3>1, OnItsWayFits
    <3>3. exposed' \in BOOLEAN BY <2>13 DEF PowerLoss
    <3>4. faults' \in 0 .. MaxFaults BY <2>13 DEF PowerLoss
    <3>5. file' \in Files /\ survivors' \subseteq Files /\ file' \in survivors'
      BY <3>1, <3>2
    <3>6. QED BY <2>13, <3>3, <3>4, <3>5 DEF PowerLoss
  <2>14. CASE UNCHANGED vars BY <2>14 DEF vars
  <2>15. QED
    BY <2>1, <2>2, <2>3, <2>4, <2>5, <2>6, <2>7, <2>8, <2>9, <2>10, <2>11, <2>12, <2>13,
       <2>14 DEF Next, Run
<1>3. QED BY <1>1, <1>2, PTL DEF Spec

-----------------------------------------------------------------------------
(* One row each.                                                           *)

LEMMA LinesAreNotIds == Corrupt \notin Ids /\ Blank \notin Ids /\ Corrupt # Blank
BY StateFileAssumption

(* Writing the row of one who has none keeps the rows unique.              *)
LEMMA UniqueExtended ==
  ASSUME NEW f \in Files, NEW l \in Lines, NEW open \in BOOLEAN,
         Unique(f), l \notin IdsOf(f)
  PROVE  LET g == Extend(f, l, open) IN Unique(g) /\ IdsOf(g) \subseteq IdsOf(f) \cup {l}
<1> DEFINE g == Extend(f, l, open)
<1>1. g \in Files BY Extended
<1>2. /\ DOMAIN f.lines = 1 .. Len(f.lines) /\ Len(f.lines) \in Nat
      /\ DOMAIN g.lines = 1 .. Len(g.lines) /\ Len(g.lines) \in Nat
  BY <1>1, Numbered
<1>3. \A i \in DOMAIN g.lines :
        \/ i \in DOMAIN f.lines /\ g.lines[i] = f.lines[i]
        \/ g.lines[i] = Corrupt
        \/ ~f.open /\ i = Len(f.lines) + 1 /\ g.lines[i] = l
  <2>1. CASE f.open BY <1>2, <2>1, Extended
  <2>2. CASE ~f.open BY <1>2, <2>2, Extended
  <2>3. QED BY <2>1, <2>2
<1> HIDE DEF g
<1>4. \A i \in DOMAIN g.lines : g.lines[i] \in Ids =>
        \/ i \in DOMAIN f.lines /\ g.lines[i] = f.lines[i] /\ g.lines[i] \in IdsOf(f)
        \/ i = Len(f.lines) + 1 /\ g.lines[i] = l
  BY <1>3, LinesAreNotIds DEF IdsOf, ToSet
<1>5. Unique(g) BY <1>4 DEF Unique
<1>6. IdsOf(g) \subseteq IdsOf(f) \cup {l} BY <1>4 DEF IdsOf, ToSet
<1>7. QED BY <1>5, <1>6 DEF g

(* A file with the lines of another, or fewer of them, or others that are  *)
(* no rows instead, has no row the other has not.                          *)
LEMMA UniqueKept ==
  ASSUME NEW f \in Files, NEW g \in Files, Unique(f), Len(g.lines) <= Len(f.lines),
         \A i \in DOMAIN g.lines : g.lines[i] \in Ids => g.lines[i] = f.lines[i]
  PROVE  Unique(g)
BY Numbered DEF Unique

(* Kills, power cuts, repairs and rollbacks do not make a resumed run      *)
(* append a second row of a pensioner (completed_ids, L5).                 *)
THEOREM RowsAreUnique == Spec => []OneRowEach
<1>1. Init => OneRowInv
  <2>1. Unique(Empty) BY EmptySeq DEF Unique, Empty
  <2>2. QED BY <2>1 DEF Init, OneRowInv
<1>2. TypeOK /\ Wanted /\ OneRowInv /\ [Next]_vars => OneRowInv'
  <2> SUFFICES ASSUME TypeOK, Wanted, OneRowInv, [Next]_vars, reprocesses' = 0
               PROVE  /\ (\A f \in survivors \cup snap : Unique(f))'
                      /\ (pc = "loop" => \A i \in todo : Input[i] \notin IdsOf(file))'
                      /\ (pc = "flush" => \A i \in todo \ {First} : Input[i] \notin IdsOf(file))'
    BY DEF OneRowInv
  <2> DEFINE Goal == /\ (\A f \in survivors \cup snap : Unique(f))'
                     /\ (pc = "loop" => \A i \in todo : Input[i] \notin IdsOf(file))'
                     /\ (pc = "flush" => \A i \in todo \ {First} : Input[i] \notin IdsOf(file))'
  <2>0. reprocesses = 0
    <3>1. reprocesses' = reprocesses \/ reprocesses' = reprocesses + 1
      BY DEF Next, Run, Resume, Reprocess, WriteRow, SyncRow, SkipDeferred, EndLoop, Enrich,
             AddPages, PostProcessOnly, Checkpoint, Rollback, Kill, PowerLoss, vars, counts
    <3>2. reprocesses \in 0 .. MaxReprocess /\ MaxReprocess \in Nat
      BY StateFileAssumption DEF TypeOK
    <3>3. QED BY <3>1, <3>2
  <2>u. /\ \A f \in survivors \cup snap : Unique(f)
        /\ pc = "loop" => \A i \in todo : Input[i] \notin IdsOf(file)
        /\ pc = "flush" => \A i \in todo \ {First} : Input[i] \notin IdsOf(file)
    BY <2>0 DEF OneRowInv
  <2>t. /\ file \in Files /\ survivors \subseteq Files /\ snap \subseteq Files
        /\ file \in survivors /\ Unique(file)
    BY <2>u DEF TypeOK
  <2>f. \A f \in {file} \cup InFlight : Unique(f)
    <3> SUFFICES ASSUME NEW f \in {file} \cup InFlight, f # file PROVE Unique(f) BY <2>t
    <3>1. /\ pc = "loop" /\ todo # {} /\ Input[First] \in Ids
          /\ \E l \in {Corrupt, Input[First]} : f = Extend(file, l, TRUE)
      BY OnItsWay
    <3>2. Corrupt \notin IdsOf(file) /\ Input[First] \notin IdsOf(file)
      BY <3>1, <2>u, FirstWaits, LinesAreNotIds DEF TypeOK, IdsOf
    <3>3. PICK l \in {Corrupt, Input[First]} : f = Extend(file, l, TRUE) BY <3>1
    <3>4. l \in Lines /\ l \notin IdsOf(file) BY <3>1, <3>2 DEF Lines
    <3>5. QED BY <3>3, <3>4, <2>t, UniqueExtended
  <2>1. ASSUME Resume PROVE Goal
    BY <2>1, <2>u DEF Resume, disk, Completed
  <2>2. ASSUME Reprocess PROVE Goal BY <2>2, <2>0 DEF Reprocess
  <2>3. ASSUME WriteRow PROVE Goal
    <3>1. /\ First \in todo /\ Input[First] \in Ids /\ Input[First] \in Lines
          /\ Corrupt \in Lines
      BY <2>3, FirstWaits DEF WriteRow, TypeOK, Lines
    <3>2. Corrupt \notin IdsOf(file) /\ Input[First] \notin IdsOf(file)
      BY <2>3, <3>1, <2>u, LinesAreNotIds DEF WriteRow, IdsOf
    <3>3. /\ \A l \in {Corrupt, Input[First]}, open \in BOOLEAN : Unique(Extend(file, l, open))
          /\ IdsOf(Extend(file, Input[First], FALSE)) \subseteq IdsOf(file) \cup {Input[First]}
      BY <3>1, <3>2, <2>t, UniqueExtended
    <3>4. \A f \in survivors' : Unique(f)
      BY <2>3, <3>3, <2>u DEF WriteRow, Torn
    <3>5. \A i \in todo \ {First} : Input[i] \notin IdsOf(file)'
      <4>1. \A i \in todo \ {First} : Input[i] # Input[First]
        BY <3>1, StateFileAssumption DEF TypeOK
      <4>2. QED BY <2>3, <3>3, <4>1, <2>u DEF WriteRow
    <3>6. QED BY <2>3, <3>4, <3>5, <2>u DEF WriteRow, First
  <2>4. ASSUME SyncRow PROVE Goal
    BY <2>4, <2>u, <2>t DEF SyncRow
  <2>5. ASSUME SkipDeferred PROVE Goal
    BY <2>5, <2>u DEF SkipDeferred, disk
  <2>6. ASSUME EndLoop PROVE Goal BY <2>6, <2>u DEF EndLoop, disk
  <2>7. ASSUME Enrich PROVE Goal
    <3>1. Unique([file EXCEPT !.open = FALSE]) BY <2>t DEF Unique, Files
    <3>2. QED BY <2>7, <2>u, <3>1 DEF Enrich
  <2>8. ASSUME AddPages PROVE Goal
    <3>1. PagesFile(file) \in Files /\ Unique(PagesFile(file))
      BY <2>t, PagesKept, UniqueKept, LinesAreNotIds
    <3>2. \A g \in Cut(PagesFile(file)) : Unique(g)
      BY <3>1, CutFile, UniqueKept, LinesAreNotIds
    <3>3. QED BY <2>8, <2>u, <3>2 DEF AddPages, disk
  <2>9. ASSUME PostProcessOnly PROVE Goal BY <2>9, <2>u DEF PostProcessOnly, disk
  <2>10. ASSUME Checkpoint PROVE Goal
    <3>1. \E f \in {file} \cup InFlight : snap' = {f}
      BY <2>10 DEF Checkpoint, InFlight
    <3>2. QED BY <2>10, <3>1, <2>u, <2>f DEF Checkpoint, disk, First
  <2>11. ASSUME Rollback PROVE Goal BY <2>11, <2>u DEF Rollback
  <2>12. ASSUME Kill PROVE Goal BY <2>12, <2>u, <2>f DEF Kill
  <2>13. ASSUME PowerLoss PROVE Goal
    BY <2>13, <2>u, <2>f DEF PowerLoss
  <2>14. CASE UNCHANGED vars BY <2>14, <2>u DEF vars, disk, First
  <2>15. QED
    BY <2>1, <2>2, <2>3, <2>4, <2>5, <2>6, <2>7, <2>8, <2>9, <2>10, <2>11, <2>12, <2>13,
       <2>14 DEF Next, Run
<1>3. TypeOK /\ OneRowInv => OneRowEach BY DEF TypeOK, OneRowInv, OneRowEach, Unique
<1>4. QED BY <1>1, <1>2, <1>3, StateFileTypes, PTL DEF Spec

-----------------------------------------------------------------------------
(* What faults and rollbacks cost.                                         *)

(* A subset is no larger.                                                  *)
LEMMA FewerOf ==
  ASSUME NEW S, NEW T \in SUBSET S, IsFiniteSet(S)
  PROVE  /\ IsFiniteSet(T) /\ Cardinality(T) \in Nat /\ Cardinality(S) \in Nat
         /\ Cardinality(T) <= Cardinality(S)
BY FS_Subset, FS_CardinalityType

(* One element more makes a set larger by one at most.                     *)
LEMMA OneMore ==
  ASSUME NEW S, NEW x, NEW T \in SUBSET (S \cup {x}), IsFiniteSet(S)
  PROVE  /\ IsFiniteSet(T) /\ Cardinality(T) \in Nat /\ Cardinality(S) \in Nat
         /\ Cardinality(T) <= Cardinality(S) + 1
<1>1. /\ IsFiniteSet(S \cup {x}) /\ Cardinality(S \cup {x}) <= Cardinality(S) + 1
      /\ Cardinality(S) \in Nat /\ Cardinality(S \cup {x}) \in Nat
  BY FS_AddElement, FS_CardinalityType
<1>2. QED BY <1>1, FewerOf

(* There are as many pensioners as places in the input.                    *)
LEMMA IdsAreFinite == IsFiniteSet(Ids)
<1>1. IsFiniteSet(1 .. Len(Input)) /\ DOMAIN Input = 1 .. Len(Input)
  BY StateFileAssumption, LenProperties, FS_Interval
<1>2. Input \in Surjection(1 .. Len(Input), Ids)
  BY <1>1, StateFileAssumption DEF Surjection, Ids, ToSet
<1>3. QED BY <1>1, <1>2, FS_Surjection

LEMMA MarksAreFinite ==
  ASSUME NEW f \in Files
  PROVE  IsFiniteSet(Marks(f)) /\ Cardinality(Marks(f)) \in Nat
<1>1. Marks(f) \in SUBSET (1 .. Len(f.lines)) /\ Len(f.lines) \in Nat
  BY Numbered DEF Marks
<1>2. IsFiniteSet(1 .. Len(f.lines)) BY <1>1, FS_Interval
<1>3. QED BY <1>1, <1>2, FewerOf

(* A whole line marks no new line, any other at most the last.             *)
LEMMA MarksExtended ==
  ASSUME NEW f \in Files, NEW l \in Lines, NEW open \in BOOLEAN
  PROVE  LET g == Extend(f, l, open) IN
           /\ Marks(g) \subseteq Marks(f) \cup {Len(f.lines) + 1}
           /\ ~open /\ l # Corrupt => Marks(g) \subseteq Marks(f)
<1> DEFINE g == Extend(f, l, open)
<1>1. g \in Files BY Extended
<1>2. /\ DOMAIN f.lines = 1 .. Len(f.lines) /\ Len(f.lines) \in Nat
      /\ DOMAIN g.lines = 1 .. Len(g.lines) /\ Len(g.lines) \in Nat
  BY <1>1, Numbered
<1>3. CASE f.open
  <2>1. /\ Len(f.lines) \in 1 .. Len(f.lines) /\ Len(g.lines) = Len(f.lines)
        /\ \A i \in 1 .. Len(f.lines) - 1 : g.lines[i] = f.lines[i]
    BY <1>2, <1>3, Extended
  <2> HIDE DEF g
  <2>2. Marks(g) \subseteq Marks(f) BY <1>2, <1>3, <2>1 DEF Marks
  <2>3. QED BY <2>2 DEF g
<1>4. CASE ~f.open
  <2>1. /\ Len(g.lines) = Len(f.lines) + 1 /\ g.lines[Len(f.lines) + 1] = l /\ g.open = open
        /\ \A i \in 1 .. Len(f.lines) : g.lines[i] = f.lines[i]
    BY <1>2, <1>4, Extended
  <2> HIDE DEF g
  <2>2. Marks(g) \subseteq Marks(f) \cup {Len(f.lines) + 1}
    BY <1>2, <1>4, <2>1 DEF Marks
  <2>3. ~open /\ l # Corrupt => Marks(g) \subseteq Marks(f)
    BY <1>2, <1>4, <2>1 DEF Marks
  <2>4. QED BY <2>2, <2>3 DEF g
<1>5. QED BY <1>2, <1>3, <1>4, Numbered

(* The rows of a file that end with a newline.                             *)
LEMMA TerminatedRows ==
  ASSUME NEW f \in Files
  PROVE  /\ Terminated(f) =
              {l \in Ids : \E i \in DOMAIN f.lines :
                             f.lines[i] = l /\ (f.open => i # Len(f.lines))}
         /\ Terminated(f) \subseteq IdsOf(f)
<1>1. /\ DOMAIN f.lines = 1 .. Len(f.lines) /\ Len(f.lines) \in Nat
      /\ f.open \in BOOLEAN /\ (f.open => Len(f.lines) > 0)
      /\ \A i \in DOMAIN f.lines : f.lines[i] \in Lines
  BY Numbered
<1>2. CASE f.open
  <2>1. /\ DOMAIN Front(f.lines) = 1 .. Len(f.lines) - 1
        /\ \A i \in 1 .. Len(f.lines) - 1 : Front(f.lines)[i] = f.lines[i]
    <3>1. \A i \in 1 .. Len(f.lines) - 1 : f.lines[i] \in Lines BY <1>1
    <3>2. /\ Front(f.lines) \in Seq(Lines) /\ Len(Front(f.lines)) = Len(f.lines) - 1
          /\ \A i \in 1 .. Len(f.lines) - 1 : Front(f.lines)[i] = f.lines[i]
      BY <1>1, <1>2, <3>1, SubSeqProperties DEF Front
    <3>3. QED BY <3>2, LenProperties
  <2>2. Terminated(f) = ToSet(Front(f.lines)) \cap Ids BY <1>2 DEF Terminated
  <2>3. ToSet(Front(f.lines)) = {f.lines[i] : i \in 1 .. Len(f.lines) - 1}
    BY <2>1 DEF ToSet
  <2>4. \A i \in DOMAIN f.lines : i # Len(f.lines) <=> i \in 1 .. Len(f.lines) - 1
    BY <1>1, <1>2
  <2>5. 1 .. Len(f.lines) - 1 \subseteq DOMAIN f.lines BY <1>1, <1>2
  <2>6. QED BY <1>2, <2>2, <2>3, <2>4, <2>5 DEF IdsOf, ToSet
<1>3. CASE ~f.open BY <1>3 DEF Terminated, IdsOf, ToSet
<1>4. QED BY <1>1, <1>2, <1>3

(* A line that is written spoils no terminated row, and is one itself if   *)
(* it has its newline and was not glued to another.                        *)
LEMMA TerminatedExtended ==
  ASSUME NEW f \in Files, NEW l \in Lines, NEW open \in BOOLEAN
  PROVE  LET g == Extend(f, l, open) IN
           /\ Terminated(f) \subseteq Terminated(g)
           /\ ~f.open /\ ~open /\ l \in Ids => l \in Terminated(g)
<1> DEFINE g == Extend(f, l, open)
<1>1. g \in Files /\ g.open = open BY Extended
<1>2. /\ DOMAIN f.lines = 1 .. Len(f.lines) /\ Len(f.lines) \in Nat
      /\ DOMAIN g.lines = 1 .. Len(g.lines) /\ Len(g.lines) \in Nat
  BY <1>1, Numbered
<1>3. CASE f.open
  <2>1. /\ Len(f.lines) \in 1 .. Len(f.lines) /\ Len(g.lines) = Len(f.lines)
        /\ \A i \in 1 .. Len(f.lines) - 1 : g.lines[i] = f.lines[i]
    BY <1>2, <1>3, Extended
  <2> HIDE DEF g
  <2>2. Terminated(f) \subseteq Terminated(g) BY <1>1, <1>2, <1>3, <2>1, TerminatedRows
  <2>3. QED BY <1>3, <2>2 DEF g
<1>4. CASE ~f.open
  <2>1. /\ Len(g.lines) = Len(f.lines) + 1 /\ g.lines[Len(f.lines) + 1] = l
        /\ \A i \in 1 .. Len(f.lines) : g.lines[i] = f.lines[i]
    BY <1>2, <1>4, Extended
  <2> HIDE DEF g
  <2>2. Terminated(f) \subseteq Terminated(g)
    BY <1>1, <1>2, <1>4, <2>1, TerminatedRows
  <2>3. ~open /\ l \in Ids => l \in Terminated(g)
    BY <1>1, <1>2, <1>4, <2>1, TerminatedRows
  <2>4. QED BY <2>2, <2>3 DEF g
<1>5. QED BY <1>1, <1>3, <1>4, Numbered

LEMMA MissingIsNat ==
  ASSUME NEW ids \in SUBSET Ids, NEW f
  PROVE  /\ IsFiniteSet(ids \ Terminated(f)) /\ Cardinality(ids \ Terminated(f)) \in Nat
         /\ Missing(ids, f) \in Nat
         /\ Cardinality(ids \ Terminated(f)) <= Missing(ids, f)
<1>1. ids \ Terminated(f) \in SUBSET Ids OBVIOUS
<1>2. /\ IsFiniteSet(ids \ Terminated(f)) /\ Cardinality(ids \ Terminated(f)) \in Nat
  BY <1>1, IdsAreFinite, FewerOf
<1>3. QED BY <1>2 DEF Missing

(* Fewer pensioners miss no more in a file with at least these rows.       *)
LEMMA MissingNoMore ==
  ASSUME NEW ids \in SUBSET Ids, NEW some \in SUBSET ids, NEW f, NEW g,
         Terminated(f) \subseteq Terminated(g), g.open => f.open
  PROVE  Missing(some, g) <= Missing(ids, f)
<1>1. some \ Terminated(g) \in SUBSET (ids \ Terminated(f)) OBVIOUS
<1>2. Cardinality(some \ Terminated(g)) <= Cardinality(ids \ Terminated(f))
  BY <1>1, MissingIsNat, FewerOf
<1>3. QED BY <1>2, MissingIsNat DEF Missing

(* A torn row puts at most one row at risk.                                *)
LEMMA MissingTorn ==
  ASSUME NEW ids \in SUBSET Ids, NEW f \in Files, NEW l \in Lines
  PROVE  Missing(ids, Extend(f, l, TRUE)) <= Missing(ids, f) + 1
<1> DEFINE g == Extend(f, l, TRUE)
<1>1. Terminated(f) \subseteq Terminated(g) BY TerminatedExtended
<1> HIDE DEF g
<1>2. ids \ Terminated(g) \in SUBSET (ids \ Terminated(f)) BY <1>1
<1>3. Cardinality(ids \ Terminated(g)) <= Cardinality(ids \ Terminated(f))
  BY <1>2, MissingIsNat, FewerOf
<1>4. Missing(ids, g) <= Missing(ids, f) + 1 BY <1>3, MissingIsNat DEF Missing
<1>5. QED BY <1>4 DEF g

(* A whole row is there, or is what is lost by being glued.                *)
LEMMA MissingWritten ==
  ASSUME NEW ids \in SUBSET Ids, NEW f \in Files, NEW l \in Ids
  PROVE  Missing(ids \cup {l}, Extend(f, l, FALSE)) <= Missing(ids, f)
<1> DEFINE g == Extend(f, l, FALSE)
<1>0. l \in Lines BY DEF Lines
<1>1. /\ Terminated(f) \subseteq Terminated(g) /\ (~f.open => l \in Terminated(g))
      /\ g.open = FALSE
  BY <1>0, TerminatedExtended, Extended
<1> HIDE DEF g
<1>2. CASE f.open
  <2>1. (ids \cup {l}) \ Terminated(g) \in SUBSET ((ids \ Terminated(f)) \cup {l}) BY <1>1
  <2>2. Cardinality((ids \cup {l}) \ Terminated(g)) <= Cardinality(ids \ Terminated(f)) + 1
    BY <2>1, MissingIsNat, OneMore
  <2>3. Cardinality((ids \cup {l}) \ Terminated(g)) \in Nat
    <3>1. (ids \cup {l}) \in SUBSET Ids OBVIOUS
    <3>2. QED BY <3>1, MissingIsNat
  <2>4. Missing(ids \cup {l}, g) <= Missing(ids, f)
    BY <1>1, <1>2, <2>2, <2>3, MissingIsNat DEF Missing
  <2>5. QED BY <2>4 DEF g
<1>3. CASE ~f.open
  <2>1. (ids \cup {l}) \ Terminated(g) \in SUBSET (ids \ Terminated(f)) BY <1>1, <1>3
  <2>2. Cardinality((ids \cup {l}) \ Terminated(g)) <= Cardinality(ids \ Terminated(f))
    BY <2>1, MissingIsNat, FewerOf
  <2>3. Cardinality((ids \cup {l}) \ Terminated(g)) \in Nat
    <3>1. (ids \cup {l}) \in SUBSET Ids OBVIOUS
    <3>2. QED BY <3>1, MissingIsNat
  <2>4. Missing(ids \cup {l}, g) <= Missing(ids, f)
    BY <1>1, <1>3, <2>2, <2>3, MissingIsNat DEF Missing
  <2>5. QED BY <2>4 DEF g
<1>4. QED BY <1>2, <1>3, Numbered

(* A file whose last line was given its newline, or that was rewritten     *)
(* with its pages, has every terminated row it had.                        *)
LEMMA TerminatedRewritten ==
  ASSUME NEW f \in Files, NEW g \in Files, ~g.open, Len(g.lines) = Len(f.lines),
         \A i \in DOMAIN g.lines : f.lines[i] \in Ids => g.lines[i] = f.lines[i]
  PROVE  Terminated(f) \subseteq Terminated(g)
BY Numbered, TerminatedRows

(* Each fault and each rollback makes at most one line unreadable.         *)
LEMMA DamageStep ==
  ASSUME TypeOK, Wanted, DamageInv, [Next]_vars
  PROVE  DamageInv'
<1> DEFINE spent == faults + rollbacks
           Has(f, n) == Cardinality(Marks(f)) <= n
           Goal == /\ Has(file', spent')
                   /\ \A f \in survivors' \cup snap' : Has(f, spent' + 1)
<1>t. /\ file \in Files /\ survivors \subseteq Files /\ snap \subseteq Files
      /\ spent \in Nat
  <2>1. faults \in Nat /\ rollbacks \in Nat BY StateFileAssumption DEF TypeOK
  <2>2. QED BY <2>1 DEF TypeOK
<1>d. Has(file, spent) /\ \A f \in survivors \cup snap : Has(f, spent + 1)
  BY DEF DamageInv
<1>n. \A f \in Files : Cardinality(Marks(f)) \in Nat BY MarksAreFinite
<1>m. \A f \in {file} \cup survivors \cup snap : Has(f, spent + 1)
  BY <1>t, <1>d, <1>n
<1>x. \A l \in Lines, open \in BOOLEAN : Has(Extend(file, l, open), spent + 1)
  <2> TAKE l \in Lines, open \in BOOLEAN
  <2>1. Marks(Extend(file, l, open)) \in SUBSET (Marks(file) \cup {Len(file.lines) + 1})
    BY <1>t, MarksExtended
  <2>2. Cardinality(Marks(Extend(file, l, open))) <= Cardinality(Marks(file)) + 1
    BY <2>1, <1>t, OneMore, MarksAreFinite
  <2>3. Extend(file, l, open) \in Files BY <1>t, Extended
  <2>4. QED BY <2>2, <2>3, <1>t, <1>d, <1>n
<1>f. \A f \in {file} \cup InFlight : f \in Files /\ Has(f, spent + 1)
  <2> TAKE f \in {file} \cup InFlight
  <2>1. CASE f = file BY <2>1, <1>t, <1>m
  <2>2. CASE f # file
    <3>1. PICK l \in Lines : f = Extend(file, l, TRUE) BY <2>2, OnItsWay DEF Lines
    <3>2. QED BY <3>1, <1>x, OnItsWayFits
  <2>3. QED BY <2>1, <2>2
<1>g. SUFFICES Goal BY DEF DamageInv
<1> HIDE DEF Has
<1>1. ASSUME UNCHANGED <<disk, snap, faults, rollbacks>> PROVE Goal
  BY <1>1, <1>d DEF disk
<1>2. CASE Resume \/ Reprocess \/ SkipDeferred \/ EndLoop \/ PostProcessOnly
  BY <1>1, <1>2 DEF Resume, Reprocess, SkipDeferred, EndLoop, PostProcessOnly, counts
<1>3. CASE WriteRow
  <2>1. /\ Input[First] \in Lines /\ Input[First] # Corrupt /\ Corrupt \in Lines
    BY <1>3, FirstWaits, LinesAreNotIds DEF WriteRow, TypeOK, Lines
  <2>2. Has(file', spent)
    <3>1. Marks(file') \in SUBSET Marks(file)
      BY <1>3, <1>t, <2>1, MarksExtended DEF WriteRow
    <3>2. QED BY <3>1, <1>t, <1>d, FewerOf, MarksAreFinite DEF Has
  <2>3. \A f \in survivors' \cup snap' : Has(f, spent + 1)
    BY <1>3, <1>m, <1>x, <2>1 DEF WriteRow, Torn
  <2>4. QED BY <1>3, <2>2, <2>3 DEF WriteRow, counts
<1>4. CASE SyncRow
  BY <1>4, <1>d, <1>m DEF SyncRow, counts
<1>5. CASE Enrich
  <2>1. CASE UNCHANGED <<file, survivors>> BY <1>5, <2>1, <1>d DEF Enrich, counts
  <2>2. CASE ~IsCorrupt(file) /\ file' = [file EXCEPT !.open = FALSE]
                              /\ survivors' = survivors \cup {file'}
    <3>1. Marks(file') = {} BY <2>2, <1>t DEF Marks, IsCorrupt, ToSet, Files
    <3>2. Has(file', spent) /\ Has(file', spent + 1)
      BY <3>1, <1>t, FS_EmptySet DEF Has
    <3>3. QED BY <1>5, <2>2, <3>2, <1>d DEF Enrich, counts
  <2>3. QED BY <1>5, <2>1, <2>2 DEF Enrich
<1>6. CASE AddPages
  <2>1. CASE UNCHANGED disk BY <1>6, <2>1, <1>1 DEF AddPages, counts
  <2>2. CASE file' = PagesFile(file) /\ survivors' = survivors \cup Cut(PagesFile(file))
    <3>1. PagesFile(file) \in Files /\ Marks(PagesFile(file)) = {}
      BY <1>t, PagesKept, LinesAreNotIds DEF Marks
    <3>2. Has(file', spent) BY <2>2, <3>1, <1>t, FS_EmptySet DEF Has
    <3>3. \A g \in Cut(PagesFile(file)) : Has(g, spent + 1)
      <4> TAKE g \in Cut(PagesFile(file))
      <4>1. \A i \in DOMAIN PagesFile(file).lines : PagesFile(file).lines[i] # Corrupt
        BY <1>t, PagesKept, LinesAreNotIds
      <4>2. \A i \in DOMAIN g.lines : i \in DOMAIN PagesFile(file).lines
        <5>1. Len(g.lines) <= Len(PagesFile(file).lines) /\ g \in Files BY <3>1, CutFile
        <5>2. QED BY <3>1, <5>1, Numbered
      <4>3. Marks(g) \in SUBSET ({} \cup {Len(g.lines)})
        BY <3>1, <4>1, <4>2, CutFile DEF Marks
      <4>4. Cardinality(Marks(g)) \in Nat /\ Cardinality(Marks(g)) <= 0 + 1
        BY <4>3, OneMore, FS_EmptySet
      <4>5. QED BY <4>4, <1>t DEF Has
    <3>4. QED BY <1>6, <2>2, <3>2, <3>3, <1>d DEF AddPages, counts
  <2>3. QED BY <1>6, <2>1, <2>2 DEF AddPages
<1>7. CASE Checkpoint
  <2>1. \E f \in {file} \cup InFlight : snap' = {f}
    BY <1>7 DEF Checkpoint, InFlight
  <2>2. QED BY <1>7, <2>1, <1>d, <1>f DEF Checkpoint, disk, counts
<1>8. CASE Rollback
  <2>1. spent' = spent + 1 BY <1>8, StateFileAssumption DEF Rollback, TypeOK
  <2>2. \A f \in survivors \cup snap : Has(f, spent' + 1)
    BY <1>t, <1>d, <1>n, <2>1 DEF Has
  <2>3. QED BY <1>8, <2>1, <2>2, <1>d DEF Rollback
<1>9. CASE Kill
  <2>1. spent' = spent + 1 BY <1>9, StateFileAssumption DEF Kill, TypeOK
  <2>2. \A f \in survivors \cup snap \cup {file} \cup InFlight : Has(f, spent' + 1)
    BY <1>t, <1>d, <1>n, <1>f, <2>1 DEF Has
  <2>3. QED BY <1>9, <2>1, <2>2, <1>f DEF Kill
<1>10. CASE PowerLoss
  <2>1. spent' = spent + 1 BY <1>10, StateFileAssumption DEF PowerLoss, TypeOK
  <2>2. \A f \in survivors \cup snap \cup {file} \cup InFlight : Has(f, spent' + 1)
    BY <1>t, <1>d, <1>n, <1>f, <2>1 DEF Has
  <2>3. QED BY <1>10, <2>1, <2>2, <1>d, <1>f DEF PowerLoss
<1>11. CASE UNCHANGED vars BY <1>11, <1>1 DEF vars, counts
<1>12. QED
  BY <1>2, <1>3, <1>4, <1>5, <1>6, <1>7, <1>8, <1>9, <1>10, <1>11 DEF Next, Run

(* As long as no power was lost over an unsynced rewrite, each fault and   *)
(* each rollback costs at most one acknowledged row.                       *)
LEMMA LossStep ==
  ASSUME TypeOK, Wanted, LossInv, [Next]_vars
  PROVE  LossInv'
<1> DEFINE spent == faults + rollbacks
           Fits == ~unsynced => \A f \in survivors : Missing(acked, f) <= spent + 1
           Goal == /\ Missing(InHand', file') <= spent'
                   /\ ~unsynced' => \A f \in survivors' : Missing(acked', f) <= spent' + 1
<1>1. SUFFICES ASSUME ~exposed' PROVE Goal BY DEF LossInv, Missing, Terminated, IdsOf
<1>2. ~exposed
  BY <1>1 DEF Next, Run, Resume, Reprocess, WriteRow, SyncRow, SkipDeferred, EndLoop, Enrich,
         AddPages, PostProcessOnly, Checkpoint, Rollback, Kill, PowerLoss, vars, TypeOK
<1>t. /\ file \in Files /\ survivors \subseteq Files /\ snap \subseteq Files
      /\ acked \in SUBSET Ids /\ InHand \in SUBSET Ids /\ acked \subseteq InHand
      /\ spent \in Nat
  <2>1. faults \in Nat /\ rollbacks \in Nat BY StateFileAssumption DEF TypeOK
  <2>2. pc = "flush" => Input[First] \in Ids BY FirstWaits DEF TypeOK, Wanted
  <2>3. QED BY <2>1, <2>2 DEF TypeOK, InHand
<1>d. Missing(InHand, file) <= spent /\ Fits BY <1>2 DEF LossInv
<1>n. \A ids \in SUBSET Ids, f \in Files : Missing(ids, f) \in Nat BY MissingIsNat
<1>m. Missing(acked, file) <= spent
  BY <1>t, <1>d, <1>n, MissingNoMore
<1>x. \A l \in Lines : Missing(acked, Extend(file, l, TRUE)) <= spent + 1
  <2> TAKE l \in Lines
  <2> DEFINE m == Missing(acked, Extend(file, l, TRUE))
  <2>1. m <= Missing(acked, file) + 1 BY <1>t, MissingTorn
  <2>2. m \in Nat /\ Missing(acked, file) \in Nat BY <1>t, MissingIsNat
  <2> HIDE DEF m
  <2>3. m <= spent + 1 BY <2>1, <2>2, <1>t, <1>m
  <2>4. QED BY <2>3 DEF m
<1>f. \A f \in {file} \cup InFlight : f \in Files /\ Missing(acked, f) <= spent + 1
  <2> TAKE f \in {file} \cup InFlight
  <2>1. CASE f = file BY <2>1, <1>t, <1>m, <1>n
  <2>2. CASE f # file
    <3>1. PICK l \in Lines : f = Extend(file, l, TRUE) BY <2>2, OnItsWay DEF Lines
    <3>2. QED BY <3>1, <1>x, OnItsWayFits
  <2>3. QED BY <2>1, <2>2
<1>h. pc # "flush" => InHand = acked BY DEF InHand
<1>i. pc' # "flush" => InHand' = acked' BY DEF InHand
<1>3. ASSUME UNCHANGED <<disk, acked, faults, rollbacks>>, InHand' = InHand PROVE Goal
  BY <1>3, <1>d DEF disk
<1>4. CASE Resume \/ Reprocess \/ SkipDeferred \/ EndLoop \/ PostProcessOnly
  <2>1. pc # "flush" /\ pc' # "flush" /\ UNCHANGED <<disk, acked, faults, rollbacks>>
    BY <1>4 DEF Resume, Reprocess, SkipDeferred, EndLoop, PostProcessOnly, counts
  <2>2. QED BY <2>1, <1>3, <1>h, <1>i
<1>5. CASE WriteRow
  <2>1. /\ Input[First] \in Ids /\ Input[First] \in Lines /\ Corrupt \in Lines
    BY <1>5, FirstWaits DEF WriteRow, TypeOK, Lines
  <2>2. InHand = acked /\ InHand' = acked \cup {Input[First]}
    BY <1>5 DEF WriteRow, InHand, First
  <2>3. Missing(InHand', file') <= spent
    <3>1. Missing(acked \cup {Input[First]}, Extend(file, Input[First], FALSE))
            <= Missing(acked, file)
      BY <2>1, <1>t, MissingWritten
    <3>2. InHand' \in SUBSET Ids BY <2>1, <2>2, <1>t
    <3>3. Missing(InHand', file') \in Nat /\ Missing(acked, file) \in Nat
      BY <3>2, <1>t, MissingIsNat
    <3>4. Missing(InHand', file') <= Missing(acked, file)
      BY <1>5, <2>2, <3>1 DEF WriteRow
    <3>5. QED BY <3>3, <3>4, <1>t, <1>m
  <2>4. Missing(acked, file') <= spent + 1
    <3>1. file' \in Files BY <1>5, <2>1, <1>t, Extended DEF WriteRow
    <3>2. Missing(acked, file') <= Missing(InHand', file')
      BY <2>1, <2>2, <1>t, MissingNoMore
    <3>3. InHand' \in SUBSET Ids BY <2>1, <2>2, <1>t
    <3>4. QED BY <3>1, <3>2, <3>3, <2>3, <1>t, <1>n
  <2>5. ~unsynced' => \A f \in survivors' : Missing(acked', f) <= spent + 1
    BY <1>5, <1>d, <1>x, <2>1, <2>4 DEF WriteRow, Torn
  <2>6. QED BY <1>5, <2>3, <2>5 DEF WriteRow, counts
<1>6. CASE SyncRow
  <2>1. InHand' = InHand /\ acked' = InHand BY <1>6 DEF SyncRow, InHand
  <2>2. Missing(InHand, file) <= spent + 1 BY <1>t, <1>d, <1>n
  <2>3. QED BY <1>6, <1>d, <2>1, <2>2 DEF SyncRow, counts
<1>7. CASE Enrich
  <2>1. InHand = acked /\ InHand' = acked BY <1>7, <1>h, <1>i DEF Enrich
  <2>2. CASE UNCHANGED <<file, survivors>>
    BY <1>7, <2>1, <2>2, <1>3 DEF Enrich, disk, counts
  <2>3. CASE file' = [file EXCEPT !.open = FALSE] /\ survivors' = survivors \cup {file'}
    <3>1. file' \in Files /\ ~file'.open /\ file'.lines = file.lines
      BY <2>3, <1>t DEF Files
    <3>2. Terminated(file) \subseteq Terminated(file')
      BY <3>1, <1>t, TerminatedRewritten
    <3>3. Missing(acked, file') <= Missing(acked, file)
      BY <3>1, <3>2, <1>t, MissingNoMore
    <3>4. Missing(acked, file') <= spent /\ Missing(acked, file') <= spent + 1
      BY <3>1, <3>3, <1>t, <1>m, <1>n
    <3>5. QED BY <1>7, <2>1, <2>3, <3>4, <1>d DEF Enrich, counts
  <2>4. QED BY <1>7, <2>2, <2>3 DEF Enrich
<1>8. CASE AddPages
  <2>1. InHand = acked /\ InHand' = acked BY <1>8, <1>h, <1>i DEF AddPages
  <2>2. CASE UNCHANGED disk
    BY <1>8, <2>1, <2>2, <1>3 DEF AddPages, counts
  <2>3. CASE file' = PagesFile(file) /\ unsynced'
    <3>1. file' \in Files /\ Terminated(file) \subseteq Terminated(file') /\ ~file'.open
      <4>1. /\ PagesFile(file) \in Files /\ ~PagesFile(file).open
            /\ Len(PagesFile(file).lines) = Len(file.lines)
            /\ \A i \in DOMAIN PagesFile(file).lines :
                 file.lines[i] \in Ids => PagesFile(file).lines[i] = file.lines[i]
        BY <1>t, PagesKept, LinesAreNotIds
      <4>2. QED BY <2>3, <4>1, <1>t, TerminatedRewritten
    <3>2. Missing(acked, file') <= Missing(acked, file)
      BY <3>1, <1>t, MissingNoMore
    <3>3. Missing(acked, file') <= spent BY <3>1, <3>2, <1>t, <1>m, <1>n
    <3>4. QED BY <1>8, <2>1, <2>3, <3>3 DEF AddPages, counts
  <2>4. QED BY <1>8, <2>2, <2>3 DEF AddPages
<1>9. CASE Checkpoint
  BY <1>9, <1>3 DEF Checkpoint, InHand, First, counts
<1>10. CASE Rollback
  <2>1. spent' = spent + 1 BY <1>10, StateFileAssumption DEF Rollback, TypeOK
  <2>2. PICK f \in snap : /\ file' = f /\ survivors' = survivors \cup {f}
                          /\ acked' = acked \cap Terminated(f)
    BY <1>10 DEF Rollback
  <2>3. /\ f \in Files /\ acked' \in SUBSET acked /\ acked' \in SUBSET Ids
        /\ unsynced' = unsynced /\ InHand' = acked'
    BY <1>10, <1>t, <1>i, <2>2 DEF Rollback
  <2>4. Missing(acked', f) <= 1
    <3>1. acked' \ Terminated(f) = {} BY <2>2
    <3>2. QED BY <3>1, FS_EmptySet DEF Missing
  <2>5. \A g \in survivors : ~unsynced => Missing(acked', g) <= spent + 1
    <3> TAKE g \in survivors
    <3>1. Missing(acked', g) <= Missing(acked, g) BY <1>t, <2>3, MissingNoMore
    <3>2. QED BY <3>1, <1>t, <1>d, <1>n, <2>3
  <2>6. /\ Missing(acked', f) \in Nat
        /\ \A g \in survivors : Missing(acked', g) \in Nat
    BY <1>t, <1>n, <2>3
  <2>7. Missing(InHand', file') <= spent' BY <2>1, <2>2, <2>3, <2>4, <2>6, <1>t
  <2>8. ~unsynced' => \A g \in survivors' : Missing(acked', g) <= spent' + 1
    BY <2>1, <2>2, <2>3, <2>4, <2>5, <2>6, <1>t
  <2>9. QED BY <2>7, <2>8
<1>11. CASE Kill
  <2>1. spent' = spent + 1 BY <1>11, StateFileAssumption DEF Kill, TypeOK
  <2>2. PICK f \in {file} \cup InFlight : file' = f /\ survivors' = survivors \cup {f}
    BY <1>11 DEF Kill
  <2>3. acked' = acked /\ InHand' = acked /\ unsynced' = unsynced
    BY <1>11, <1>i DEF Kill
  <2>4. f \in Files /\ Missing(acked, f) \in Nat /\ Missing(acked, f) <= spent'
    BY <1>f, <1>t, <1>n, <2>1
  <2>5. ~unsynced => \A g \in survivors : Missing(acked, g) <= spent' + 1
    BY <1>d, <1>t, <1>n, <2>1
  <2>6. ~unsynced' => \A g \in survivors' : Missing(acked', g) <= spent' + 1
    BY <2>1, <2>2, <2>3, <2>4, <2>5, <1>t
  <2>7. QED BY <2>2, <2>3, <2>4, <2>6
<1>12. CASE PowerLoss
  <2>1. spent' = spent + 1 BY <1>12, StateFileAssumption DEF PowerLoss, TypeOK
  <2>2. PICK f \in survivors \cup InFlight : file' = f /\ survivors' = {f}
    BY <1>12 DEF PowerLoss
  <2>3. acked' = acked /\ InHand' = acked /\ ~unsynced
    BY <1>12, <1>1, <1>i DEF PowerLoss
  <2>4. f \in Files /\ Missing(acked, f) \in Nat /\ Missing(acked, f) <= spent'
    BY <1>f, <1>t, <1>n, <1>d, <2>1, <2>3
  <2>5. Missing(acked, f) <= spent' + 1 BY <2>1, <2>4, <1>t
  <2>6. QED BY <2>2, <2>3, <2>4, <2>5
<1>13. CASE UNCHANGED vars
  BY <1>13, <1>3 DEF vars, InHand, First, counts
<1>14. QED
  BY <1>4, <1>5, <1>6, <1>7, <1>8, <1>9, <1>10, <1>11, <1>12, <1>13 DEF Next, Run

(* A fault or a rollback costs at most one line and, unless power was lost *)
(* over the rewrite pensioncard_pages does not sync, one acknowledged row. *)
THEOREM FaultsCost == Spec => []FaultsCostOneEach
<1>1. Init => DamageInv /\ LossInv
  <2> SUFFICES ASSUME Init PROVE DamageInv /\ LossInv OBVIOUS
  <2>1. Marks(Empty) = {} BY EmptySeq DEF Marks, Empty
  <2>2. Missing({}, Empty) = 0
    <3>1. {} \ Terminated(Empty) = {} OBVIOUS
    <3>2. QED BY <3>1, FS_EmptySet DEF Missing, Empty
  <2>3. DamageInv BY <2>1, FS_EmptySet DEF DamageInv, Init
  <2>4. LossInv BY <2>2 DEF LossInv, InHand, Init
  <2>5. QED BY <2>3, <2>4
<1>2. TypeOK /\ Wanted /\ DamageInv /\ LossInv /\ [Next]_vars => DamageInv' /\ LossInv'
  BY DamageStep, LossStep
<1>3. TypeOK /\ Wanted /\ DamageInv /\ LossInv => FaultsCostOneEach
  <2> SUFFICES ASSUME TypeOK, Wanted, DamageInv, LossInv
               PROVE  LossesAreBounded /\ DamageIsBounded
    BY DEF FaultsCostOneEach
  <2>0. /\ file \in Files /\ faults \in Nat /\ rollbacks \in Nat /\ acked \in SUBSET Ids
        /\ pc = "flush" => Input[First] \in Ids
    BY StateFileAssumption, FirstWaits DEF TypeOK, Wanted
  <2>1. DamageIsBounded
    <3>1. {i \in DOMAIN file.lines : file.lines[i] = Corrupt} \in SUBSET Marks(file)
      BY DEF Marks
    <3>2. Cardinality({i \in DOMAIN file.lines : file.lines[i] = Corrupt})
            <= Cardinality(Marks(file))
      BY <2>0, <3>1, FewerOf, MarksAreFinite
    <3>3. /\ Cardinality({i \in DOMAIN file.lines : file.lines[i] = Corrupt}) \in Nat
          /\ Cardinality(Marks(file)) \in Nat
      BY <2>0, <3>1, FewerOf, MarksAreFinite
    <3>4. QED BY <2>0, <3>2, <3>3 DEF DamageInv, DamageIsBounded
  <2>2. LossesAreBounded
    <3>1. SUFFICES ASSUME ~exposed PROVE Cardinality(acked \ IdsOf(file)) <= faults + rollbacks
      BY DEF LossesAreBounded
    <3>2. InHand \in SUBSET Ids /\ acked \subseteq InHand BY <2>0 DEF InHand
    <3>3. acked \ IdsOf(file) \in SUBSET (InHand \ Terminated(file))
      BY <2>0, <3>2, TerminatedRows
    <3>4. /\ IsFiniteSet(InHand \ Terminated(file))
          /\ Cardinality(InHand \ Terminated(file)) \in Nat
          /\ Missing(InHand, file) \in Nat
          /\ Cardinality(InHand \ Terminated(file)) <= Missing(InHand, file)
      BY <3>2, MissingIsNat
    <3>5. /\ Cardinality(acked \ IdsOf(file)) \in Nat
          /\ Cardinality(acked \ IdsOf(file)) <= Cardinality(InHand \ Terminated(file))
      BY <3>3, <3>4, FewerOf
    <3>6. Missing(InHand, file) <= faults + rollbacks BY <3>1 DEF LossInv
    <3>7. QED BY <2>0, <3>4, <3>5, <3>6
  <2>3. QED BY <2>1, <2>2
<1>4. QED BY <1>1, <1>2, <1>3, StateFileTypes, PTL DEF Spec
=============================================================================
