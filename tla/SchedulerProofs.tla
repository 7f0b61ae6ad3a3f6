--------------------------- MODULE SchedulerProofs ---------------------------
(***************************************************************************)
(* Proofs about the work queue, for every value of the constants.          *)
(*                                                                         *)
(* The first part makes no assumption on how many processes share the      *)
(* database file.  The second part is about a single process, which is     *)
(* what the program runs: SoleProcess is a hypothesis of its theorems.     *)
(***************************************************************************)
EXTENDS Scheduler, FiniteSetTheorems, TLAPS

(* One row rewritten to a well-typed row leaves the table well typed.      *)
LEMMA OneRow ==
  ASSUME RowTypeOK, NEW w \in Work, NEW r \in Row, row' = [row EXCEPT ![w] = r]
  PROVE  RowTypeOK'
BY DEF RowTypeOK

(* Every statement of the store keeps the table well typed.                *)
LEMMA StoreTypes ==
  ASSUME RowTypeOK
  PROVE  /\ \A w \in Work : EnqueueWork(w) => RowTypeOK'
         /\ \A k \in Sources : ReclaimStale(k) => RowTypeOK'
         /\ \A w \in Work, p \in Procs, a \in Nat : LeaseRow(w, p, a) => RowTypeOK'
         /\ \A w \in Work : Heartbeat(w) => RowTypeOK'
         /\ \A w \in Work, s \in Finished \cup {"retryable"} :
              CompleteWork(w, s) => RowTypeOK'
         /\ \A w \in Work : DeferRetryable(w) => RowTypeOK'
         /\ \A w \in Work : LeaseLapses(w) \/ BackoffEnds(w) => RowTypeOK'
<1> USE WorkStoreAssumption DEF RowTypeOK
<1>1. \A w \in Work : EnqueueWork(w) => RowTypeOK'
  BY DEF EnqueueWork, Row, Pending
<1>2. \A k \in Sources : ReclaimStale(k) => RowTypeOK'
  <2> SUFFICES ASSUME NEW k \in Sources, ReclaimStale(k)
              PROVE  row' \in [Work -> Row]
    OBVIOUS
  <2>1. \A w \in Work : [row[w] EXCEPT !.state = "ready", !.owner = NoProc] \in Row
    BY DEF Row, Pending
  <2>2. QED BY <2>1 DEF ReclaimStale
<1>3. \A w \in Work, p \in Procs, a \in Nat : LeaseRow(w, p, a) => RowTypeOK'
  <2> SUFFICES ASSUME NEW w \in Work, NEW p \in Procs, NEW a \in Nat, LeaseRow(w, p, a)
              PROVE  RowTypeOK'
    OBVIOUS
  <2> DEFINE r == [row[w] EXCEPT !.state = "leased", !.attempt = a,
                                 !.owner = p, !.lapsed = FALSE]
  <2>1. r \in Row BY DEF Row, Pending
  <2>2. row' = row \/ row' = [row EXCEPT ![w] = r] BY DEF LeaseRow
  <2> HIDE DEF r
  <2>3. QED BY <2>1, <2>2, OneRow
<1>4. \A w \in Work : Heartbeat(w) => RowTypeOK'
  <2> SUFFICES ASSUME NEW w \in Work, Heartbeat(w) PROVE RowTypeOK'
    OBVIOUS
  <2> DEFINE r == [row[w] EXCEPT !.lapsed = FALSE]
  <2>1. r \in Row BY DEF Row
  <2>2. row' = row \/ row' = [row EXCEPT ![w] = r] BY DEF Heartbeat
  <2> HIDE DEF r
  <2>3. QED BY <2>1, <2>2, OneRow
<1>5. \A w \in Work, s \in Finished \cup {"retryable"} : CompleteWork(w, s) => RowTypeOK'
  <2> SUFFICES ASSUME NEW w \in Work, NEW s \in Finished \cup {"retryable"},
                      CompleteWork(w, s)
              PROVE  RowTypeOK'
    OBVIOUS
  <2> DEFINE r == [row[w] EXCEPT !.state = s, !.closed = TRUE]
  <2>1. r \in Row BY DEF Row, Pending, Finished
  <2>2. row' = [row EXCEPT ![w] = r] BY DEF CompleteWork
  <2> HIDE DEF r
  <2>3. QED BY <2>1, <2>2, OneRow
<1>6. \A w \in Work : DeferRetryable(w) => RowTypeOK'
  <2> SUFFICES ASSUME NEW w \in Work, DeferRetryable(w) PROVE RowTypeOK'
    OBVIOUS
  <2> DEFINE r == [row[w] EXCEPT !.state = "ready", !.owner = NoProc,
                                 !.closed = FALSE, !.due = FALSE]
  <2>1. r \in Row BY DEF Row, Pending
  <2>2. row' = row \/ row' = [row EXCEPT ![w] = r] BY DEF DeferRetryable
  <2> HIDE DEF r
  <2>3. QED BY <2>1, <2>2, OneRow
<1>7. \A w \in Work : LeaseLapses(w) \/ BackoffEnds(w) => RowTypeOK'
  <2> SUFFICES ASSUME NEW w \in Work, LeaseLapses(w) \/ BackoffEnds(w)
              PROVE  RowTypeOK'
    OBVIOUS
  <2>1. CASE LeaseLapses(w) BY <2>1 DEF LeaseLapses, Row
  <2>2. CASE BackoffEnds(w) BY <2>2 DEF BackoffEnds, Row
  <2>3. QED BY <2>1, <2>2
<1>8. QED BY <1>1, <1>2, <1>3, <1>4, <1>5, <1>6, <1>7
-----------------------------------------------------------------------------
(* A process past SELECT has a work item in hand.                          *)
JobHeld == \A p \in Procs : pc[p] \in {"commit", "leased", "defer"} => job[p] \in Work

ProcTypes ==
  /\ pc  \in [Procs -> Places]
  /\ pos \in [Procs -> Sources]
  /\ job \in [Procs -> Work \cup {NoJob}]
  /\ att \in [Procs -> Nat]
  /\ JobHeld

HistTypes ==
  /\ raised \in [Work -> Nat]
  /\ lost   \in [Work -> Nat]
  /\ claims \in [Work -> Nat]
  /\ faults \in 0 .. MaxFaults

(* Leaving the current item, either way, keeps the process variables typed. *)
LEMMA LeaveTypes ==
  ASSUME ProcTypes, NEW p \in Procs, DispatchAgain(p) \/ NextSource(p)
  PROVE  ProcTypes'
<1> USE WorkStoreAssumption DEF ProcTypes, JobHeld, Goto, Places, Sources
<1>1. CASE DispatchAgain(p) BY <1>1 DEF DispatchAgain
<1>2. CASE NextSource(p)
  <2>1. CASE pos[p] = NumSources BY <1>2, <2>1 DEF NextSource
  <2>2. CASE pos[p] # NumSources
    <3>1. pos[p] + 1 \in Sources BY <2>2
    <3>2. /\ pc' = [pc EXCEPT ![p] = "reclaim"]
          /\ pos' = [pos EXCEPT ![p] = @ + 1]
          /\ job' = [job EXCEPT ![p] = NoJob]
          /\ att' = [att EXCEPT ![p] = 0]
      BY <1>2, <2>2 DEF NextSource
    <3>3. pos' \in [Procs -> Sources] BY <3>1, <3>2
    <3>4. QED BY <3>2, <3>3
  <2>3. QED BY <2>1, <2>2
<1>3. QED BY <1>1, <1>2

(* The initial state is well typed.                                        *)
LEMMA InitTyped == Init => TypeOK /\ JobHeld
BY WorkStoreAssumption, SchedulerAssumption
   DEF Init, TypeOK, JobHeld, InitStore, AbsentRow, RowTypeOK, Row, Sources, Places

(* Every step keeps the variables typed, and a process past SELECT keeps an *)
(* item in hand.                                                           *)
LEMMA StepTyped == TypeOK /\ JobHeld /\ [Next]_vars => TypeOK' /\ JobHeld'
<1> SUFFICES ASSUME RowTypeOK, ProcTypes, HistTypes, [Next]_vars
             PROVE  RowTypeOK' /\ ProcTypes' /\ HistTypes'
  BY DEF TypeOK, ProcTypes, HistTypes
<1> USE WorkStoreAssumption, SchedulerAssumption
<1>1. ASSUME NEW p \in Procs, NEW w \in Work, Submit(p, w)
      PROVE  RowTypeOK' /\ ProcTypes' /\ HistTypes'
  BY <1>1, StoreTypes DEF Submit, ProcTypes, JobHeld, HistTypes, procVars, histVars
<1>2. ASSUME NEW p \in Procs, StartRun(p)
      PROVE  RowTypeOK' /\ ProcTypes' /\ HistTypes'
  BY <1>2, LeaveTypes DEF StartRun, RowTypeOK, HistTypes, histVars
<1>3. ASSUME NEW p \in Procs, ClaimReclaim(p)
      PROVE  RowTypeOK' /\ ProcTypes' /\ HistTypes'
  <2>1. RowTypeOK' BY <1>3, StoreTypes DEF ClaimReclaim, ProcTypes
  <2>2. ProcTypes' BY <1>3 DEF ClaimReclaim, ProcTypes, JobHeld, Goto, Places
  <2>3. QED BY <1>3, <2>1, <2>2 DEF ClaimReclaim, HistTypes, histVars
<1>4. ASSUME NEW p \in Procs, ClaimSelect(p)
      PROVE  RowTypeOK' /\ ProcTypes' /\ HistTypes'
  <2>1. RowTypeOK' /\ HistTypes' BY <1>4 DEF ClaimSelect, RowTypeOK, HistTypes, histVars
  <2>2. CASE NextSource(p) BY <2>1, <2>2, LeaveTypes
  <2>3. ASSUME NEW w \in Work,
               job' = [job EXCEPT ![p] = w],
               att' = [att EXCEPT ![p] = row[w].attempt],
               Goto(p, "commit"),
               UNCHANGED pos
        PROVE  ProcTypes'
    <3>1. row[w].attempt \in Nat BY DEF RowTypeOK, Row
    <3>2. QED BY <2>3, <3>1 DEF ProcTypes, JobHeld, Goto, Places
  <2>4. QED BY <1>4, <2>1, <2>2, <2>3 DEF ClaimSelect
<1>5. ASSUME NEW p \in Procs, ClaimCommit(p)
      PROVE  RowTypeOK' /\ ProcTypes' /\ HistTypes'
  <2>1. att[p] + 1 \in Nat /\ job[p] \in Work
    BY <1>5 DEF ClaimCommit, ProcTypes, JobHeld
  <2>2. RowTypeOK' BY <1>5, <2>1, StoreTypes DEF ClaimCommit
  <2>3. ProcTypes' BY <1>5, <2>1 DEF ClaimCommit, ProcTypes, JobHeld, Goto, Places
  <2>4. HistTypes' BY <1>5, <2>1 DEF ClaimCommit, HistTypes
  <2>5. QED BY <2>2, <2>3, <2>4
<1>6. ASSUME NEW p \in Procs, ClaimAborts(p)
      PROVE  RowTypeOK' /\ ProcTypes' /\ HistTypes'
  <2>1. ProcTypes' BY <1>6, LeaveTypes DEF ClaimAborts
  <2>2. HistTypes' BY <1>6 DEF ClaimAborts, HistTypes
  <2>3. QED BY <1>6, <2>1, <2>2 DEF ClaimAborts, RowTypeOK
<1>7. ASSUME NEW p \in Procs, Decline(p)
      PROVE  RowTypeOK' /\ ProcTypes' /\ HistTypes'
  <2>1. job[p] \in Work BY <1>7 DEF Decline, ProcTypes, JobHeld
  <2>2. RowTypeOK' BY <1>7, <2>1, StoreTypes DEF Decline, Finished
  <2>3. QED BY <1>7, <2>2, LeaveTypes DEF Decline, HistTypes, histVars
<1>8. ASSUME NEW p \in Procs, InvokeEnqueues(p) \/ HeartbeatTick(p)
      PROVE  RowTypeOK' /\ ProcTypes' /\ HistTypes'
  <2>1. job[p] \in Work
    BY <1>8 DEF InvokeEnqueues, HeartbeatTick, Invoking, ProcTypes, JobHeld
  <2>2. Children[job[p]] \subseteq Work BY <2>1
  <2>3. RowTypeOK' BY <1>8, <2>1, <2>2, StoreTypes DEF InvokeEnqueues, HeartbeatTick
  <2>4. UNCHANGED <<procVars, histVars>> BY <1>8 DEF InvokeEnqueues, HeartbeatTick
  <2>5. QED BY <2>3, <2>4 DEF ProcTypes, JobHeld, HistTypes, procVars, histVars
<1>9. ASSUME NEW p \in Procs, InvokeReturns(p)
      PROVE  RowTypeOK' /\ ProcTypes' /\ HistTypes'
  <2>1. job[p] \in Work BY <1>9 DEF InvokeReturns, Invoking, ProcTypes, JobHeld
  <2>2. RowTypeOK' BY <1>9, <2>1, StoreTypes DEF InvokeReturns, Finished
  <2>3. QED BY <1>9, <2>2, LeaveTypes DEF InvokeReturns, HistTypes, histVars
<1>10. ASSUME NEW p \in Procs, InvokeRaises(p)
       PROVE  RowTypeOK' /\ ProcTypes' /\ HistTypes'
  <2>1. job[p] \in Work BY <1>10 DEF InvokeRaises, Invoking, ProcTypes, JobHeld
  <2>2. RowTypeOK' BY <1>10, <2>1, StoreTypes DEF InvokeRaises, Finished
  <2>3. HistTypes' BY <1>10, <2>1 DEF InvokeRaises, HistTypes
  <2>4. ProcTypes'
    <3>1. CASE DispatchAgain(p) BY <3>1, LeaveTypes
    <3>2. CASE Goto(p, "defer") /\ UNCHANGED <<pos, job, att>>
      BY <2>1, <3>2 DEF ProcTypes, JobHeld, Goto, Places
    <3>3. QED BY <1>10, <3>1, <3>2 DEF InvokeRaises
  <2>5. QED BY <2>2, <2>3, <2>4
<1>11. ASSUME NEW p \in Procs, Defer(p)
       PROVE  RowTypeOK' /\ ProcTypes' /\ HistTypes'
  <2>1. job[p] \in Work BY <1>11 DEF Defer, ProcTypes, JobHeld
  <2>2. RowTypeOK' BY <1>11, <2>1, StoreTypes DEF Defer
  <2>3. QED BY <1>11, <2>2, LeaveTypes DEF Defer, HistTypes, histVars
<1>12. ASSUME NEW p \in Procs, Crash(p)
       PROVE  RowTypeOK' /\ ProcTypes' /\ HistTypes'
  <2>1. lost' \in [Work -> Nat]
    BY <1>12 DEF Crash, HistTypes, ProcTypes, JobHeld
  <2>2. HistTypes' BY <1>12, <2>1 DEF Crash, HistTypes
  <2>3. ProcTypes' BY <1>12 DEF Crash, ProcTypes, JobHeld, Goto, Places, Sources
  <2>4. QED BY <1>12, <2>2, <2>3 DEF Crash, RowTypeOK
<1>13. ASSUME NEW p \in Procs, Restart(p)
       PROVE  RowTypeOK' /\ ProcTypes' /\ HistTypes'
  BY <1>13 DEF Restart, RowTypeOK, ProcTypes, JobHeld, Goto, Places, HistTypes, histVars
<1>14. ASSUME NEW w \in Work, ClockStep(w)
       PROVE  RowTypeOK' /\ ProcTypes' /\ HistTypes'
  BY <1>14, StoreTypes DEF ClockStep, ProcTypes, JobHeld, HistTypes, procVars, histVars
<1>15. CASE UNCHANGED vars
  BY <1>15 DEF vars, procVars, histVars, RowTypeOK, ProcTypes, JobHeld, HistTypes
<1>16. QED
  BY <1>1, <1>2, <1>3, <1>4, <1>5, <1>6, <1>7, <1>8, <1>9, <1>10, <1>11, <1>12,
     <1>13, <1>14, <1>15 DEF Next, RunStep

(* Type correctness, for any number of processes.                          *)
THEOREM TypeCorrect == Spec => []TypeOK
<1>1. Init => TypeOK /\ JobHeld BY InitTyped
<1>2. TypeOK /\ JobHeld /\ [Next]_vars => TypeOK' /\ JobHeld' BY StepTyped
<1>3. QED BY <1>1, <1>2, PTL DEF Spec
-----------------------------------------------------------------------------
(* No row ever gets out of reach of claim_work, for any number of          *)
(* processes racing over the table.                                        *)
LEMMA StoreReach ==
  ASSUME RowTypeOK, NoRowOutOfReach
  PROVE  /\ \A w \in Work : EnqueueWork(w) => NoRowOutOfReach'
         /\ \A k \in Sources : ReclaimStale(k) => NoRowOutOfReach'
         /\ \A w \in Work, p \in Procs, a \in Nat : LeaseRow(w, p, a) => NoRowOutOfReach'
         /\ \A w \in Work : Heartbeat(w) => NoRowOutOfReach'
         /\ \A w \in Work, s \in Finished \cup {"retryable"} :
              CompleteWork(w, s) => NoRowOutOfReach'
         /\ \A w \in Work : DeferRetryable(w) => NoRowOutOfReach'
         /\ \A w \in Work : LeaseLapses(w) => NoRowOutOfReach'
         /\ \A w \in Work : BackoffEnds(w) => NoRowOutOfReach'
<1> USE WorkStoreAssumption DEF RowTypeOK, Row, NoRowOutOfReach
<1>1. \A w \in Work : EnqueueWork(w) => NoRowOutOfReach'
  BY DEF EnqueueWork
<1>2. \A k \in Sources : ReclaimStale(k) => NoRowOutOfReach'
  BY DEF ReclaimStale, Reclaimable
<1>3. \A w \in Work, p \in Procs, a \in Nat : LeaseRow(w, p, a) => NoRowOutOfReach'
  BY DEF LeaseRow
<1>4. \A w \in Work : Heartbeat(w) => NoRowOutOfReach' BY DEF Heartbeat
<1>5. \A w \in Work, s \in Finished \cup {"retryable"} :
        CompleteWork(w, s) => NoRowOutOfReach'
  BY DEF CompleteWork, Finished
<1>6. \A w \in Work : DeferRetryable(w) => NoRowOutOfReach' BY DEF DeferRetryable
<1>7. \A w \in Work : LeaseLapses(w) => NoRowOutOfReach' BY DEF LeaseLapses
<1>8. \A w \in Work : BackoffEnds(w) => NoRowOutOfReach' BY DEF BackoffEnds
<1>9. QED BY <1>1, <1>2, <1>3, <1>4, <1>5, <1>6, <1>7, <1>8
-----------------------------------------------------------------------------
(* What a step can do to the table: one statement of the store, or nothing. *)
StoreStep ==
  \/ \E w \in Work : EnqueueWork(w)
  \/ \E k \in Sources : ReclaimStale(k)
  \/ \E w \in Work, p \in Procs, a \in Nat : LeaseRow(w, p, a)
  \/ \E w \in Work : Heartbeat(w)
  \/ \E w \in Work, s \in Finished \cup {"retryable"} : CompleteWork(w, s)
  \/ \E w \in Work : DeferRetryable(w)
  \/ \E w \in Work : LeaseLapses(w) \/ BackoffEnds(w)

(* Every step of the system is one statement of the store, or leaves the   *)
(* table alone.                                                            *)
LEMMA StepsAreStatements ==
  ASSUME TypeOK, JobHeld, [Next]_vars
  PROVE  StoreStep \/ UNCHANGED row
<1> USE SchedulerAssumption DEF TypeOK, JobHeld
<1>1. ASSUME NEW p \in Procs, NEW w \in Work, Submit(p, w) PROVE StoreStep
  BY <1>1 DEF Submit, StoreStep
<1>2. ASSUME NEW p \in Procs, ClaimReclaim(p) PROVE StoreStep
  BY <1>2 DEF ClaimReclaim, StoreStep
<1>3. ASSUME NEW p \in Procs, ClaimCommit(p) PROVE StoreStep
  <2>1. job[p] \in Work /\ att[p] + 1 \in Nat BY <1>3 DEF ClaimCommit
  <2>2. QED BY <1>3, <2>1 DEF ClaimCommit, StoreStep
<1>4. ASSUME NEW p \in Procs, Decline(p) \/ InvokeReturns(p) \/ InvokeRaises(p)
      PROVE  StoreStep
  <2>1. job[p] \in Work BY <1>4 DEF Decline, InvokeReturns, InvokeRaises, Invoking
  <2>2. \E s \in Finished \cup {"retryable"} : CompleteWork(job[p], s)
    BY <1>4 DEF Decline, InvokeReturns, InvokeRaises, Finished
  <2>3. QED BY <2>1, <2>2 DEF StoreStep
<1>5. ASSUME NEW p \in Procs, InvokeEnqueues(p) PROVE StoreStep
  <2>1. Children[job[p]] \subseteq Work BY <1>5 DEF InvokeEnqueues, Invoking
  <2>2. QED BY <1>5, <2>1 DEF InvokeEnqueues, StoreStep
<1>6. ASSUME NEW p \in Procs, HeartbeatTick(p) \/ Defer(p) PROVE StoreStep
  <2>1. job[p] \in Work BY <1>6 DEF HeartbeatTick, Defer, Invoking
  <2>2. QED BY <1>6, <2>1 DEF HeartbeatTick, Defer, StoreStep
<1>7. ASSUME NEW p \in Procs,
             StartRun(p) \/ ClaimSelect(p) \/ ClaimAborts(p) \/ Crash(p) \/ Restart(p)
      PROVE  UNCHANGED row
  BY <1>7 DEF StartRun, ClaimSelect, ClaimAborts, Crash, Restart
<1>8. ASSUME NEW w \in Work, ClockStep(w) PROVE StoreStep
  BY <1>8 DEF ClockStep, StoreStep
<1>9. CASE UNCHANGED vars BY <1>9 DEF vars
<1>10. QED
  BY <1>1, <1>2, <1>3, <1>4, <1>5, <1>6, <1>7, <1>8, <1>9 DEF Next, RunStep

(* A row a claim could still want is never hidden from the reclaim and     *)
(* claim statements, whatever interleaving of processes rewrote it.        *)
THEOREM RowsStayInReach == Spec => []NoRowOutOfReach
<1> DEFINE Inv == TypeOK /\ JobHeld /\ NoRowOutOfReach
<1>1. Init => Inv
  BY InitTyped DEF Init, InitStore, AbsentRow, NoRowOutOfReach
<1>2. Inv /\ [Next]_vars => Inv'
  <2> SUFFICES ASSUME Inv, [Next]_vars PROVE Inv'
    OBVIOUS
  <2>1. TypeOK' /\ JobHeld' BY StepTyped
  <2>2. CASE StoreStep BY <2>1, <2>2, StoreReach DEF StoreStep, TypeOK
  <2>3. CASE UNCHANGED row BY <2>1, <2>3 DEF NoRowOutOfReach
  <2>4. QED BY <2>1, <2>2, <2>3, StepsAreStatements
<1>3. QED BY <1>1, <1>2, PTL DEF Spec
-----------------------------------------------------------------------------
(* An item that is not stranded and becomes RETRYABLE, or stays it, has    *)
(* somebody about to defer it, unless a process dies that was.             *)
LEMMA DeferringStep ==
  ASSUME TypeOK, JobHeld, [Next]_vars, NEW v \in Work,
         row'[v].state = "retryable", ~Stranded(v),
         ~(\E p \in Procs : Crash(p) /\ job[p] = v)
  PROVE  Deferring(v)'
<1> USE WorkStoreAssumption, SchedulerAssumption DEF TypeOK, RowTypeOK, Row
<1>a. row[v].state = "retryable" => \E q \in Procs : pc[q] = "defer" /\ job[q] = v
  BY DEF Stranded, Deferring
<1>b. ASSUME NEW p \in Procs, row[v].state = "retryable", pc[p] # "defer",
             pc' = [pc EXCEPT ![p] = pc'[p]], job' = [job EXCEPT ![p] = job'[p]]
      PROVE  Deferring(v)'
  BY <1>a, <1>b DEF Deferring
<1>c. ASSUME NEW p \in Procs, DispatchAgain(p) \/ NextSource(p)
      PROVE  /\ pc' = [pc EXCEPT ![p] = pc'[p]]
             /\ job' = [job EXCEPT ![p] = job'[p]]
  BY <1>c DEF DispatchAgain, NextSource, Goto
<1>1. ASSUME NEW p \in Procs, NEW w \in Work, Submit(p, w) PROVE Deferring(v)'
  BY <1>1, <1>a DEF Submit, EnqueueWork, Deferring, procVars
<1>2. ASSUME NEW p \in Procs, StartRun(p) \/ ClaimAborts(p) PROVE Deferring(v)'
  BY <1>2, <1>b, <1>c DEF StartRun, ClaimAborts
<1>3. ASSUME NEW p \in Procs, ClaimReclaim(p) PROVE Deferring(v)'
  <2>0. row'[v] = row[v] \/ row'[v] = [row[v] EXCEPT !.state = "ready", !.owner = NoProc]
    BY <1>3 DEF ClaimReclaim, ReclaimStale
  <2>1. row[v].state = "retryable" BY <2>0
  <2>2. QED BY <1>3, <2>1, <1>b DEF ClaimReclaim, Goto
<1>4. ASSUME NEW p \in Procs, ClaimSelect(p) PROVE Deferring(v)'
  <2>1. row[v].state = "retryable" /\ pc[p] # "defer" BY <1>4 DEF ClaimSelect
  <2>2. CASE NextSource(p) BY <2>1, <2>2, <1>b, <1>c
  <2>3. ASSUME NEW w \in Work, job' = [job EXCEPT ![p] = w], Goto(p, "commit")
        PROVE  Deferring(v)'
    BY <2>1, <2>3, <1>b DEF Goto
  <2>4. QED BY <1>4, <2>2, <2>3 DEF ClaimSelect
<1>5. ASSUME NEW p \in Procs, ClaimCommit(p) PROVE Deferring(v)'
  <2>0. job[p] \in Work /\ att[p] + 1 \in Nat BY <1>5 DEF ClaimCommit, JobHeld
  <2>1. row[v].state = "retryable"
    <3>0. PICK j \in Work : j = job[p] BY <2>0
    <3>1. CASE v # j BY <1>5, <3>0, <3>1 DEF ClaimCommit, LeaseRow
    <3>2. CASE v = j
      <4>1. row'[v] = row[v] \/ row'[v].state = "leased"
        BY <1>5, <2>0, <3>0, <3>2 DEF ClaimCommit, LeaseRow
      <4>2. QED BY <4>1
    <3>3. QED BY <3>1, <3>2
  <2>2. QED BY <1>5, <2>1, <1>b DEF ClaimCommit, Goto
<1>6. ASSUME NEW p \in Procs, Decline(p) \/ InvokeReturns(p) PROVE Deferring(v)'
  <2>0. job[p] \in Work /\ pc[p] # "defer"
    BY <1>6 DEF Decline, InvokeReturns, Invoking, JobHeld
  <2>1. row[v].state = "retryable"
    <3>1. CASE Decline(p) BY <3>1, <2>0 DEF Decline, CompleteWork
    <3>2. CASE InvokeReturns(p) BY <3>2, <2>0 DEF InvokeReturns, CompleteWork
    <3>3. QED BY <1>6, <3>1, <3>2
  <2>2. QED BY <1>6, <2>0, <2>1, <1>b, <1>c DEF Decline, InvokeReturns
<1>7. ASSUME NEW p \in Procs, InvokeEnqueues(p) \/ HeartbeatTick(p)
      PROVE  Deferring(v)'
  <2>0. job[p] \in Work
    BY <1>7 DEF InvokeEnqueues, HeartbeatTick, Invoking, JobHeld
  <2>1. row[v].state = "retryable"
    <3>1. CASE InvokeEnqueues(p)
      <4>1. PICK w \in Work : EnqueueWork(w) BY <2>0, <3>1 DEF InvokeEnqueues
      <4>2. QED BY <4>1 DEF EnqueueWork
    <3>2. CASE HeartbeatTick(p)
      <4>1. PICK j \in Work : Heartbeat(j) BY <2>0, <3>2 DEF HeartbeatTick
      <4>2. QED BY <4>1 DEF Heartbeat
    <3>3. QED BY <1>7, <3>1, <3>2
  <2>2. QED BY <1>7, <2>1, <1>a DEF InvokeEnqueues, HeartbeatTick, procVars, Deferring
<1>8. ASSUME NEW p \in Procs, InvokeRaises(p) PROVE Deferring(v)'
  <2>1. job[p] \in Work /\ pc[p] = "leased" BY <1>8 DEF InvokeRaises, Invoking, JobHeld
  <2>2. CASE CompleteWork(job[p], "terminal") /\ DispatchAgain(p)
    <3>1. row[v].state = "retryable" BY <2>1, <2>2 DEF CompleteWork
    <3>2. QED BY <2>1, <2>2, <3>1, <1>b, <1>c
  <2>3. CASE CompleteWork(job[p], "retryable") /\ Goto(p, "defer") /\ UNCHANGED job
    <3>1. CASE v = job[p] BY <2>1, <2>3, <3>1 DEF Goto, Deferring
    <3>2. CASE v # job[p]
      <4>1. row[v].state = "retryable" BY <2>1, <2>3, <3>2 DEF CompleteWork
      <4>2. QED BY <4>1, <2>1, <2>3, <1>b DEF Goto
    <3>3. QED BY <3>1, <3>2
  <2>4. QED BY <1>8, <2>2, <2>3 DEF InvokeRaises
<1>9. ASSUME NEW p \in Procs, Defer(p) PROVE Deferring(v)'
  <2>1. v # job[p] /\ row[v].state = "retryable"
    BY <1>9 DEF Defer, DeferRetryable, JobHeld
  <2>2. PICK q \in Procs : pc[q] = "defer" /\ job[q] = v BY <1>a, <2>1
  <2>3. pc'[q] = "defer" /\ job'[q] = v
    BY <1>9, <1>c, <2>1, <2>2 DEF Defer
  <2>4. QED BY <2>3 DEF Deferring
<1>10. ASSUME NEW p \in Procs, Crash(p) PROVE Deferring(v)'
  <2>1. row[v].state = "retryable" /\ job[p] # v BY <1>10 DEF Crash
  <2>2. PICK q \in Procs : pc[q] = "defer" /\ job[q] = v BY <1>a, <2>1
  <2>3. pc'[q] = "defer" /\ job'[q] = v BY <1>10, <2>1, <2>2 DEF Crash, Goto
  <2>4. QED BY <2>3 DEF Deferring
<1>11. ASSUME NEW p \in Procs, Restart(p) PROVE Deferring(v)'
  BY <1>11, <1>b DEF Restart, Goto
<1>12. ASSUME NEW w \in Work, ClockStep(w) PROVE Deferring(v)'
  <2>1. row[v].state = "retryable"
    <3>1. CASE LeaseLapses(w) BY <3>1 DEF LeaseLapses
    <3>2. CASE BackoffEnds(w) BY <3>2 DEF BackoffEnds
    <3>3. QED BY <1>12, <3>1, <3>2 DEF ClockStep
  <2>2. QED BY <1>12, <2>1, <1>a DEF ClockStep, procVars, Deferring
<1>13. CASE UNCHANGED vars BY <1>13, <1>a DEF vars, procVars, Deferring
<1>14. QED
  BY <1>1, <1>2, <1>3, <1>4, <1>5, <1>6, <1>7, <1>8, <1>9, <1>10, <1>11, <1>12, <1>13
     DEF Next, RunStep

(* Only a death strands an item, and only the one in hand.                 *)
LEMMA StrandedStep ==
  ASSUME TypeOK, JobHeld, [Next]_vars
  PROVE  LET S == {w \in Work : Stranded(w)} IN
         \/ S' \subseteq S /\ faults' >= faults
         \/ \E j : S' \subseteq S \cup {j} /\ faults' = faults + 1
<1> DEFINE S == {w \in Work : Stranded(w)}
<1>1. \A v \in Work : Stranded(v)' /\ ~Stranded(v) =>
        \E p \in Procs : Crash(p) /\ job[p] = v
  BY DeferringStep DEF Stranded
<1>2. CASE \E p \in Procs : Crash(p)
  <2>1. PICK p \in Procs : Crash(p) BY <1>2
  <2>2. \A q \in Procs : Crash(q) => q = p
    BY <2>1, SchedulerAssumption DEF Crash, Goto, TypeOK
  <2>3. S' \subseteq S \cup {job[p]} BY <1>1, <2>2
  <2>4. faults' = faults + 1 BY <2>1 DEF Crash
  <2>5. QED BY <2>3, <2>4
<1>3. CASE ~(\E p \in Procs : Crash(p))
  <2>1. S' \subseteq S BY <1>1, <1>3
  <2>2. faults' >= faults
    BY <1>3, SchedulerAssumption
       DEF Next, RunStep, Submit, StartRun, ClaimReclaim, ClaimSelect, ClaimCommit,
           ClaimAborts, Decline, InvokeEnqueues, HeartbeatTick, InvokeReturns,
           InvokeRaises, Defer, Restart, ClockStep, vars, histVars, TypeOK
  <2>3. QED BY <2>1, <2>2
<1>4. QED BY <1>2, <1>3

(* Any number of processes that may die anywhere: no more items are left   *)
(* RETRYABLE than there were deaths and failed transactions.               *)
THEOREM DeathsStrandOneEach == Spec => []EachDeathStrandsOne
<1> DEFINE S == {w \in Work : Stranded(w)}
           Inv == TypeOK /\ JobHeld /\ IsFiniteSet(S) /\ Cardinality(S) <= faults
<1>1. Init => Inv
  <2> SUFFICES ASSUME Init PROVE Inv
    OBVIOUS
  <2>1. S = {} BY DEF Init, InitStore, AbsentRow, Stranded
  <2>2. IsFiniteSet(S) /\ Cardinality(S) = 0 BY <2>1, FS_EmptySet
  <2>3. QED BY <2>2, InitTyped DEF Init
<1>2. Inv /\ [Next]_vars => Inv'
  <2> SUFFICES ASSUME Inv, [Next]_vars PROVE Inv'
    OBVIOUS
  <2>1. TypeOK' /\ JobHeld' BY StepTyped
  <2>2. Cardinality(S) \in Nat /\ faults \in Nat /\ faults' \in Nat
    BY <2>1, FS_CardinalityType, SchedulerAssumption DEF TypeOK
  <2> HIDE DEF S
  <2>3. CASE S' \subseteq S /\ faults' >= faults
    <3>1. IsFiniteSet(S') /\ Cardinality(S') \in Nat /\ Cardinality(S') <= Cardinality(S)
      BY <2>3, FS_Subset, FS_CardinalityType
    <3>2. QED BY <2>1, <2>2, <2>3, <3>1
  <2>4. CASE \E j : S' \subseteq S \cup {j} /\ faults' = faults + 1
    <3>1. PICK j : S' \subseteq S \cup {j} /\ faults' = faults + 1 BY <2>4
    <3>2. /\ IsFiniteSet(S \cup {j}) /\ Cardinality(S \cup {j}) \in Nat
          /\ Cardinality(S \cup {j}) <= Cardinality(S) + 1
      <4>1. IsFiniteSet(S) OBVIOUS
      <4>2. /\ IsFiniteSet(S \cup {j})
            /\ Cardinality(S \cup {j}) = IF j \in S THEN Cardinality(S) ELSE Cardinality(S) + 1
        BY <4>1, FS_AddElement
      <4>3. QED BY <2>2, <4>2
    <3>3. /\ IsFiniteSet(S') /\ Cardinality(S') \in Nat
          /\ Cardinality(S') <= Cardinality(S \cup {j})
      BY <3>1, <3>2, FS_Subset, FS_CardinalityType
    <3>4. QED BY <2>1, <2>2, <3>1, <3>2, <3>3
  <2>5. QED BY <2>3, <2>4, StrandedStep DEF S
<1>3. Inv => EachDeathStrandsOne BY DEF EachDeathStrandsOne
<1>4. QED BY <1>1, <1>2, <1>3, PTL DEF Spec
-----------------------------------------------------------------------------
(* What a claim knows and what its row says is not more than the number of *)
(* claims.                                                                 *)
ClaimInv ==
  /\ \A p \in Procs :
       pc[p] \in {"commit", "leased"} => att[p] <= claims[job[p]]
  /\ NoneGivenUpEarly

(* Every statement keeps this, whoever else works on the row.              *)
LEMMA ClaimStep ==
  ASSUME TypeOK, JobHeld, ClaimInv, [Next]_vars
  PROVE  ClaimInv'
<1> USE WorkStoreAssumption, SchedulerAssumption
<1>a. TypeOK' /\ JobHeld' BY StepTyped
<1>b. /\ row \in [Work -> Row] /\ claims \in [Work -> Nat] /\ att \in [Procs -> Nat]
      /\ pc \in [Procs -> Places] /\ job \in [Procs -> Work \cup {NoJob}]
  BY DEF TypeOK, RowTypeOK
<1> DEFINE Known == \A p \in Procs :
             pc[p] \in {"commit", "leased"} => att[p] <= claims[job[p]]
           Early(w) == /\ row[w].attempt <= claims[w]
                       /\ row[w].state = "terminal" => claims[w] >= MaxAttempts
<1>c. Known /\ (\A w \in Work : Early(w)) BY DEF ClaimInv, NoneGivenUpEarly
<1> SUFFICES Known' /\ (\A w \in Work : Early(w)')
  BY DEF ClaimInv, NoneGivenUpEarly
<1>d. ASSUME NEW w \in Work, UNCHANGED claims, row'[w].attempt = row[w].attempt,
             row'[w].state = row[w].state \/ row'[w].state # "terminal"
      PROVE  Early(w)'
  BY <1>c, <1>d
<1>e. ASSUME NEW p \in Procs, DispatchAgain(p) \/ NextSource(p), UNCHANGED claims
      PROVE  Known'
  <2>1. /\ pc'[p] \in {"idle", "reclaim"}
        /\ \A q \in Procs \ {p} : pc'[q] = pc[q] /\ job'[q] = job[q] /\ att'[q] = att[q]
    BY <1>b, <1>e DEF DispatchAgain, NextSource, Goto
  <2>2. QED BY <1>c, <1>e, <2>1
<1>1. ASSUME NEW p \in Procs, NEW w \in Work, Submit(p, w)
      PROVE  Known' /\ (\A v \in Work : Early(v)')
  <2>1. Known' BY <1>1, <1>c DEF Submit, procVars, histVars
  <2>2. QED BY <1>1, <1>b, <1>d, <2>1 DEF Submit, EnqueueWork, histVars, Row
<1>2. ASSUME NEW p \in Procs, StartRun(p) \/ ClaimAborts(p)
      PROVE  Known' /\ (\A v \in Work : Early(v)')
  BY <1>2, <1>d, <1>e DEF StartRun, ClaimAborts, histVars
<1>3. ASSUME NEW p \in Procs, ClaimReclaim(p)
      PROVE  Known' /\ (\A v \in Work : Early(v)')
  <2>1. Known' BY <1>3, <1>b, <1>c DEF ClaimReclaim, Goto, histVars
  <2>2. ASSUME NEW v \in Work PROVE Early(v)'
    <3>1. \/ row'[v] = row[v]
          \/ row'[v] = [row[v] EXCEPT !.state = "ready", !.owner = NoProc]
      BY <1>3 DEF ClaimReclaim, ReclaimStale
    <3>2. /\ row'[v].attempt = row[v].attempt
          /\ row'[v].state = row[v].state \/ row'[v].state # "terminal"
      <4>1. row[v] \in Row BY <1>b
      <4>2. CASE row'[v] = row[v] BY <4>2
      <4>3. CASE row'[v] = [row[v] EXCEPT !.state = "ready", !.owner = NoProc]
        BY <4>1, <4>3 DEF Row
      <4>4. QED BY <3>1, <4>2, <4>3
    <3>3. UNCHANGED claims BY <1>3 DEF ClaimReclaim, histVars
    <3>4. QED BY <1>d, <3>2, <3>3
  <2>3. QED BY <2>1, <2>2
<1>4. ASSUME NEW p \in Procs, ClaimSelect(p)
      PROVE  Known' /\ (\A v \in Work : Early(v)')
  <2>1. UNCHANGED <<row, claims>> BY <1>4 DEF ClaimSelect, histVars
  <2>2. ASSUME NEW w \in Work, job' = [job EXCEPT ![p] = w],
               att' = [att EXCEPT ![p] = row[w].attempt], Goto(p, "commit")
        PROVE  Known'
    <3>1. /\ job'[p] = w /\ att'[p] = row[w].attempt
          /\ \A q \in Procs \ {p} : pc'[q] = pc[q] /\ job'[q] = job[q] /\ att'[q] = att[q]
      BY <1>b, <2>2 DEF Goto
    <3>2. QED BY <1>c, <2>1, <3>1
  <2>3. Known' BY <1>4, <1>e, <2>1, <2>2 DEF ClaimSelect
  <2>4. QED BY <1>d, <2>1, <2>3
<1>5. ASSUME NEW p \in Procs, ClaimCommit(p)
      PROVE  Known' /\ (\A v \in Work : Early(v)')
  <2>0. PICK j \in Work : j = job[p] BY <1>5 DEF ClaimCommit, JobHeld
  <2>1. /\ att[p] <= claims[j] /\ att[p] \in Nat
        /\ att'[p] = att[p] + 1 /\ claims'[j] = claims[j] + 1
        /\ \A q \in Procs \ {p} : pc'[q] = pc[q] /\ att'[q] = att[q]
        /\ \A v \in Work : claims'[v] >= claims[v] /\ claims[v] \in Nat /\ claims'[v] \in Nat
        /\ UNCHANGED job
    BY <1>5, <1>b, <1>c, <2>0 DEF ClaimCommit, Goto
  <2>2. Known'
    <3> SUFFICES ASSUME NEW q \in Procs, pc'[q] \in {"commit", "leased"}
                 PROVE  att'[q] <= claims'[job'[q]]
      OBVIOUS
    <3>1. job[q] \in Work BY <1>a, <2>1 DEF JobHeld
    <3>2. CASE q = p BY <2>0, <2>1, <3>2
    <3>3. CASE q # p
      <4>1. att[q] <= claims[job[q]] /\ att[q] \in Nat BY <1>b, <1>c, <2>1, <3>3
      <4>2. claims'[job[q]] >= claims[job[q]] /\ claims[job[q]] \in Nat
            /\ claims'[job[q]] \in Nat
        BY <2>1, <3>1
      <4>3. att'[q] = att[q] /\ job'[q] = job[q] BY <2>1, <3>3
      <4>4. QED BY <4>1, <4>2, <4>3
    <3>4. QED BY <3>2, <3>3
  <2>3. ASSUME NEW v \in Work PROVE Early(v)'
    <3>1. \/ row'[v] = row[v]
          \/ v = j /\ row'[v].attempt = att[p] + 1 /\ row'[v].state = "leased"
      BY <1>5, <1>b, <2>0 DEF ClaimCommit, LeaseRow, Row
    <3>2. row[v].attempt \in Nat BY <1>b DEF Row
    <3>3. QED BY <1>c, <2>1, <3>1, <3>2
  <2>4. QED BY <2>2, <2>3
<1>6. ASSUME NEW p \in Procs, Decline(p) \/ InvokeReturns(p) \/ InvokeRaises(p)
      PROVE  Known' /\ (\A v \in Work : Early(v)')
  <2>0. PICK j \in Work : j = job[p]
    BY <1>6 DEF Decline, InvokeReturns, InvokeRaises, Invoking, JobHeld
  <2>1. UNCHANGED claims /\ att[p] <= claims[j] /\ att[p] \in Nat /\ claims[j] \in Nat
    BY <1>6, <1>b, <1>c, <2>0
       DEF Decline, InvokeReturns, InvokeRaises, Invoking, histVars
  <2>2. \E s \in Finished \cup {"retryable"} :
          CompleteWork(j, s) /\ (s = "terminal" => att[p] >= MaxAttempts)
    BY <1>6, <2>0 DEF Decline, InvokeReturns, InvokeRaises, Finished
  <2>3. ASSUME NEW v \in Work PROVE Early(v)'
    <3>1. \/ row'[v] = row[v]
          \/ /\ v = j /\ row'[v].attempt = row[v].attempt
             /\ row'[v].state = "terminal" => att[p] >= MaxAttempts
      BY <1>b, <2>2 DEF CompleteWork, Row
    <3>2. QED BY <1>c, <2>1, <3>1
  <2>4. Known'
    <3>1. CASE DispatchAgain(p) \/ NextSource(p) BY <1>e, <2>1, <3>1
    <3>2. CASE Goto(p, "defer") /\ UNCHANGED <<pos, job, att>>
      BY <1>b, <1>c, <2>1, <3>2 DEF Goto
    <3>3. QED BY <1>6, <3>1, <3>2 DEF Decline, InvokeReturns, InvokeRaises
  <2>5. QED BY <2>3, <2>4
<1>7. ASSUME NEW p \in Procs, InvokeEnqueues(p) \/ HeartbeatTick(p)
      PROVE  Known' /\ (\A v \in Work : Early(v)')
  <2>1. UNCHANGED <<pc, job, att, claims>>
    BY <1>7 DEF InvokeEnqueues, HeartbeatTick, procVars, histVars
  <2>2. ASSUME NEW v \in Work
        PROVE  row'[v].attempt = row[v].attempt
               /\ (row'[v].state = row[v].state \/ row'[v].state # "terminal")
    <3>1. CASE InvokeEnqueues(p) BY <3>1, <1>b DEF InvokeEnqueues, EnqueueWork, Row
    <3>2. CASE HeartbeatTick(p) BY <3>2, <1>b DEF HeartbeatTick, Heartbeat, Row
    <3>3. QED BY <1>7, <3>1, <3>2
  <2>3. QED BY <1>c, <1>d, <2>1, <2>2
<1>8. ASSUME NEW p \in Procs, Defer(p)
      PROVE  Known' /\ (\A v \in Work : Early(v)')
  <2>1. UNCHANGED claims BY <1>8 DEF Defer, histVars
  <2>2. ASSUME NEW v \in Work
        PROVE  row'[v].attempt = row[v].attempt
               /\ (row'[v].state = row[v].state \/ row'[v].state # "terminal")
    BY <1>8, <1>b DEF Defer, DeferRetryable, Row
  <2>3. Known' BY <1>8, <1>e, <2>1 DEF Defer
  <2>4. QED BY <1>d, <2>1, <2>2, <2>3
<1>9. ASSUME NEW p \in Procs, Crash(p) \/ Restart(p)
      PROVE  Known' /\ (\A v \in Work : Early(v)')
  <2>1. UNCHANGED <<row, claims>> BY <1>9 DEF Crash, Restart, histVars
  <2>2. /\ pc'[p] \in {"down", "idle"}
        /\ \A q \in Procs \ {p} : pc'[q] = pc[q] /\ job'[q] = job[q] /\ att'[q] = att[q]
    BY <1>9, <1>b DEF Crash, Restart, Goto
  <2>3. Known' BY <1>c, <2>1, <2>2
  <2>4. QED BY <1>d, <2>1, <2>3
<1>10. ASSUME NEW w \in Work, ClockStep(w)
       PROVE  Known' /\ (\A v \in Work : Early(v)')
  <2>1. UNCHANGED <<pc, job, att, claims>> BY <1>10 DEF ClockStep, procVars, histVars
  <2>2. ASSUME NEW v \in Work
        PROVE  row'[v].attempt = row[v].attempt /\ row'[v].state = row[v].state
    <3>1. CASE LeaseLapses(w) BY <3>1, <1>b DEF LeaseLapses, Row
    <3>2. CASE BackoffEnds(w) BY <3>2, <1>b DEF BackoffEnds, Row
    <3>3. QED BY <1>10, <3>1, <3>2 DEF ClockStep
  <2>3. QED BY <1>c, <1>d, <2>1, <2>2
<1>11. CASE UNCHANGED vars BY <1>11, <1>c DEF vars, procVars, histVars
<1>12. QED
  BY <1>1, <1>2, <1>3, <1>4, <1>5, <1>6, <1>7, <1>8, <1>9, <1>10, <1>11
     DEF Next, RunStep

(* Any number of processes: no attempt is counted that nobody claimed, and *)
(* no item is given up before it was claimed max_attempts times.           *)
THEOREM ClaimsAreCounted == Spec => []NoneGivenUpEarly
<1> DEFINE Inv == TypeOK /\ JobHeld /\ ClaimInv
<1>1. Init => Inv
  BY InitTyped DEF Init, InitStore, AbsentRow, ClaimInv, NoneGivenUpEarly
<1>2. Inv /\ [Next]_vars => Inv' BY StepTyped, ClaimStep
<1>3. Inv => NoneGivenUpEarly BY DEF ClaimInv
<1>4. QED BY <1>1, <1>2, <1>3, PTL DEF Spec
-----------------------------------------------------------------------------
(***************************************************************************)
(* A single process.  What it holds in memory then agrees with the table   *)
(* at every point of _dispatch_one, which is what makes the unconditional  *)
(* complete_work and the unread rowcount of claim_work harmless.           *)
(***************************************************************************)
SoleProcess == \A p, q \in Procs : p = q

InHand ==
  \A p \in Procs :
    /\ pc[p] = "commit" => row[job[p]].state = "ready" /\ row[job[p]].attempt = att[p]
    /\ pc[p] = "leased" => row[job[p]].state = "leased" /\ row[job[p]].attempt = att[p]
    /\ pc[p] = "defer"  => row[job[p]].state = "retryable"

(* AttemptLedger and RetryBudget for one item.                             *)
Ledger(w) ==
  row[w].attempt = raised[w] + lost[w] + OneIf(Answered(w)) + OneIf(Held(w))

Budget(w) ==
  /\ raised[w] <= MaxAttempts
  /\ raised[w] = MaxAttempts => row[w].state = "terminal"
  /\ row[w].state = "terminal" => raised[w] + lost[w] >= MaxAttempts

SoloInv ==
  /\ TypeOK
  /\ JobHeld
  /\ InHand
  /\ \A w \in Work : Ledger(w) /\ Budget(w)

(* A single process: an item is held exactly if the process holds it.      *)
LEMMA HeldBySole ==
  ASSUME SoleProcess, NEW p \in Procs, NEW w \in Work
  PROVE  /\ Held(w) <=> pc[p] = "leased" /\ job[p] = w
         /\ Held(w)' <=> pc'[p] = "leased" /\ job'[p] = w
BY DEF SoleProcess, Held, Holds

(* An item whose columns a step leaves alone keeps its ledger.             *)
LEMMA LedgerFrame ==
  ASSUME NEW w \in Work, Ledger(w), Budget(w),
         row'[w].attempt = row[w].attempt,
         raised'[w] = raised[w], lost'[w] = lost[w],
         Answered(w)' <=> Answered(w),
         Held(w)' <=> Held(w),
         row'[w].state = "terminal" <=> row[w].state = "terminal"
  PROVE  Ledger(w)' /\ Budget(w)'
BY DEF Ledger, Budget, OneIf

(* The initial state satisfies the invariant of a single process.          *)
LEMMA InitSolo == Init => SoloInv
<1> SUFFICES ASSUME Init PROVE SoloInv
  OBVIOUS
<1>1. InHand BY DEF Init, InHand
<1>2. ASSUME NEW w \in Work PROVE Ledger(w) /\ Budget(w)
  BY SchedulerAssumption
     DEF Init, InitStore, AbsentRow, Ledger, Budget, OneIf, Answered, Held, Holds
<1>3. QED BY <1>1, <1>2, InitTyped DEF SoloInv

(* Away from "commit", "leased" and "defer" there is nothing in hand.      *)
LEMMA InHandElsewhere ==
  ASSUME SoleProcess, NEW p \in Procs, pc'[p] \in {"down", "idle", "reclaim", "select"}
  PROVE  InHand'
BY DEF SoleProcess, InHand

(* A step that leaves the columns counted alone, with nobody leased before *)
(* or after, or the same item leased, keeps every ledger.                  *)
LEMMA LedgersFrame ==
  ASSUME \A w \in Work : Ledger(w) /\ Budget(w),
         \A w \in Work : /\ row'[w].attempt = row[w].attempt
                         /\ \/ row'[w].state = row[w].state
                            \/ /\ row[w].state \in {"absent", "leased", "retryable"}
                               /\ row'[w].state \in {"ready", "retryable"}
                         /\ Held(w)' <=> Held(w),
         UNCHANGED <<raised, lost>>
  PROVE  \A w \in Work : Ledger(w)' /\ Budget(w)'
<1> TAKE w \in Work
<1>1. /\ Answered(w)' <=> Answered(w)
      /\ row'[w].state = "terminal" <=> row[w].state = "terminal"
  BY DEF Answered
<1>2. QED BY <1>1, LedgerFrame

(* A process that leaves its item is between items or out of run().        *)
LEMMA LeavePlace ==
  ASSUME TypeOK, NEW p \in Procs, DispatchAgain(p) \/ NextSource(p)
  PROVE  pc'[p] \in {"idle", "reclaim"}
BY DEF DispatchAgain, NextSource, Goto, TypeOK

(* Every step of a single process keeps its invariant.                     *)
LEMMA SoloStep ==
  ASSUME SoleProcess, SoloInv, [Next]_vars
  PROVE  SoloInv'
<1>a. TypeOK /\ JobHeld /\ InHand /\ (\A w \in Work : Ledger(w) /\ Budget(w))
  BY DEF SoloInv
<1>b. TypeOK' /\ JobHeld' BY <1>a, StepTyped
<1> SUFFICES InHand' /\ (\A w \in Work : Ledger(w)' /\ Budget(w)')
  BY <1>b DEF SoloInv
<1> USE <1>a, WorkStoreAssumption, SchedulerAssumption
<1>1. ASSUME NEW p \in Procs, NEW w \in Work, Submit(p, w)
      PROVE  InHand' /\ (\A v \in Work : Ledger(v)' /\ Budget(v)')
  <2>1. InHand' BY <1>1, InHandElsewhere DEF Submit, procVars
  <2>2. \A v \in Work : Held(v)' <=> Held(v)
    BY <1>1, HeldBySole DEF Submit, procVars
  <2>3. QED
    BY <1>1, <2>1, <2>2, LedgersFrame
       DEF Submit, EnqueueWork, histVars, TypeOK, RowTypeOK, Row
<1>2. ASSUME NEW p \in Procs, StartRun(p) \/ ClaimAborts(p)
      PROVE  InHand' /\ (\A v \in Work : Ledger(v)' /\ Budget(v)')
  <2>1. pc[p] # "leased" /\ pc'[p] \in {"idle", "reclaim"}
    BY <1>2, LeavePlace DEF StartRun, ClaimAborts
  <2>2. InHand' BY <2>1, InHandElsewhere
  <2>3. \A v \in Work : Held(v)' <=> Held(v) BY <2>1, HeldBySole
  <2>4. UNCHANGED <<row, raised, lost>> BY <1>2 DEF StartRun, ClaimAborts, histVars
  <2>5. QED BY <2>2, <2>3, <2>4, LedgersFrame
<1>3. ASSUME NEW p \in Procs, ClaimReclaim(p)
      PROVE  InHand' /\ (\A v \in Work : Ledger(v)' /\ Budget(v)')
  <2>1. pc[p] # "leased" /\ pc'[p] = "select" BY <1>3 DEF ClaimReclaim, Goto, TypeOK
  <2>2. InHand' BY <2>1, InHandElsewhere
  <2>3. \A v \in Work : Held(v)' <=> Held(v) BY <2>1, HeldBySole
  <2>4. ASSUME NEW v \in Work
        PROVE  \/ row'[v] = row[v]
               \/ /\ row[v].state = "leased"
                  /\ row'[v] = [row[v] EXCEPT !.state = "ready", !.owner = NoProc]
    BY <1>3 DEF ClaimReclaim, ReclaimStale, Reclaimable
  <2>5. ASSUME NEW v \in Work
        PROVE  /\ row'[v].attempt = row[v].attempt
               /\ \/ row'[v].state = row[v].state
                  \/ row[v].state = "leased" /\ row'[v].state = "ready"
    <3>1. row[v] \in Row BY DEF TypeOK, RowTypeOK
    <3>2. QED BY <2>4, <3>1 DEF Row
  <2>6. UNCHANGED <<raised, lost>> BY <1>3 DEF ClaimReclaim, histVars
  <2>7. QED BY <2>2, <2>3, <2>5, <2>6, LedgersFrame
<1>4. ASSUME NEW p \in Procs, ClaimSelect(p)
      PROVE  InHand' /\ (\A v \in Work : Ledger(v)' /\ Budget(v)')
  <2>1. UNCHANGED <<row, raised, lost>> /\ pc[p] = "select"
    BY <1>4 DEF ClaimSelect, histVars
  <2>2. CASE NextSource(p)
    <3>1. pc'[p] \in {"idle", "reclaim"} BY <2>2, LeavePlace
    <3>2. \A v \in Work : Held(v)' <=> Held(v) BY <2>1, <3>1, HeldBySole
    <3>3. QED BY <2>1, <3>1, <3>2, InHandElsewhere, LedgersFrame
  <2>3. ASSUME NEW w \in Work, IsFirstOf(w, Claimable(pos[p])),
               job' = [job EXCEPT ![p] = w],
               att' = [att EXCEPT ![p] = row[w].attempt],
               Goto(p, "commit")
        PROVE  InHand' /\ (\A v \in Work : Ledger(v)' /\ Budget(v)')
    <3>1. pc'[p] = "commit" /\ job'[p] = w /\ att'[p] = row[w].attempt
      BY <2>3 DEF Goto, TypeOK
    <3>2. row[w].state = "ready" BY <2>3 DEF IsFirstOf, Claimable
    <3>3. InHand' BY <2>1, <3>1, <3>2 DEF SoleProcess, InHand
    <3>4. \A v \in Work : Held(v)' <=> Held(v) BY <2>1, <3>1, HeldBySole
    <3>5. QED BY <2>1, <3>3, <3>4, LedgersFrame
  <2>4. QED BY <1>4, <2>2, <2>3 DEF ClaimSelect
<1>5. ASSUME NEW p \in Procs, ClaimCommit(p)
      PROVE  InHand' /\ (\A v \in Work : Ledger(v)' /\ Budget(v)')
  <2>0. PICK j \in Work : j = job[p] BY <1>5 DEF ClaimCommit, JobHeld
  <2>1. pc[p] = "commit" /\ row[j].state = "ready" /\ row[j].attempt = att[p]
    BY <1>5, <2>0 DEF ClaimCommit, InHand
  <2>2. /\ row' = [row EXCEPT ![j] = [@ EXCEPT !.state = "leased", !.attempt = att[p] + 1,
                                               !.owner = p, !.lapsed = FALSE]]
        /\ att' = [att EXCEPT ![p] = @ + 1]
        /\ pc' = [pc EXCEPT ![p] = "leased"]
        /\ UNCHANGED <<job, raised, lost>>
    BY <1>5, <2>0, <2>1 DEF ClaimCommit, LeaseRow, Goto
  <2>3. /\ row'[j].state = "leased" /\ row'[j].attempt = att[p] + 1
        /\ \A v \in Work \ {j} : row'[v] = row[v]
        /\ att'[p] = att[p] + 1 /\ pc'[p] = "leased" /\ job'[p] = j
    BY <2>0, <2>1, <2>2 DEF TypeOK, RowTypeOK, Row
  <2>4. InHand' BY <2>3 DEF SoleProcess, InHand
  <2>5. \A v \in Work : ~Held(v) /\ (Held(v)' <=> v = j) BY <2>1, <2>3, HeldBySole
  <2>6. Ledger(j)' /\ Budget(j)'
    BY <2>1, <2>2, <2>3, <2>5
       DEF Ledger, Budget, OneIf, Answered, TypeOK
  <2>7. ASSUME NEW v \in Work \ {j} PROVE Ledger(v)' /\ Budget(v)'
    BY <2>2, <2>3, <2>5, LedgerFrame DEF Answered
  <2>8. QED BY <2>4, <2>6, <2>7
<1>6. ASSUME NEW p \in Procs, Decline(p) \/ InvokeReturns(p)
      PROVE  InHand' /\ (\A v \in Work : Ledger(v)' /\ Budget(v)')
  <2>0. PICK j \in Work : j = job[p]
    BY <1>6 DEF Decline, InvokeReturns, Invoking, JobHeld
  <2>1. pc[p] = "leased" /\ row[j].state = "leased"
    BY <1>6, <2>0 DEF Decline, InvokeReturns, Invoking, InHand
  <2>2. PICK s \in {"succeeded", "blocked"} : CompleteWork(j, s)
    BY <1>6, <2>0 DEF Decline, InvokeReturns
  <2>3. /\ row'[j].state \in {"succeeded", "blocked"}
        /\ row'[j].attempt = row[j].attempt
        /\ \A v \in Work \ {j} : row'[v] = row[v]
    BY <2>1, <2>2 DEF CompleteWork, TypeOK, RowTypeOK, Row
  <2>4. pc'[p] \in {"idle", "reclaim"} /\ UNCHANGED <<raised, lost>>
    BY <1>6, LeavePlace DEF Decline, InvokeReturns, histVars
  <2>5. \A v \in Work : ~Held(v)' /\ (Held(v) <=> v = j)
    BY <2>0, <2>1, <2>4, HeldBySole
  <2>6. Ledger(j)' /\ Budget(j)'
    BY <2>1, <2>3, <2>4, <2>5 DEF Ledger, Budget, OneIf, Answered, TypeOK
  <2>7. ASSUME NEW v \in Work \ {j} PROVE Ledger(v)' /\ Budget(v)'
    BY <2>3, <2>4, <2>5, LedgerFrame DEF Answered
  <2>8. QED BY <2>4, <2>6, <2>7, InHandElsewhere
<1>7. ASSUME NEW p \in Procs, InvokeEnqueues(p) \/ HeartbeatTick(p)
      PROVE  InHand' /\ (\A v \in Work : Ledger(v)' /\ Budget(v)')
  <2>1. job[p] \in Work /\ pc[p] = "leased" /\ row[job[p]].state = "leased"
    BY <1>7 DEF InvokeEnqueues, HeartbeatTick, Invoking, JobHeld, InHand
  <2>2. UNCHANGED <<pc, job, att, raised, lost>>
    BY <1>7 DEF InvokeEnqueues, HeartbeatTick, procVars, histVars
  <2>3. ASSUME NEW v \in Work
        PROVE  /\ row'[v].attempt = row[v].attempt
               /\ \/ row'[v].state = row[v].state
                  \/ row[v].state = "absent" /\ row'[v].state = "ready"
    <3>1. CASE InvokeEnqueues(p)
      BY <3>1 DEF InvokeEnqueues, EnqueueWork, TypeOK, RowTypeOK, Row
    <3>2. CASE HeartbeatTick(p)
      BY <3>2 DEF HeartbeatTick, Heartbeat, TypeOK, RowTypeOK, Row
    <3>3. QED BY <1>7, <3>1, <3>2
  <2>4. \A v \in Work : Held(v)' <=> Held(v) BY <2>2, HeldBySole
  <2>5. InHand' BY <2>1, <2>2, <2>3 DEF SoleProcess, InHand
  <2>6. QED BY <2>2, <2>3, <2>4, <2>5, LedgersFrame
<1>8. ASSUME NEW p \in Procs, InvokeRaises(p)
      PROVE  InHand' /\ (\A v \in Work : Ledger(v)' /\ Budget(v)')
  <2>0. PICK j \in Work : j = job[p] BY <1>8 DEF InvokeRaises, Invoking, JobHeld
  <2>1. pc[p] = "leased" /\ row[j].state = "leased" /\ row[j].attempt = att[p]
    BY <1>8, <2>0 DEF InvokeRaises, Invoking, InHand
  <2>2. /\ raised' = [raised EXCEPT ![j] = @ + 1]
        /\ UNCHANGED lost
    BY <1>8, <2>0 DEF InvokeRaises
  <2>3. PICK s \in {"terminal", "retryable"} :
          /\ CompleteWork(j, s)
          /\ s = "terminal" => att[p] >= MaxAttempts /\ DispatchAgain(p)
          /\ s = "retryable" => /\ att[p] < MaxAttempts
                                /\ Goto(p, "defer")
                                /\ UNCHANGED <<pos, job, att>>
    BY <1>8, <2>0 DEF InvokeRaises
  <2>4. /\ row'[j].state = s /\ row'[j].attempt = row[j].attempt
        /\ \A v \in Work \ {j} : row'[v] = row[v]
    BY <2>1, <2>3 DEF CompleteWork, TypeOK, RowTypeOK, Row
  <2>5. /\ s = "terminal" => pc'[p] \in {"idle", "reclaim"}
        /\ s = "retryable" => pc'[p] = "defer" /\ job'[p] = j
    BY <2>0, <2>3, LeavePlace DEF Goto, TypeOK
  <2>6. raised'[j] = raised[j] + 1 /\ \A v \in Work \ {j} : raised'[v] = raised[v]
    BY <2>1, <2>2 DEF TypeOK
  <2>7. \A v \in Work : ~Held(v)' /\ (Held(v) <=> v = j)
    BY <2>0, <2>1, <2>3, <2>5, HeldBySole
  <2>8. InHand'
    <3>1. CASE s = "terminal" BY <2>5, <3>1, InHandElsewhere
    <3>2. CASE s = "retryable" BY <2>4, <2>5, <3>2 DEF SoleProcess, InHand
    <3>3. QED BY <3>1, <3>2
  <2>9. Ledger(j)' /\ Budget(j)'
    <3>1. /\ raised[j] \in Nat /\ lost[j] \in Nat /\ MaxAttempts \in Nat
          /\ raised'[j] = raised[j] + 1 /\ lost'[j] = lost[j]
      BY <2>2, <2>6 DEF TypeOK
    <3>2. Held(j) /\ ~Held(j)' /\ ~Answered(j) /\ ~Answered(j)'
      BY <2>1, <2>4, <2>7 DEF Answered
    <3>3. row[j].attempt = raised[j] + lost[j] + 1 BY <3>1, <3>2 DEF Ledger, OneIf
    <3>4. Ledger(j)' BY <2>4, <3>1, <3>2, <3>3 DEF Ledger, OneIf
    <3>5. raised[j] < MaxAttempts BY <2>1, <3>1 DEF Budget
    <3>6. Budget(j)'
      <4>1. CASE s = "terminal" BY <2>1, <2>3, <2>4, <3>1, <3>3, <3>5, <4>1 DEF Budget
      <4>2. CASE s = "retryable" BY <2>1, <2>3, <2>4, <3>1, <3>3, <4>2 DEF Budget
      <4>3. QED BY <4>1, <4>2
    <3>7. QED BY <3>4, <3>6
  <2>10. ASSUME NEW v \in Work \ {j} PROVE Ledger(v)' /\ Budget(v)'
    BY <2>2, <2>4, <2>6, <2>7, LedgerFrame DEF Answered
  <2>11. QED BY <2>8, <2>9, <2>10
<1>9. ASSUME NEW p \in Procs, Defer(p)
      PROVE  InHand' /\ (\A v \in Work : Ledger(v)' /\ Budget(v)')
  <2>1. /\ job[p] \in Work /\ pc[p] = "defer" /\ row[job[p]].state = "retryable"
        /\ pc'[p] \in {"idle", "reclaim"} /\ UNCHANGED <<raised, lost>>
    BY <1>9, LeavePlace DEF Defer, JobHeld, InHand, histVars
  <2>2. \A v \in Work : Held(v)' <=> Held(v) BY <2>1, HeldBySole
  <2>3. ASSUME NEW v \in Work
        PROVE  /\ row'[v].attempt = row[v].attempt
               /\ \/ row'[v].state = row[v].state
                  \/ row[v].state = "retryable" /\ row'[v].state = "ready"
    BY <1>9, <2>1 DEF Defer, DeferRetryable, TypeOK, RowTypeOK, Row
  <2>4. QED BY <2>1, <2>2, <2>3, InHandElsewhere, LedgersFrame
<1>10. ASSUME NEW p \in Procs, Crash(p)
       PROVE  InHand' /\ (\A v \in Work : Ledger(v)' /\ Budget(v)')
  <2>1. pc'[p] = "down" /\ UNCHANGED <<row, raised>> BY <1>10 DEF Crash, Goto, TypeOK
  <2>2. InHand' BY <2>1, InHandElsewhere
  <2>3. \A v \in Work : ~Held(v)' BY <2>1, HeldBySole
  <2>4. CASE pc[p] # "leased"
    <3>1. UNCHANGED lost /\ \A v \in Work : ~Held(v) BY <1>10, <2>4, HeldBySole DEF Crash
    <3>2. QED BY <2>1, <2>2, <2>3, <3>1, LedgersFrame
  <2>5. CASE pc[p] = "leased"
    <3>0. PICK j \in Work : j = job[p] BY <2>5 DEF JobHeld
    <3>1. row[j].state = "leased" /\ lost' = [lost EXCEPT ![j] = @ + 1]
      BY <1>10, <2>5, <3>0 DEF Crash, InHand
    <3>2. \A v \in Work : Held(v) <=> v = j BY <2>5, <3>0, HeldBySole
    <3>3. Ledger(j)' /\ Budget(j)'
      BY <2>1, <2>3, <3>1, <3>2 DEF Ledger, Budget, OneIf, Answered, TypeOK
    <3>4. ASSUME NEW v \in Work, v # j PROVE Ledger(v)' /\ Budget(v)'
      <4>1. lost'[v] = lost[v] BY <3>1, <3>4 DEF TypeOK
      <4>2. QED BY <2>1, <2>3, <3>2, <3>4, <4>1, LedgerFrame DEF Answered
    <3>5. QED BY <2>2, <3>3, <3>4
  <2>6. QED BY <2>4, <2>5
<1>11. ASSUME NEW p \in Procs, Restart(p)
       PROVE  InHand' /\ (\A v \in Work : Ledger(v)' /\ Budget(v)')
  <2>1. pc[p] = "down" /\ pc'[p] = "idle" /\ UNCHANGED <<row, raised, lost>>
    BY <1>11 DEF Restart, Goto, TypeOK, histVars
  <2>2. \A v \in Work : Held(v)' <=> Held(v) BY <2>1, HeldBySole
  <2>3. QED BY <2>1, <2>2, InHandElsewhere, LedgersFrame
<1>12. ASSUME NEW w \in Work, ClockStep(w)
       PROVE  InHand' /\ (\A v \in Work : Ledger(v)' /\ Budget(v)')
  <2>1. UNCHANGED <<pc, job, att, raised, lost>> BY <1>12 DEF ClockStep, procVars, histVars
  <2>2. ASSUME NEW v \in Work
        PROVE  row'[v].attempt = row[v].attempt /\ row'[v].state = row[v].state
    <3>1. CASE LeaseLapses(w) BY <3>1 DEF LeaseLapses, TypeOK, RowTypeOK, Row
    <3>2. CASE BackoffEnds(w) BY <3>2 DEF BackoffEnds, TypeOK, RowTypeOK, Row
    <3>3. QED BY <1>12, <3>1, <3>2 DEF ClockStep
  <2>3. \A v \in Work : Held(v)' <=> Held(v) BY <2>1 DEF Held, Holds
  <2>4. InHand' BY <2>1, <2>2 DEF InHand, JobHeld
  <2>5. QED BY <2>1, <2>2, <2>3, <2>4, LedgersFrame
<1>13. CASE UNCHANGED vars
  <2>1. UNCHANGED <<row, pc, job, att, raised, lost>>
    BY <1>13 DEF vars, procVars, histVars
  <2>2. \A v \in Work : Held(v)' <=> Held(v) BY <2>1 DEF Held, Holds
  <2>3. InHand' BY <2>1 DEF InHand
  <2>4. QED BY <2>1, <2>2, <2>3, LedgersFrame
<1>14. QED
  BY <1>1, <1>2, <1>3, <1>4, <1>5, <1>6, <1>7, <1>8, <1>9, <1>10, <1>11, <1>12, <1>13
     DEF Next, RunStep

(* The invariant of a single process holds always.                         *)
LEMMA SoloInvariant == SoleProcess => (Spec => []SoloInv)
<1> SUFFICES ASSUME SoleProcess PROVE Spec => []SoloInv
  OBVIOUS
<1>1. Init => SoloInv BY InitSolo
<1>2. SoloInv /\ [Next]_vars => SoloInv' BY SoloStep
<1>3. QED BY <1>1, <1>2, PTL DEF Spec

(* A single process: every attempt counted is a failure, a crash, an       *)
(* answer or the invocation running now.                                   *)
THEOREM AttemptsAddUp == SoleProcess => (Spec => []AttemptLedger)
<1>1. SoloInv => AttemptLedger
  BY DEF SoloInv, Ledger, AttemptLedger
<1>2. QED BY <1>1, SoloInvariant, PTL

(* A single process: an item is given up at the failure that uses up the   *)
(* budget, never before, and is not tried again.                           *)
THEOREM BudgetKept == SoleProcess => (Spec => []RetryBudget)
<1>1. SoloInv => RetryBudget
  BY DEF SoloInv, Budget, RetryBudget
<1>2. QED BY <1>1, SoloInvariant, PTL

(* A single process: how each statement meets an item's status and count.  *)
LEMMA SoloRowStep ==
  ASSUME SoloInv, [Next]_vars, NEW w \in Work
  PROVE  \/ row'[w].state = row[w].state /\ row'[w].attempt = row[w].attempt
         \/ /\ row[w].state = "absent"                                 \* enqueued
            /\ row'[w].state = "ready" /\ row'[w].attempt = row[w].attempt
         \/ /\ row[w].state = "ready"                                  \* claimed
            /\ row'[w].state = "leased" /\ row'[w].attempt = row[w].attempt + 1
         \/ /\ row[w].state = "leased"                                 \* settled
            /\ row'[w].state \in Finished /\ row'[w].attempt = row[w].attempt
            /\ row[w].attempt > 0
            /\ row'[w].state = "terminal" => row[w].attempt >= MaxAttempts
         \/ /\ row[w].state \in Pending /\ row'[w].state \in Pending   \* inside
            /\ row'[w].attempt = row[w].attempt
<1> USE WorkStoreAssumption, SchedulerAssumption DEF Finished, Pending
<1>a. /\ TypeOK /\ JobHeld /\ InHand
      /\ row[w] \in Row /\ row \in [Work -> Row]
  BY DEF SoloInv, TypeOK, RowTypeOK
<1>1. ASSUME NEW p \in Procs, NEW v \in Work, Submit(p, v)
      PROVE  row'[w] = row[w] \/ /\ row[w].state = "absent" /\ row'[w].state = "ready"
                                 /\ row'[w].attempt = row[w].attempt
  BY <1>1, <1>a DEF Submit, EnqueueWork, Row
<1>2. ASSUME NEW p \in Procs,
             StartRun(p) \/ ClaimSelect(p) \/ ClaimAborts(p) \/ Crash(p) \/ Restart(p)
      PROVE  row'[w] = row[w]
  BY <1>2 DEF StartRun, ClaimSelect, ClaimAborts, Crash, Restart
<1>3. ASSUME NEW p \in Procs, ClaimReclaim(p)
      PROVE  row'[w] = row[w] \/ /\ row[w].state = "leased" /\ row'[w].state = "ready"
                                 /\ row'[w].attempt = row[w].attempt
  <2>1. \/ row'[w] = row[w]
        \/ /\ row[w].state = "leased"
           /\ row'[w] = [row[w] EXCEPT !.state = "ready", !.owner = NoProc]
    BY <1>3 DEF ClaimReclaim, ReclaimStale, Reclaimable
  <2>2. QED BY <2>1, <1>a DEF Row
<1>4. ASSUME NEW p \in Procs, ClaimCommit(p)
      PROVE  row'[w] = row[w] \/ /\ row[w].state = "ready" /\ row'[w].state = "leased"
                                 /\ row'[w].attempt = row[w].attempt + 1
  <2>1. /\ job[p] \in Work /\ row[job[p]].state = "ready"
        /\ row[job[p]].attempt = att[p]
    BY <1>4, <1>a DEF ClaimCommit, JobHeld, InHand
  <2>2. QED BY <1>4, <2>1, <1>a DEF ClaimCommit, LeaseRow, Row
<1>5. ASSUME NEW p \in Procs, Decline(p) \/ InvokeReturns(p) \/ InvokeRaises(p)
      PROVE  \/ row'[w] = row[w]
             \/ /\ row[w].state = "leased" /\ row'[w].attempt = row[w].attempt
                /\ row'[w].state \in Finished \cup {"retryable"}
                /\ row[w].attempt > 0
                /\ row'[w].state = "terminal" => row[w].attempt >= MaxAttempts
  <2>1. PICK j \in Work : j = job[p]
    BY <1>5, <1>a DEF Decline, InvokeReturns, InvokeRaises, Invoking, JobHeld
  <2>2. pc[p] = "leased" /\ row[j].state = "leased" /\ row[j].attempt = att[p]
    BY <1>5, <1>a, <2>1 DEF Decline, InvokeReturns, InvokeRaises, Invoking, InHand
  <2>3. PICK s \in Finished \cup {"retryable"} :
          CompleteWork(j, s) /\ (s = "terminal" => att[p] >= MaxAttempts)
    BY <1>5, <2>1 DEF Decline, InvokeReturns, InvokeRaises
  <2>4. CASE w # j BY <2>3, <2>4, <1>a DEF CompleteWork
  <2>5. CASE w = j
    <3>1. Held(j) BY <2>1, <2>2 DEF Held, Holds
    <3>2. row[j].attempt > 0
      BY <3>1 DEF SoloInv, Ledger, OneIf, TypeOK
    <3>3. row'[j].state = s /\ row'[j].attempt = row[j].attempt
      BY <2>3, <1>a DEF CompleteWork, Row
    <3>4. QED BY <2>2, <2>3, <2>5, <3>2, <3>3
  <2>6. QED BY <2>4, <2>5
<1>6. ASSUME NEW p \in Procs, InvokeEnqueues(p)
      PROVE  row'[w] = row[w] \/ /\ row[w].state = "absent" /\ row'[w].state = "ready"
                                 /\ row'[w].attempt = row[w].attempt
  BY <1>6, <1>a DEF InvokeEnqueues, EnqueueWork, Row
<1>7. ASSUME NEW p \in Procs, HeartbeatTick(p)
      PROVE  row'[w] = row[w] \/ /\ row[w].state = "leased" /\ row'[w].state = "leased"
                                 /\ row'[w].attempt = row[w].attempt
  BY <1>7, <1>a DEF HeartbeatTick, Heartbeat, Row
<1>8. ASSUME NEW p \in Procs, Defer(p)
      PROVE  row'[w] = row[w] \/ /\ row[w].state = "retryable" /\ row'[w].state = "ready"
                                 /\ row'[w].attempt = row[w].attempt
  BY <1>8, <1>a DEF Defer, DeferRetryable, Row
<1>9. ASSUME NEW v \in Work, ClockStep(v)
      PROVE  row'[w].state = row[w].state /\ row'[w].attempt = row[w].attempt
  <2>1. CASE LeaseLapses(v) BY <2>1, <1>a DEF LeaseLapses, Row
  <2>2. CASE BackoffEnds(v) BY <2>2, <1>a DEF BackoffEnds, Row
  <2>3. QED BY <1>9, <2>1, <2>2 DEF ClockStep
<1>10. CASE UNCHANGED vars BY <1>10 DEF vars
<1>11. QED
  BY <1>1, <1>2, <1>3, <1>4, <1>5, <1>6, <1>7, <1>8, <1>9, <1>10 DEF Next, RunStep

(* A single process: an item that ended stays as it ended.                 *)
THEOREM EndIsFinal == SoleProcess => (Spec => FinishedIsFinal)
<1> SUFFICES ASSUME SoleProcess PROVE Spec => FinishedIsFinal
  OBVIOUS
<1>1. ASSUME SoloInv, [Next]_vars
      PROVE  [\A w \in Work :
                row[w].state \in Finished =>
                  row'[w].state = row[w].state /\ row'[w].attempt = row[w].attempt]_vars
  <2>1. ASSUME NEW w \in Work, row[w].state \in Finished
        PROVE  row'[w].state = row[w].state /\ row'[w].attempt = row[w].attempt
    BY <1>1, <2>1, SoloRowStep DEF Finished, Pending
  <2>2. QED BY <2>1
<1>2. QED BY <1>1, SoloInvariant, PTL DEF Spec, FinishedIsFinal

(* A single process: the scheduler over the store implements the work      *)
(* queue of WorkLifecycle.                                                 *)
THEOREM SchedulerIsAQueue == SoleProcess => (Spec => ImplementsQueue)
<1> SUFFICES ASSUME SoleProcess PROVE Spec => ImplementsQueue
  OBVIOUS
<1> DEFINE status == [w \in Work |-> Status(w)]
           tries  == [w \in Work |-> row[w].attempt]
<1>1. Init => Queue!Init
  BY DEF Init, InitStore, AbsentRow, Queue!Init, Status, Pending
<1>2. ASSUME SoloInv, [Next]_vars PROVE [Queue!Next]_(Queue!vars)
  <2> USE <1>2
  <2>a. TypeOK /\ JobHeld /\ row \in [Work -> Row]
    BY DEF SoloInv, TypeOK, RowTypeOK
  <2> DEFINE Same(v) == Status(v)' = Status(v) /\ row'[v].attempt = row[v].attempt
  <2>1. (\A v \in Work : Same(v)) \/ (\E j \in Work : \A v \in Work \ {j} : Same(v))
    <3>1. CASE \E k \in Sources : ReclaimStale(k)
      <4>1. ASSUME NEW v \in Work PROVE Same(v)
        <5>1. \/ row'[v] = row[v]
              \/ /\ row[v].state = "leased"
                 /\ row'[v] = [row[v] EXCEPT !.state = "ready", !.owner = NoProc]
          BY <3>1 DEF ReclaimStale, Reclaimable
        <5>2. QED BY <5>1, <2>a DEF Row, Status, Pending
      <4>2. QED BY <4>1
    <3>2. CASE UNCHANGED row BY <3>2 DEF Status
    <3>3. CASE StoreStep /\ ~(\E k \in Sources : ReclaimStale(k))
      <4>1. \E j \in Work : \A v \in Work \ {j} : row'[v] = row[v]
        BY <3>3, <2>a
           DEF StoreStep, EnqueueWork, LeaseRow, Heartbeat, CompleteWork,
               DeferRetryable, LeaseLapses, BackoffEnds
      <4>2. QED BY <4>1 DEF Status
    <3>4. QED BY <3>1, <3>2, <3>3, <2>a, StepsAreStatements
  <2>2. CASE \A v \in Work : Same(v)
    BY <2>2 DEF Queue!vars
  <2>3. CASE \E j \in Work : \A v \in Work \ {j} : Same(v)
    <3>1. PICK j \in Work : \A v \in Work \ {j} : Same(v) BY <2>3
    <3>2. /\ status' = [status EXCEPT ![j] = Status(j)']
          /\ tries' = [tries EXCEPT ![j] = row'[j].attempt]
      BY <3>1
    <3>3. status[j] = Status(j) /\ tries[j] = row[j].attempt OBVIOUS
    <3>4. CASE Same(j)
      BY <3>1, <3>4 DEF Queue!vars
    <3>5. CASE ~Same(j)
      <4>1. \/ /\ row[j].state = "absent"
               /\ row'[j].state = "ready" /\ row'[j].attempt = row[j].attempt
            \/ /\ row[j].state = "ready"
               /\ row'[j].state = "leased" /\ row'[j].attempt = row[j].attempt + 1
            \/ /\ row[j].state = "leased"
               /\ row'[j].state \in Finished /\ row'[j].attempt = row[j].attempt
               /\ row[j].attempt > 0
               /\ row'[j].state = "terminal" => row[j].attempt >= MaxAttempts
        BY <3>5, SoloRowStep DEF Status
      <4>2. CASE row[j].state = "absent" /\ row'[j].state = "ready"
                 /\ row'[j].attempt = row[j].attempt
        <5>1. /\ status' = [status EXCEPT ![j] = "open"] /\ tries' = tries
              /\ status[j] = "absent"
          BY <3>2, <3>3, <4>2 DEF Status, Pending
        <5>2. QED BY <5>1 DEF Queue!Next, Queue!Offer
      <4>3. CASE row[j].state = "ready" /\ row'[j].state = "leased"
                 /\ row'[j].attempt = row[j].attempt + 1
        <5>1. /\ status' = status /\ tries' = [tries EXCEPT ![j] = @ + 1]
              /\ status[j] = "open"
          BY <3>2, <3>3, <4>3 DEF Status, Pending
        <5>2. QED BY <5>1 DEF Queue!Next, Queue!Try
      <4>4. CASE /\ row[j].state = "leased"
                 /\ row'[j].state \in Finished /\ row'[j].attempt = row[j].attempt
                 /\ row[j].attempt > 0
                 /\ row'[j].state = "terminal" => row[j].attempt >= MaxAttempts
        <5>1. /\ status' = [status EXCEPT ![j] = row'[j].state] /\ tries' = tries
              /\ status[j] = "open"
          BY <3>2, <3>3, <4>4 DEF Status, Pending, Finished
        <5>2. QED BY <5>1, <4>4, <3>3 DEF Queue!Next, Queue!Settle, Finished
      <4>5. QED BY <4>1, <4>2, <4>3, <4>4
    <3>6. QED BY <3>4, <3>5
  <2>4. QED BY <2>1, <2>2, <2>3
<1>3. QED BY <1>1, <1>2, SoloInvariant, PTL DEF Spec, ImplementsQueue, Queue!Spec
=============================================================================
