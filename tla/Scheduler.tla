----------------------------- MODULE Scheduler -----------------------------
(***************************************************************************)
(* The event loop of scripts/blackboard/scheduler.py over the work table:  *)
(* BlackboardScheduler.run and _dispatch_one, with one action for each     *)
(* statement or transaction that other processes, a crash or the clock can *)
(* fall between.                                                           *)
(*                                                                         *)
(* pc[p] is where process p is:                                            *)
(*   "down"     not running                                                *)
(*   "idle"     running, outside run()                                     *)
(*   "reclaim"  about to call claim_work for source pos[p]                 *)
(*   "select"   in claim_work, after the reclaim UPDATE                    *)
(*   "commit"   in claim_work, with job[p] SELECTed at attempt count       *)
(*              att[p]                                                     *)
(*   "leased"   claim_work returned job[p]; heartbeating while it invokes  *)
(*   "defer"    between complete_work(RETRYABLE) and defer_retryable_work  *)
(*                                                                         *)
(* raised, lost and claims are history variables: how many invocations of  *)
(* a work item raised, how many claims of it died with their process, and  *)
(* how often claim_work returned it.                                       *)
(***************************************************************************)
EXTENDS WorkStore, FiniteSets

CONSTANTS
  Children,     \* Children[w] is the work an invocation of w enqueues
  Ineligible,   \* work its knowledge source declines (eligible() is false)
  NoJob,
  MaxAttempts,  \* the scheduler's max_attempts
  AttemptCap,   \* bound: a row claimed this often no longer lapses
  CrashAt,      \* the places a process may die at
  MaxFaults     \* bound: crashes and failed claim transactions together

Places == {"down", "idle", "reclaim", "select", "commit", "leased", "defer"}

ASSUME SchedulerAssumption ==
  /\ Children \in [Work -> SUBSET Work]
  /\ Ineligible \subseteq Work
  /\ NoJob \notin Work
  /\ MaxAttempts \in Nat \ {0}
  /\ AttemptCap \in Nat
  /\ CrashAt \subseteq Places \ {"down"}
  /\ MaxFaults \in Nat

VARIABLES pc, pos, job, att, raised, lost, claims, faults

procVars == <<pc, pos, job, att>>
histVars == <<raised, lost, claims, faults>>
vars == <<row, procVars, histVars>>

(* Work that no invocation enqueues: the driver enqueues it before run().  *)
Roots == {w \in Work : \A v \in Work : w \notin Children[v]}

Init ==
  /\ InitStore
  /\ pc  = [p \in Procs |-> "idle"]
  /\ pos = [p \in Procs |-> 1]
  /\ job = [p \in Procs |-> NoJob]
  /\ att = [p \in Procs |-> 0]
  /\ raised = [w \in Work |-> 0]
  /\ lost   = [w \in Work |-> 0]
  /\ claims = [w \in Work |-> 0]
  /\ faults = 0
-----------------------------------------------------------------------------
Goto(p, place) == pc' = [pc EXCEPT ![p] = place]

(* Back to the first source: _dispatch_one returned True.                  *)
DispatchAgain(p) ==
  /\ Goto(p, "reclaim")
  /\ pos' = [pos EXCEPT ![p] = 1]
  /\ job' = [job EXCEPT ![p] = NoJob]
  /\ att' = [att EXCEPT ![p] = 0]

(* A mutant: round again after the last source, never out.                 *)
NextSourceForever(p) ==
  /\ Goto(p, "reclaim")
  /\ pos' = [pos EXCEPT ![p] = IF @ = NumSources THEN 1 ELSE @ + 1]
  /\ job' = [job EXCEPT ![p] = NoJob]
  /\ att' = [att EXCEPT ![p] = 0]

(* On to the next source, or out of run() when this was the last.          *)
NextSource(p) ==
  /\ IF pos[p] = NumSources
     THEN Goto(p, "idle") /\ pos' = [pos EXCEPT ![p] = 1]
     ELSE Goto(p, "reclaim") /\ pos' = [pos EXCEPT ![p] = @ + 1]
  /\ job' = [job EXCEPT ![p] = NoJob]
  /\ att' = [att EXCEPT ![p] = 0]

Submit(p, w) ==
  /\ pc[p] = "idle"
  /\ w \in Roots
  /\ EnqueueWork(w)
  /\ UNCHANGED <<procVars, histVars>>

StartRun(p) ==
  /\ pc[p] = "idle"
  /\ DispatchAgain(p)
  /\ UNCHANGED <<row, histVars>>

ClaimReclaim(p) ==
  /\ pc[p] = "reclaim"
  /\ ReclaimStale(pos[p])
  /\ Goto(p, "select")
  /\ UNCHANGED <<pos, job, att, histVars>>

ClaimSelect(p) ==
  /\ pc[p] = "select"
  /\ \/ /\ Claimable(pos[p]) = {}
        /\ NextSource(p)
     \/ \E w \in Work :
          /\ IsFirstOf(w, Claimable(pos[p]))
          /\ job' = [job EXCEPT ![p] = w]
          /\ att' = [att EXCEPT ![p] = row[w].attempt]
          /\ Goto(p, "commit")
          /\ UNCHANGED pos
  /\ UNCHANGED <<row, histVars>>

ClaimCommit(p) ==
  /\ pc[p] = "commit"
  /\ LeaseRow(job[p], p, att[p] + 1)
  /\ att' = [att EXCEPT ![p] = @ + 1]
  /\ claims' = [claims EXCEPT ![job[p]] = @ + 1]
  /\ Goto(p, "leased")
  /\ UNCHANGED <<pos, job, raised, lost, faults>>

(* The claim transaction fails and is rolled back: claim_work gives None.  *)
ClaimAborts(p) ==
  /\ pc[p] = "commit"
  /\ faults < MaxFaults
  /\ faults' = faults + 1
  /\ NextSource(p)
  /\ UNCHANGED <<row, raised, lost, claims>>

Decline(p) ==
  /\ pc[p] = "leased"
  /\ job[p] \in Ineligible
  /\ CompleteWork(job[p], "blocked")
  /\ NextSource(p)
  /\ UNCHANGED histVars
-----------------------------------------------------------------------------
Invoking(p) == pc[p] = "leased" /\ job[p] \notin Ineligible

InvokeEnqueues(p) ==
  /\ Invoking(p)
  /\ \E w \in Children[job[p]] : EnqueueWork(w)
  /\ UNCHANGED <<procVars, histVars>>

HeartbeatTick(p) ==
  /\ Invoking(p)
  /\ row[job[p]].lapsed
  /\ Heartbeat(job[p])
  /\ UNCHANGED <<procVars, histVars>>

InvokeReturns(p) ==
  /\ Invoking(p)
  /\ \A w \in Children[job[p]] : row[w].state # "absent"
  /\ CompleteWork(job[p], "succeeded")
  /\ DispatchAgain(p)
  /\ UNCHANGED histVars

(* Mutants of InvokeRaises: the failed attempt itself is not counted; the  *)
(* budget is one short; the deferral is forgotten.                         *)
RaisesWithBudget(p, budget, next) ==
  /\ Invoking(p)
  /\ raised' = [raised EXCEPT ![job[p]] = @ + 1]
  /\ \/ /\ att[p] >= budget
        /\ CompleteWork(job[p], "terminal")
        /\ DispatchAgain(p)
     \/ /\ att[p] < budget
        /\ CompleteWork(job[p], "retryable")
        /\ \/ next = "defer" /\ Goto(p, "defer") /\ UNCHANGED <<pos, job, att>>
           \/ next = "reclaim" /\ DispatchAgain(p)
  /\ UNCHANGED <<lost, claims, faults>>

RaisesOneTooMany(p) == RaisesWithBudget(p, MaxAttempts + 1, "defer")
RaisesOneTooFew(p) == RaisesWithBudget(p, MaxAttempts - 1, "defer")
RaisesUndeferred(p) == RaisesWithBudget(p, MaxAttempts, "reclaim")

InvokeRaises(p) ==
  /\ Invoking(p)
  /\ raised' = [raised EXCEPT ![job[p]] = @ + 1]
  /\ \/ /\ att[p] >= MaxAttempts
        /\ CompleteWork(job[p], "terminal")
        /\ DispatchAgain(p)
     \/ /\ att[p] < MaxAttempts
        /\ CompleteWork(job[p], "retryable")
        /\ Goto(p, "defer")
        /\ UNCHANGED <<pos, job, att>>
  /\ UNCHANGED <<lost, claims, faults>>

Defer(p) ==
  /\ pc[p] = "defer"
  /\ DeferRetryable(job[p])
  /\ DispatchAgain(p)
  /\ UNCHANGED histVars
-----------------------------------------------------------------------------
(* The process dies: what it held in memory is gone, the rows stay.        *)
Crash(p) ==
  /\ pc[p] \in CrashAt
  /\ faults < MaxFaults
  /\ faults' = faults + 1
  /\ lost' = IF pc[p] = "leased" THEN [lost EXCEPT ![job[p]] = @ + 1] ELSE lost
  /\ Goto(p, "down")
  /\ pos' = [pos EXCEPT ![p] = 1]
  /\ job' = [job EXCEPT ![p] = NoJob]
  /\ att' = [att EXCEPT ![p] = 0]
  /\ UNCHANGED <<row, raised, claims>>

Restart(p) ==
  /\ pc[p] = "down"
  /\ Goto(p, "idle")
  /\ UNCHANGED <<row, pos, job, att, histVars>>

ClockStep(w) ==
  /\ \/ row[w].attempt < AttemptCap /\ LeaseLapses(w)
     \/ BackoffEnds(w)
  /\ UNCHANGED <<procVars, histVars>>

(* What a process inside run() does next, barring crashes and disk errors. *)
RunStep(p) ==
  \/ ClaimReclaim(p) \/ ClaimSelect(p) \/ ClaimCommit(p) \/ Decline(p)
  \/ InvokeEnqueues(p) \/ InvokeReturns(p) \/ InvokeRaises(p) \/ Defer(p)

Next ==
  \/ \E p \in Procs :
       \/ \E w \in Work : Submit(p, w)
       \/ StartRun(p)
       \/ RunStep(p)
       \/ ClaimAborts(p)
       \/ HeartbeatTick(p)
       \/ Crash(p)
       \/ Restart(p)
  \/ \E w \in Work : ClockStep(w)

Spec == Init /\ [][Next]_vars
-----------------------------------------------------------------------------
(* A process inside run() keeps stepping: the loop has no other wait.      *)
RunFairness == \A p \in Procs : WF_vars(RunStep(p))

(* The operator starts the program again and calls run() again, as the     *)
(* resume procedure asks; the clock does not stop.                         *)
OperatorFairness ==
  /\ \A p \in Procs : WF_vars(StartRun(p)) /\ WF_vars(Restart(p))
  /\ \A w \in Work : WF_vars(ClockStep(w))

RunSpec   == Spec /\ RunFairness
RerunSpec == Spec /\ RunFairness /\ OperatorFairness
-----------------------------------------------------------------------------
(* Every variable keeps its type; the position stays among the registered  *)
(* sources (the for loop of _dispatch_one).                                *)
TypeOK ==
  /\ RowTypeOK
  /\ pc  \in [Procs -> Places]
  /\ pos \in [Procs -> Sources]
  /\ job \in [Procs -> Work \cup {NoJob}]
  /\ att \in [Procs -> Nat]
  /\ raised \in [Work -> Nat]
  /\ lost   \in [Work -> Nat]
  /\ claims \in [Work -> Nat]
  /\ faults \in 0 .. MaxFaults

Holds(p, w) == pc[p] = "leased" /\ job[p] = w

(* The columns the reclaim UPDATE tests never disagree with the state      *)
(* column: no statement leaves a leased row without an owner, or a row     *)
(* still to be done marked complete.  Such a row would be passed over by   *)
(* every later claim_work.                                                 *)
NoRowOutOfReach ==
  \A w \in Work :
    /\ row[w].state \in {"absent", "ready", "leased"} => ~row[w].closed
    /\ row[w].state = "leased" => row[w].owner # NoProc

(* RETRYABLE is a moment inside _dispatch_one: claim_work does not select  *)
(* it.  An item left there by a process that died between its two          *)
(* transactions (scheduler.py 204, 207) is out of every later claim; each  *)
(* death and failed transaction costs one item at most, whoever else works *)
(* on the table.                                                           *)
Deferring(w) == \E p \in Procs : pc[p] = "defer" /\ job[p] = w
Stranded(w) == row[w].state = "retryable" /\ ~Deferring(w)

EachDeathStrandsOne == Cardinality({w \in Work : Stranded(w)}) <= faults

(* The attempt number of a claim is that of the row as it was SELECTed, and *)
(* another process may have tried the item since: the column can fall, but *)
(* it never says more than was tried, and no item is given up before it was*)
(* claimed max_attempts times.                                             *)
NoneGivenUpEarly ==
  \A w \in Work :
    /\ row[w].attempt <= claims[w]
    /\ row[w].state = "terminal" => claims[w] >= MaxAttempts

(* No attempt is unaccounted for: through failures, backoffs, crashes and  *)
(* reclaims the attempt column is exactly what happened to the item.       *)
Held(w) == \E p \in Procs : Holds(p, w)
Answered(w) == row[w].state \in {"succeeded", "blocked"}
OneIf(b) == IF b THEN 1 ELSE 0

AttemptLedger ==
  \A w \in Work :
    row[w].attempt = raised[w] + lost[w] + OneIf(Answered(w)) + OneIf(Held(w))

(* An item whose invocations raise is retried at most max_attempts times   *)
(* however crashes and reclaims fall between its failures, and is given up *)
(* exactly at the failure that reaches the budget.                         *)
RetryBudget ==
  \A w \in Work :
    /\ raised[w] <= MaxAttempts
    /\ raised[w] = MaxAttempts => row[w].state = "terminal"
    /\ row[w].state = "terminal" => raised[w] + lost[w] >= MaxAttempts

(* An item that ended stays ended, as it ended, at its attempt count: no   *)
(* second enqueue, late heartbeat, reclaim, deferral or completion of it   *)
(* opens it again or turns one ending into another.                        *)
FinishedIsFinal ==
  [][\A w \in Work :
       row[w].state \in Finished =>
         row'[w].state = row[w].state /\ row'[w].attempt = row[w].attempt]_vars

(* The scheduler over the store implements the work queue's promise.       *)
Status(w) == IF row[w].state \in Pending THEN "open" ELSE row[w].state

Queue == INSTANCE WorkLifecycle WITH
           Budget <- MaxAttempts,
           status <- [w \in Work |-> Status(w)],
           tries  <- [w \in Work |-> row[w].attempt]

ImplementsQueue == Queue!Spec

(* run() gives the loop back: retries are counted and backed off, so a     *)
(* process inside run() comes out of it (or dies).                         *)
RunReturns == \A p \in Procs : pc[p] \notin {"idle", "down"} ~> pc[p] \in {"idle", "down"}

(* If the program is run again for as long as there is work, every item    *)
(* ends, except one whose process died between RETRYABLE and its deferral. *)
EveryItemEnds ==
  \A w \in Work :
    row[w].state \in Pending ~> row[w].state \in Finished \/ Stranded(w)

(* docs/agents/diagrams.md 390: what is RETRYABLE is leased again when its *)
(* backoff has ended.                                                      *)
RetriesComeBack ==
  \A w \in Work : row[w].state = "retryable" ~> row[w].state # "retryable"

(* CONTEXT.md 274: one knowledge source at a time claims each work item.   *)
OneHolder ==
  \A w \in Work : \A p, q \in Procs : Holds(p, w) /\ Holds(q, w) => p = q

(* CONTEXT.md L12: cancelled leases count as attempts and three of them    *)
(* end the item instead of looping.                                        *)
AttemptsAreBounded == \A w \in Work : row[w].attempt <= MaxAttempts
=============================================================================
