----------------------------- MODULE WorkStore -----------------------------
(***************************************************************************)
(* The work_items table of the SQLite blackboard                           *)
(* (scripts/blackboard/store.py) and the statements the store runs on it.  *)
(*                                                                         *)
(* A row keeps the columns a statement tests.  The two timestamp columns   *)
(* are kept as the outcome of the only comparison made with them:          *)
(* "due" is not_before IS NULL OR not_before <= now, and "lapsed" is       *)
(* lease_deadline_at < now.  Time passing is LeaseLapses and BackoffEnds.  *)
(* Rows are never deleted by the store; "absent" is a work_id with no row. *)
(***************************************************************************)
EXTENDS Naturals

CONSTANTS
  Work,        \* the work_ids
  NumSources,  \* number of registered knowledge sources
  SourceOf,    \* SourceOf[w] is the knowledge_source column of w
  Rank,        \* Rank[w] is w's place in ORDER BY work_id
  Procs,       \* the processes that open the database file
  NoProc       \* leased_by IS NULL

(* A knowledge source is its place in the registration order.              *)
Sources == 1 .. NumSources

ASSUME WorkStoreAssumption ==
  /\ NumSources \in Nat \ {0}
  /\ SourceOf \in [Work -> Sources]
  /\ Rank \in [Work -> Nat]
  /\ NoProc \notin Procs

VARIABLE row

Finished == {"succeeded", "blocked", "terminal"}
Pending  == {"ready", "leased", "retryable"}

Row == [state   : {"absent"} \cup Pending \cup Finished,
        attempt : Nat,
        owner   : Procs \cup {NoProc},   \* leased_by
        closed  : BOOLEAN,               \* completed_at IS NOT NULL
        lapsed  : BOOLEAN,
        due     : BOOLEAN]

RowTypeOK == row \in [Work -> Row]

AbsentRow == [state |-> "absent", attempt |-> 0, owner |-> NoProc,
              closed |-> FALSE, lapsed |-> FALSE, due |-> TRUE]

InitStore == row = [w \in Work |-> AbsentRow]
-----------------------------------------------------------------------------
(* Mutant of EnqueueWork: INSERT OR REPLACE.                               *)
EnqueueReplaces(w) ==
  row' = [row EXCEPT ![w] = [AbsentRow EXCEPT !.state = "ready"]]

(* INSERT OR IGNORE of a fresh item: a second enqueue changes nothing.     *)
EnqueueWork(w) ==
  row' = IF row[w].state = "absent"
         THEN [row EXCEPT ![w].state = "ready"]
         ELSE row

(* claim_work, first statement: leases past their deadline become ready.   *)
Reclaimable(w) ==
  /\ row[w].state = "leased"
  /\ ~row[w].closed
  /\ row[w].owner # NoProc
  /\ row[w].lapsed

(* Mutant of ReclaimStale: the dispatcher leaves lapsed leases alone.      *)
ReclaimNothing(k) ==
  k \in Sources /\ UNCHANGED row

ReclaimStale(k) ==
  row' = [w \in Work |->
            IF SourceOf[w] = k /\ Reclaimable(w)
            THEN [row[w] EXCEPT !.state = "ready", !.owner = NoProc]
            ELSE row[w]]

(* claim_work, second statement: the SELECT that picks the item.           *)
Claimable(k) ==
  {w \in Work : SourceOf[w] = k /\ row[w].state = "ready" /\ row[w].due}

IsFirstOf(w, S) == w \in S /\ \A v \in S : Rank[w] <= Rank[v]

(* Mutant of LeaseRow: the attempt column is not written.                  *)
LeaseRowUncounted(w, p, a) ==
  row' = IF row[w].state = "ready" /\ a > 0
         THEN [row EXCEPT ![w] = [@ EXCEPT !.state = "leased",
                                           !.owner = p, !.lapsed = FALSE]]
         ELSE row

(* claim_work, third statement: UPDATE ... WHERE state = 'ready' with the  *)
(* attempt number computed from the SELECTed row.  The number of rows      *)
(* updated is not looked at.                                               *)
LeaseRow(w, p, a) ==
  row' = IF row[w].state = "ready"
         THEN [row EXCEPT ![w] = [@ EXCEPT !.state = "leased", !.attempt = a,
                                           !.owner = p, !.lapsed = FALSE]]
         ELSE row

(* heartbeat: the deadline of any leased row moves, whoever holds it.      *)
Heartbeat(w) ==
  row' = IF row[w].state = "leased" /\ row[w].owner # NoProc
         THEN [row EXCEPT ![w].lapsed = FALSE]
         ELSE row

(* complete_work: unconditional on the row's state and owner.              *)
CompleteWork(w, s) ==
  row' = [row EXCEPT ![w] = [@ EXCEPT !.state = s, !.closed = TRUE]]

(* Mutants of DeferRetryable: completed_at is not cleared; the deferral    *)
(* starts the attempt count over.                                          *)
DeferKeepsClosed(w) ==
  row' = IF row[w].state = "retryable"
         THEN [row EXCEPT ![w] = [@ EXCEPT !.state = "ready", !.owner = NoProc,
                                           !.due = FALSE]]
         ELSE row

DeferStartsOver(w) ==
  row' = IF row[w].state = "retryable"
         THEN [row EXCEPT ![w] = [AbsentRow EXCEPT !.state = "ready",
                                                   !.due = FALSE]]
         ELSE row

(* defer_retryable_work: back to ready, due only after the backoff.        *)
DeferRetryable(w) ==
  row' = IF row[w].state = "retryable"
         THEN [row EXCEPT ![w] = [@ EXCEPT !.state = "ready", !.owner = NoProc,
                                           !.closed = FALSE, !.due = FALSE]]
         ELSE row

(* The clock passes a row's lease_deadline_at, or its not_before.          *)
LeaseLapses(w) ==
  /\ row[w].state = "leased"
  /\ ~row[w].lapsed
  /\ row' = [row EXCEPT ![w].lapsed = TRUE]

BackoffEnds(w) ==
  /\ ~row[w].due
  /\ row' = [row EXCEPT ![w].due = TRUE]
=============================================================================
