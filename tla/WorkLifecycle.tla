--------------------------- MODULE WorkLifecycle ---------------------------
(***************************************************************************)
(* What the work queue promises about one work item, whatever the store    *)
(* and the scheduler do inside: the item is offered once, tried some       *)
(* number of times, and settled once and for good; it is given up only     *)
(* when its tries have used up the budget, and declined or done only       *)
(* after it was tried.                                                     *)
(***************************************************************************)
EXTENDS Naturals

CONSTANTS Work, Budget

VARIABLES status, tries

vars == <<status, tries>>

Init ==
  /\ status = [w \in Work |-> "absent"]
  /\ tries  = [w \in Work |-> 0]

Offer(w) ==
  /\ status[w] = "absent"
  /\ status' = [status EXCEPT ![w] = "open"]
  /\ UNCHANGED tries

Try(w) ==
  /\ status[w] = "open"
  /\ tries' = [tries EXCEPT ![w] = @ + 1]
  /\ UNCHANGED status

Settle(w, s) ==
  /\ status[w] = "open"
  /\ tries[w] > 0
  /\ s = "terminal" => tries[w] >= Budget
  /\ status' = [status EXCEPT ![w] = s]
  /\ UNCHANGED tries

Next ==
  \E w \in Work :
    \/ Offer(w)
    \/ Try(w)
    \/ \E s \in {"succeeded", "blocked", "terminal"} : Settle(w, s)

Spec == Init /\ [][Next]_vars
=============================================================================
