---------------------------- MODULE MCScheduler ----------------------------
(* Three work items over two knowledge sources: an invocation of "plan"    *)
(* enqueues "fag", and "odd" is declined by its source.                    *)
EXTENDS Scheduler, TLC

MCWork == {"plan", "fag", "odd"}
MCTwoWork == {"plan", "fag"}
MCSourceOf == [w \in Work |-> IF w = "fag" THEN 2 ELSE 1]
MCRank == [w \in Work |-> CASE w = "fag" -> 1 [] w = "odd" -> 2 [] OTHER -> 3]
MCChildren == [w \in Work |-> IF w = "plan" THEN {"fag"} ELSE {}]
MCIneligible == Work \ MCTwoWork
MCEveryPlace == Places \ {"down"}
MCProcSymmetry == Permutations(Procs)
=============================================================================
