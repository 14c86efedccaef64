--------------------------- MODULE WorkerContract ---------------------------
(***************************************************************************)
(* What the workers of ONE repository (_run_one) do to the two things the   *)
(* runner resumes from: the files that make a repository count as finished  *)
(* (run_produced.json, or run_pytest_results.json), and _result_row.json.   *)
(* Every launch of the runner has at most one worker for the repository;    *)
(* one that has outlived its runner works beside that of a later launch,    *)
(* and is bound by the same contract.  Producer and packet are left out,    *)
(* and nothing is promised about going on.                                  *)
(***************************************************************************)
CONSTANT Workers

VARIABLES
    stage,    \* worker -> where it stands
    row,      \* _result_row.json: "none", "torn" (it does not parse) or "whole"
    marked    \* does one of the two files exist

view == <<stage, row, marked>>

AtWork == {"boot", "cleared", "agent", "emit", "rowing", "tail"}

Init == stage = [w \in Workers |-> "none"] /\ row = "none" /\ marked = FALSE

Moves(w, from, to) == stage[w] = from /\ stage' = [stage EXCEPT ![w] = to]

Take(w) == Moves(w, "none", "boot") /\ UNCHANGED <<row, marked>>

(* A marked repository is never produced again, and a row that is whole is kept. *)
Resume(w) ==
    /\ marked
    /\ Moves(w, "boot", IF row = "whole" THEN "tail" ELSE "emit")
    /\ UNCHANGED <<row, marked>>

(* The check and what relies on it are two steps: a sibling may mark in between. *)
Clear(w) == ~marked /\ Moves(w, "boot", "cleared") /\ UNCHANGED <<row, marked>>

Invoke(w) == Moves(w, "cleared", "agent") /\ UNCHANGED <<row, marked>>

(* Tests that the agent runs may leave their report long before it returns. *)
Report(w) == stage[w] = "agent" /\ marked' = TRUE /\ UNCHANGED <<stage, row>>

Return(w) ==
    /\ Moves(w, "agent", "emit")
    /\ marked' \in {marked, TRUE}
    /\ UNCHANGED row

OpenRow(w) == Moves(w, "emit", "rowing") /\ row' = "torn" /\ UNCHANGED marked

(* The write may fail, and the row then stays as it is. *)
WriteRow(w) ==
    /\ Moves(w, "rowing", "tail")
    /\ row' \in {row, "whole"}
    /\ UNCHANGED marked

(* The hard wall strikes: the parent's timeout row is still to come. *)
Kill(w) ==
    /\ stage[w] \in AtWork
    /\ stage' = [stage EXCEPT ![w] = "killed"]
    /\ UNCHANGED <<row, marked>>

(* The worker is gone, of itself or killed, and its parent may write the row. *)
End(w) ==
    /\ stage[w] \in AtWork \cup {"killed"}
    /\ stage' = [stage EXCEPT ![w] = "dead"]
    /\ row' \in {row, "torn", "whole"}
    /\ UNCHANGED marked

(* The machine goes down and takes all of them. *)
Crash ==
    /\ stage' = [w \in Workers |-> IF stage[w] \in AtWork \cup {"killed"} THEN "dead"
                                   ELSE stage[w]]
    /\ UNCHANGED <<row, marked>>

(* Without a worker that ends, a parent stands in for a row that does not parse, only. *)
StandIn ==
    /\ row # "whole"
    /\ row' \in {"torn", "whole"}
    /\ UNCHANGED <<stage, marked>>

WorkerStep(w) ==
    \/ Take(w) \/ Resume(w) \/ Clear(w) \/ Invoke(w) \/ Report(w) \/ Return(w)
    \/ OpenRow(w) \/ WriteRow(w) \/ Kill(w) \/ End(w)

Next == Crash \/ StandIn \/ \E w \in Workers : WorkerStep(w)

Spec == Init /\ [][Next]_view
=============================================================================
