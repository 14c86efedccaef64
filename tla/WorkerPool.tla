----------------------------- MODULE WorkerPool -----------------------------
(***************************************************************************)
(* What scheduler() promises about a batch, with the threads, the child     *)
(* processes and the disk left out: jobs start in the order of the list,    *)
(* each once per launch, and at most Size are active at any moment. Nothing *)
(* is promised about starting a job at all.                                 *)
(***************************************************************************)
EXTENDS Naturals, Sequences, FiniteSets

CONSTANTS Jobs, JobList, Size

VARIABLES
    queue,   \* jobs that have not started, in order
    active   \* jobs started and not yet retired

Init == queue = JobList /\ active = {}

Start ==
    /\ queue # <<>>
    /\ Cardinality(active) < Size
    /\ Head(queue) \notin active
    /\ queue' = Tail(queue)
    /\ active' = active \cup {Head(queue)}

Retire(j) ==
    /\ j \in active
    /\ active' = active \ {j}
    /\ UNCHANGED queue

Restart == queue' = JobList /\ active' = {}

Next == Start \/ (\E j \in Jobs : Retire(j)) \/ Restart

Spec == Init /\ [][Next]_<<queue, active>>

(* Never more than Size jobs are active. *)
Bounded == IsFiniteSet(active) /\ Cardinality(active) <= Size

(* The jobs that have been started are the first of the list, and every one *)
(* that is active is among them: none is passed over, none started twice.   *)
InListOrder ==
    \E k \in 0..Len(JobList) :
        /\ queue = SubSeq(JobList, k + 1, Len(JobList))
        /\ active \subseteq {JobList[i] : i \in 1..k}

=============================================================================
