------------------------------- MODULE FanOut -------------------------------
(***************************************************************************)
(* The parallel lane of the runner: scheduler() keeps at most Concurrency   *)
(* repositories in flight, one pool thread (_run_child) and one child       *)
(* process (--only, _run_one) per repository, gated on free disk space.     *)
(* The only state that outlives the runner is on disk: one _result_row.json *)
(* per repository and the files that mark it as finished (run_produced.json *)
(* of a produced packet, run_pytest_results.json of an agent's own tests).  *)
(* A relaunch starts the whole scheduler again over that disk.              *)
(*                                                                          *)
(* Bounds: MaxRuns launches of the runner over one output directory, the    *)
(* RefillTries polls of the drain loop (10 in the code).                    *)
(***************************************************************************)
EXTENDS Integers, Sequences, FiniteSets

CONSTANTS
    Repos,           \* the repositories of the selection
    RepoList,        \* ... in the order of the dataset file
    Concurrency,     \* --concurrency
    RefillTries,     \* attempts of the drain loop to refill one freed slot
    DiskStates,      \* the disk conditions the machine can meet
    MaxRuns,         \* launches of the runner over the same output directory
    Crashes          \* what may end a launch: the "runner" is killed, the "machine" goes down

ASSUME ListAssumption ==
    /\ RepoList \in Seq(Repos)
    /\ \A i, j \in DOMAIN RepoList : RepoList[i] = RepoList[j] => i = j
    /\ \A r \in Repos : \E i \in DOMAIN RepoList : RepoList[i] = r
ASSUME BoundAssumption ==
    /\ Concurrency \in Nat \ {0}
    /\ RefillTries \in Nat \ {0}
    /\ MaxRuns \in Nat \ {0}
    /\ Crashes # {} /\ Crashes \subseteq {"machine", "runner"}
ASSUME DiskAssumption == "ok" \in DiskStates /\ DiskStates \subseteq {"ok", "low", "full"}

VARIABLES
    disk,      \* "ok": above the gate; "low": below it; "full": writes fail
    row,       \* repo -> what _result_row.json holds
    marker,    \* repo -> does run_produced.json or run_pytest_results.json exist
    run,       \* the number of this launch of the runner
    orphaned,  \* history: has a child outlived its runner?
    pc,        \* where scheduler() stands
    pending,   \* repositories not yet submitted
    launched,  \* children submitted by the fill loop
    futures,   \* futures_map: submitted and not yet popped
    batch,     \* what wait() returned and the for loop has not visited
    tries,     \* refill attempts left for the slot just freed
    thread,    \* repo -> where its _run_child stands
    child,     \* repo -> launch -> where the child process stands
    tally,     \* the rows aggregate() could read
    gaveUp,    \* history: slots whose refill ran out of attempts, this launch
    agents,    \* history: repo -> how often its agent was invoked
    unwritten  \* history: repos whose last row write failed on a full disk

schedVars   == <<pc, pending, launched, futures, batch, tries, gaveUp>>
diskVars    == <<row, marker, unwritten>>
vars == <<disk, diskVars, run, orphaned, schedVars, thread, child, tally, agents>>

Rows     == {"none", "torn", "result", "timeout", "error"}
Stages   == {"none", "boot", "cleared", "agent", "emit", "rowing", "tail", "dead"}
Live     == {"boot", "cleared", "agent", "emit", "rowing", "tail"}
Launches == 1..MaxRuns

(* json.load succeeds *)
Readable(r) == row[r] \in {"result", "timeout", "error"}

TypeOK ==
    /\ disk \in DiskStates
    /\ row \in [Repos -> Rows]
    /\ marker \in [Repos -> BOOLEAN]
    /\ run \in Launches
    /\ orphaned \in BOOLEAN
    /\ pc \in {"fill", "wait", "reap", "refill", "drained", "over"}
    /\ pending \in Seq(Repos)
    /\ launched \in 0..Concurrency
    /\ futures \in SUBSET Repos
    /\ batch \in SUBSET futures
    /\ tries \in 0..RefillTries
    /\ thread \in [Repos -> {"idle", "start", "wait", "done"}]
    /\ child \in [Repos -> [Launches -> Stages]]
    /\ tally \in SUBSET Repos
    /\ gaveUp \in Nat
    /\ agents \in [Repos -> Nat]
    /\ unwritten \in SUBSET Repos

Init ==
    /\ disk \in DiskStates
    /\ row = [r \in Repos |-> "none"]
    /\ marker = [r \in Repos |-> FALSE]
    /\ run = 1
    /\ orphaned = FALSE
    /\ pc = "fill"
    /\ pending = RepoList
    /\ launched = 0
    /\ futures = {}
    /\ batch = {}
    /\ tries = 0
    /\ thread = [r \in Repos |-> "idle"]
    /\ child = [r \in Repos |-> [g \in Launches |-> "none"]]
    /\ tally = {}
    /\ gaveUp = 0
    /\ agents = [r \in Repos |-> 0]
    /\ unwritten = {}

-----------------------------------------------------------------------------
(* scheduler(): the main thread *)

(* Mutant: pending.pop() for pending.pop(0). *)
SubmitLast ==
    /\ pending # <<>>
    /\ disk = "ok"
    /\ pending' = SubSeq(pending, 1, Len(pending) - 1)
    /\ futures' = futures \cup {pending[Len(pending)]}
    /\ thread' = [thread EXCEPT ![pending[Len(pending)]] = "start"]

(* _submit_next() when it returns True *)
Submit ==
    /\ pending # <<>>
    /\ disk = "ok"
    /\ pending' = Tail(pending)
    /\ futures' = futures \cup {Head(pending)}
    /\ thread' = [thread EXCEPT ![Head(pending)] = "start"]

(* Mutant: the comparison of the fill loop is off by one. *)
FillOneTooMany ==
    /\ pc = "fill"
    /\ launched <= Concurrency
    /\ Submit
    /\ launched' = launched + 1
    /\ UNCHANGED <<disk, diskVars, run, orphaned, pc, batch, tries, gaveUp, child, tally, agents>>

(* One launch of the fill loop; below the gate it sleeps and polls again. *)
Fill ==
    /\ pc = "fill"
    /\ launched < Concurrency
    /\ Submit
    /\ launched' = launched + 1
    /\ UNCHANGED <<disk, diskVars, run, orphaned, pc, batch, tries, gaveUp, child, tally, agents>>

FillDone ==
    /\ pc = "fill"
    /\ launched = Concurrency \/ pending = <<>>
    /\ pc' = "wait"
    /\ UNCHANGED <<disk, diskVars, run, orphaned, pending, launched, futures, batch, tries, gaveUp,
                   thread, child, tally, agents>>

(* wait(FIRST_COMPLETED) returns every future done by then *)
WaitDone ==
    /\ pc = "wait"
    /\ batch' = {r \in futures : thread[r] = "done"}
    /\ batch' # {}
    /\ pc' = "reap"
    /\ UNCHANGED <<disk, diskVars, run, orphaned, pending, launched, futures, tries, gaveUp,
                   thread, child, tally, agents>>

(* Mutant: a slot is refilled only when the last future of a batch is popped. *)
ReapRefillAtEnd(r) ==
    /\ pc = "reap"
    /\ r \in batch
    /\ futures' = futures \ {r}
    /\ batch' = batch \ {r}
    /\ IF pending # <<>> /\ batch' = {}
       THEN pc' = "refill" /\ tries' = RefillTries
       ELSE UNCHANGED <<pc, tries>>
    /\ UNCHANGED <<disk, diskVars, run, orphaned, pending, launched, gaveUp, thread,
                   child, tally, agents>>

(* One turn of the for loop: pop the future, then try to refill its slot. *)
Reap(r) ==
    /\ pc = "reap"
    /\ r \in batch
    /\ futures' = futures \ {r}
    /\ batch' = batch \ {r}
    /\ IF pending # <<>>
       THEN pc' = "refill" /\ tries' = RefillTries
       ELSE UNCHANGED <<pc, tries>>
    /\ UNCHANGED <<disk, diskVars, run, orphaned, pending, launched, gaveUp, thread,
                   child, tally, agents>>

Refill ==
    /\ pc = "refill"
    /\ Submit
    /\ pc' = "reap"
    /\ tries' = 0
    /\ UNCHANGED <<disk, diskVars, run, orphaned, launched, batch, gaveUp, child, tally, agents>>

(* Mutant: the attempts are never exhausted because the bound is tested after 0. *)
RefillHeldPastZero ==
    /\ pc = "refill"
    /\ disk # "ok"
    /\ tries' = tries - 1
    /\ IF tries = 0
       THEN pc' = "reap" /\ gaveUp' = gaveUp + 1
       ELSE UNCHANGED <<pc, gaveUp>>
    /\ UNCHANGED <<disk, diskVars, run, orphaned, pending, launched, futures, batch, thread, child,
                   tally, agents>>

(* The gate holds the launch; after the last attempt the loop moves on. *)
RefillHeld ==
    /\ pc = "refill"
    /\ disk # "ok"
    /\ tries' = tries - 1
    /\ IF tries = 1
       THEN pc' = "reap" /\ gaveUp' = gaveUp + 1
       ELSE UNCHANGED <<pc, gaveUp>>
    /\ UNCHANGED <<disk, diskVars, run, orphaned, pending, launched, futures, batch, thread, child,
                   tally, agents>>

BatchDone ==
    /\ pc = "reap"
    /\ batch = {}
    /\ pc' = "wait"
    /\ UNCHANGED <<disk, diskVars, run, orphaned, pending, launched, futures, batch, tries, gaveUp,
                   thread, child, tally, agents>>

(* while futures_map: the drain loop ends when nothing is in flight *)
Drained ==
    /\ pc = "wait"
    /\ futures = {}
    /\ pc' = "drained"
    /\ UNCHANGED <<disk, diskVars, run, orphaned, pending, launched, futures, batch, tries, gaveUp,
                   thread, child, tally, agents>>

(* aggregate(): an unreadable row is skipped with a warning *)
Aggregate ==
    /\ pc = "drained"
    /\ tally' = {r \in Repos : Readable(r)}
    /\ pc' = "over"
    /\ UNCHANGED <<disk, diskVars, run, orphaned, pending, launched, futures, batch, tries, gaveUp,
                   thread, child, agents>>

-----------------------------------------------------------------------------
(* _run_child(r): the pool thread *)

(* _synthesize_timeout_row and _synthesize_error_row: open("w") truncates,   *)
(* and the exception of a full disk is swallowed.                            *)
Synthesize(r, status) ==
    /\ row' = [row EXCEPT ![r] = IF disk = "full" THEN "torn" ELSE status]
    /\ unwritten' = IF disk = "full" THEN unwritten \cup {r} ELSE unwritten \ {r}
    /\ UNCHANGED marker

ThreadDone(r) == thread' = [thread EXCEPT ![r] = "done"]
SetChild(r, g, stage) == child' = [child EXCEPT ![r][g] = stage]

(* Resume: the row exists and parses. *)
SkipSettled(r) ==
    /\ thread[r] = "start"
    /\ Readable(r)
    /\ ThreadDone(r)
    /\ UNCHANGED <<disk, diskVars, run, orphaned, schedVars, child, tally, agents>>

(* Mutant: the resume check is gone. *)
SpawnAlways(r) ==
    /\ thread[r] = "start"
    /\ thread' = [thread EXCEPT ![r] = "wait"]
    /\ SetChild(r, run, "boot")
    /\ UNCHANGED <<disk, diskVars, run, orphaned, schedVars, tally, agents>>

Spawn(r) ==
    /\ thread[r] = "start"
    /\ ~Readable(r)
    /\ thread' = [thread EXCEPT ![r] = "wait"]
    /\ SetChild(r, run, "boot")
    /\ UNCHANGED <<disk, diskVars, run, orphaned, schedVars, tally, agents>>

(* open(log) or Popen raised *)
SpawnFails(r) ==
    /\ thread[r] = "start"
    /\ ~Readable(r)
    /\ Synthesize(r, "error")
    /\ ThreadDone(r)
    /\ UNCHANGED <<disk, run, orphaned, schedVars, child, tally, agents>>

(* Mutant: proc.wait() without the hard wall. *)
WaitForever(r) == thread[r] = "none" /\ UNCHANGED vars

(* Mutant: the killed child is not given a timeout row. *)
HardKillWithoutRow(r) ==
    /\ thread[r] = "wait"
    /\ child[r][run] \in Live
    /\ SetChild(r, run, "dead")
    /\ ThreadDone(r)
    /\ UNCHANGED <<disk, diskVars, run, orphaned, schedVars, tally, agents>>

(* proc.wait(hard_wall) expired: killpg, reap, overwrite the row *)
HardKill(r) ==
    /\ thread[r] = "wait"
    /\ child[r][run] \in Live
    /\ SetChild(r, run, "dead")
    /\ Synthesize(r, "timeout")
    /\ ThreadDone(r)
    /\ UNCHANGED <<disk, run, orphaned, schedVars, tally, agents>>

(* Mutant: a child that left no row, or half of one, gets none. *)
CollectAsIs(r) ==
    /\ thread[r] = "wait"
    /\ child[r][run] = "dead"
    /\ ThreadDone(r)
    /\ UNCHANGED <<disk, diskVars, run, orphaned, schedVars, child, tally, agents>>

(* The child exited: keep the row it left, or write an error row. *)
Collect(r) ==
    /\ thread[r] = "wait"
    /\ child[r][run] = "dead"
    /\ IF Readable(r) THEN UNCHANGED diskVars ELSE Synthesize(r, "error")
    /\ ThreadDone(r)
    /\ UNCHANGED <<disk, run, orphaned, schedVars, child, tally, agents>>

-----------------------------------------------------------------------------
(* worker_main / _run_one(r): the child process of launch g *)

(* Mutant: the check looks for the row alone, as before run_produced.json. *)
BootWithoutMarker(r, g) ==
    /\ child[r][g] = "boot"
    /\ SetChild(r, g, IF Readable(r) THEN "dead" ELSE "cleared")
    /\ UNCHANGED <<disk, diskVars, run, orphaned, schedVars, thread, tally, agents>>

(* Resume check of _run_one: either file makes it skip the agent. *)
Boot(r, g) ==
    /\ child[r][g] = "boot"
    /\ SetChild(r, g, IF ~marker[r] THEN "cleared" ELSE IF Readable(r) THEN "dead" ELSE "emit")
    /\ UNCHANGED <<disk, diskVars, run, orphaned, schedVars, thread, tally, agents>>

(* model.predict(), some time after the check *)
Invoke(r, g) ==
    /\ child[r][g] = "cleared"
    /\ SetChild(r, g, "agent")
    /\ agents' = [agents EXCEPT ![r] = @ + 1]
    /\ UNCHANGED <<disk, diskVars, run, orphaned, schedVars, thread, tally>>

(* Tests run by the agent leave run_pytest_results.json before it returns. *)
AgentReports(r, g) ==
    /\ child[r][g] = "agent"
    /\ ~marker[r]
    /\ marker' = [marker EXCEPT ![r] = TRUE]
    /\ UNCHANGED <<disk, row, unwritten, run, orphaned, schedVars, thread, child, tally, agents>>

(* predict(): a produced packet leaves run_produced.json, a failed one does not *)
AgentReturns(r, g) ==
    /\ child[r][g] = "agent"
    /\ SetChild(r, g, "emit")
    /\ \E produced \in BOOLEAN : marker' = [marker EXCEPT ![r] = @ \/ produced]
    /\ UNCHANGED <<disk, row, unwritten, run, orphaned, schedVars, thread, tally, agents>>

(* open(row_path, "w") empties the file before json.dump fills it *)
OpenRow(r, g) ==
    /\ child[r][g] = "emit"
    /\ SetChild(r, g, "rowing")
    /\ row' = [row EXCEPT ![r] = "torn"]
    /\ UNCHANGED <<disk, marker, unwritten, run, orphaned, schedVars, thread, tally, agents>>

WriteRow(r, g) ==
    /\ child[r][g] = "rowing"
    /\ SetChild(r, g, "tail")
    /\ IF disk = "full"
       THEN unwritten' = unwritten \cup {r} /\ UNCHANGED row
       ELSE unwritten' = unwritten \ {r} /\ row' = [row EXCEPT ![r] = "result"]
    /\ UNCHANGED <<disk, marker, run, orphaned, schedVars, thread, tally, agents>>

(* Return, or die of an uncaught exception or the OOM killer, at any point. *)
ChildExits(r, g) ==
    /\ child[r][g] \in Live
    /\ SetChild(r, g, "dead")
    /\ UNCHANGED <<disk, diskVars, run, orphaned, schedVars, thread, tally, agents>>

-----------------------------------------------------------------------------
(* The machine *)

DiskChanges ==
    /\ disk' \in DiskStates \ {disk}
    /\ UNCHANGED <<diskVars, run, orphaned, schedVars, thread, child, tally, agents>>

(* The runner is killed or has ended, or the machine goes down, and the       *)
(* runner is launched again over the same directory. Children have a session *)
(* of their own: they outlive the runner, and only the machine takes them.    *)
Relaunch ==
    /\ run < MaxRuns
    /\ run' = run + 1
    /\ pc' = "fill"
    /\ pending' = RepoList
    /\ launched' = 0
    /\ futures' = {}
    /\ batch' = {}
    /\ tries' = 0
    /\ gaveUp' = 0
    /\ thread' = [r \in Repos |-> "idle"]
    /\ tally' = {}
    /\ \/ /\ "runner" \in Crashes
          /\ child' = child
          /\ orphaned' = (orphaned \/ \E r \in Repos : child[r][run] \in Live)
       \/ /\ "machine" \in Crashes
          /\ child' = [r \in Repos |-> [g \in Launches |->
                          IF child[r][g] \in Live THEN "dead" ELSE child[r][g]]]
          /\ UNCHANGED orphaned
    /\ UNCHANGED <<disk, diskVars, agents>>

Terminating == pc = "over" /\ UNCHANGED vars

SchedulerStep ==
    \/ Fill \/ FillDone \/ WaitDone \/ Refill \/ RefillHeld \/ BatchDone \/ Drained \/ Aggregate
    \/ \E r \in Repos : Reap(r)
ThreadStep(r) ==
    SkipSettled(r) \/ Spawn(r) \/ SpawnFails(r) \/ HardKill(r) \/ Collect(r)
ChildStep(r, g) ==
    \/ Boot(r, g) \/ Invoke(r, g) \/ AgentReports(r, g) \/ AgentReturns(r, g)
    \/ OpenRow(r, g) \/ WriteRow(r, g) \/ ChildExits(r, g)

Next ==
    \/ SchedulerStep
    \/ \E r \in Repos : ThreadStep(r)
    \/ \E r \in Repos, g \in Launches : ChildStep(r, g)
    \/ DiskChanges
    \/ Relaunch
    \/ Terminating

Spec == Init /\ [][Next]_vars

(* The main thread is never blocked but in wait() and sleep(); a pool thread *)
(* is started by the pool and leaves proc.wait() at the hard wall at the     *)
(* latest. Nothing is assumed of a child process: it may hang for ever.      *)
FairSpec ==
    /\ Spec
    /\ WF_vars(SchedulerStep)
    /\ \A r \in Repos : WF_vars(ThreadStep(r))

-----------------------------------------------------------------------------
(* Properties *)

InFlight == {r \in Repos : child[r][run] \in Live}

(* At most Concurrency children of this launch run at any moment, whatever    *)
(* the order in which threads end, slots are refilled and the gate closes     *)
(* (scheduler's docstring: "at most `concurrency` in flight").                *)
AtMostConcurrencyInFlight == Cardinality(InFlight) <= Concurrency

(* While repositories are pending, every slot is accounted for: it holds a    *)
(* future, it is being refilled, or its refill ran out of attempts. A slot    *)
(* lost in any other way would silently narrow the run.                       *)
SlotsAccounted ==
    (pc # "fill" /\ pending # <<>>) =>
        Cardinality(futures) + (IF pc = "refill" THEN 1 ELSE 0) + gaveUp = Concurrency

(* The drain loop drops pending repositories only after each of the           *)
(* Concurrency slots was held by the disk gate RefillTries times in a row.    *)
DroppedOnlyWhenEverySlotGaveUp ==
    (pc \in {"drained", "over"} /\ pending # <<>>) => gaveUp = Concurrency

(* The aggregate covers every submitted repository: whichever of the child,   *)
(* the kill or the error path wrote its row last, that row parses, unless the *)
(* last write to it met a full disk. (A child that outlived its runner may    *)
(* be halfway through its row.)                                               *)
ReportCoversSubmitted ==
    (pc = "over" /\ ~orphaned) =>
        \A r \in Repos :
            (\A i \in DOMAIN pending : pending[i] # r) => (r \in tally \/ r \in unwritten)

(* A row that parses is final: only the hard wall of the thread that waits    *)
(* for this very child overwrites it, never a relaunch, a second child or the *)
(* error path, as long as no child has outlived its runner.                   *)
SettledRowIsFinal ==
    [][\A r \in Repos :
          (~orphaned /\ Readable(r) /\ row'[r] # row[r]) =>
              (thread[r] = "wait" /\ thread'[r] = "done" /\ child[r][run] \in Live)]_vars

(* An agent is invoked again only for a repository that has neither a         *)
(* produced marker nor a row that parses: a relaunch never pays twice for     *)
(* what an earlier launch settled (the comment at benchmark.py:356), as long  *)
(* as no child has outlived its runner.                                       *)
ReinvokedOnlyIfUnsettled ==
    [][\A r \in Repos :
          (~orphaned /\ agents'[r] > agents[r] /\ agents[r] > 0) =>
              (~marker[r] /\ ~Readable(r))]_vars

(* The children of a repository, of this launch and those that have outlived  *)
(* an earlier one and work beside them, keep the contract of its workers: an  *)
(* agent is invoked only by a child whose own check found neither file, no    *)
(* such file is taken back, a row is opened only by a child past its agent,   *)
(* and a parent writes it only over one that does not parse or in the step    *)
(* that ends its child (_run_one and _run_child, benchmark.py:354-441).       *)
RowOf(r)   == IF Readable(r) THEN "whole" ELSE row[r]
Contract(r) == INSTANCE WorkerContract WITH
                   Workers <- Launches, stage <- child[r], row <- RowOf(r), marked <- marker[r]
ChildrenKeepContract ==
    /\ \A r \in Repos : Contract(r)!Init
    /\ [][\A r \in Repos : [Contract(r)!Next]_<<child[r], RowOf(r), marker[r]>>]_vars

(* The scheduler implements the bounded pool, futures_map being its active    *)
(* jobs: every interleaving of fill, drain, refill and relaunch maps to a     *)
(* start in list order, a retirement or a restart.                            *)
Pool == INSTANCE WorkerPool WITH
            Jobs <- Repos, JobList <- RepoList, Size <- Concurrency,
            queue <- pending, active <- futures
ImplementsPool == Pool!Spec

(* With the disk above the gate all along, a run that is not interrupted ends *)
(* and its aggregate has a row for every selected repository, even if every   *)
(* child hangs until its hard wall.                                           *)
EveryRepoReported == ([](disk = "ok")) => <>(pc = "over" /\ tally = Repos)

(* Once the disk stays above the gate the run ends, whatever happened before. *)
RunEnds == (<>[](disk = "ok")) => <>(pc = "over")
=============================================================================
