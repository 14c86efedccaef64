------------------------------ MODULE RepoLife ------------------------------
(***************************************************************************)
(* The life of ONE repository over one output directory: the worker that    *)
(* runs its producer and writes the packet file by file (_run_one and       *)
(* predict, benchmark.py; write_env_packet, producers/base.py), whatever    *)
(* kills it on the way, the relaunches that resume from what is on disk,    *)
(* and the measure stage that reads the packet back (bench/harvest.py,      *)
(* bench/unified_bench.py).  A child of the parallel lane has a session of  *)
(* its own: it outlives a runner that is killed alone, and then works on    *)
(* the same files beside the worker of the next launch.  A file's content   *)
(* is the number of the launch that wrote it, 0 when there is no such file. *)
(*                                                                          *)
(* Bounds: MaxLaunches launches of the runner, MaxFaults faults.            *)
(***************************************************************************)
EXTENDS Naturals

CONSTANTS
    MaxLaunches,
    MaxFaults,
    Rehomes,   \* does the tool leave a raw Dockerfile and a test report of its own? (repo2run)
    Faults     \* what may go wrong: a hard "wall", a "crash" of the machine, a kill of the
               \* "runner" alone, a "diskfull" write

ASSUME LaunchAssumption == MaxLaunches \in Nat \ {0} /\ MaxFaults \in Nat
ASSUME KindAssumption ==
    Rehomes \in BOOLEAN /\ Faults \subseteq {"wall", "crash", "runner", "diskfull"}

VARIABLES
    launch,      \* launches so far
    mode,        \* lane of this launch: "parallel" (a child per repo) or "sequential"
    outlived,    \* the launches whose worker has outlived its runner
    pc,          \* launch -> where its worker stands
    out,         \* launch -> the status in predict()'s result
    kept,        \* launch -> the _meta.json payload _merged_meta has just read and merged
    env,         \* history: status of the ProducedEnv a producer last returned
    raw,         \* <repo>/Dockerfile
    report,      \* is <repo>/run_pytest_results.json there
    dockerfile,  \* <repo>/eval_build/Dockerfile
    scripts,     \* <repo>/eval_build/<the scripts it copies>
    meta,        \* <repo>/_meta.json: its status field and its writer
    marker,      \* <repo>/run_produced.json
    row,         \* <repo>/_result_row.json
    measuring,   \* is the measure stage between discover() and its row
    harvested,   \* the HarvestedEnv in its memory
    mrow,        \* measure/.../row.json
    harm         \* history: how many faults have struck

runner   == <<launch, mode, outlived>>
packet   == <<raw, report, dockerfile, scripts, meta, marker>>
memory   == <<env, out, kept>>
measured == <<measuring, harvested, mrow>>
vars == <<runner, pc, memory, packet, row, measured, harm>>

(* The producers the runner drives return no other status. *)
Declared == {"produced", "error"}
Launches == 1..MaxLaunches
Versions == 0..MaxLaunches
Metas    == [status : Declared \cup {"none", "torn", "plain"}, by : Versions]
NoMeta   == [status |-> "none", by |-> 0]
Envs     == [status : Declared \cup {"none", "legacy_ok", "legacy_missing"},
             dockerfile : Versions, scripts : Versions, raw : BOOLEAN]
NoEnv    == [status |-> "none", dockerfile |-> 0, scripts |-> 0, raw |-> FALSE]

(* The worker's process: _run_one, its producer within "agent" to "errmeta". *)
Producing == {"agent", "raw", "dockerfile", "scripts", "meta", "marker", "drop", "errmeta"}
AtWork    == {"boot", "cleared", "row", "rowing", "merge", "merging", "exit"} \cup Producing
(* ... or its runner is about to start it, or to write the row of a killed one. *)
Busy      == AtWork \cup {"start", "killed"}

TypeOK ==
    /\ launch \in Versions
    /\ mode \in {"parallel", "sequential"}
    /\ outlived \subseteq 1..launch
    /\ pc \in [Launches -> Busy \cup {"none", "dead"}]
    /\ out \in [Launches -> {"success", "error"}]
    /\ kept \in [Launches -> Metas]
    /\ env \in Declared \cup {"none"}
    /\ raw \in Versions
    /\ report \in BOOLEAN
    /\ dockerfile \in Versions
    /\ scripts \in Versions
    /\ meta \in Metas
    /\ marker \in Versions
    /\ row \in {"none", "torn", "success", "error", "timeout"}
    /\ measuring \in BOOLEAN
    /\ harvested \in Envs
    /\ mrow \in [status : {"none", "built", "missing", "measure_error"} \cup Declared
                            \cup {"legacy_missing"},
                 env : Envs, launch : Versions]
    /\ harm \in 0..MaxFaults

Init ==
    /\ launch = 0
    /\ mode = "parallel"
    /\ outlived = {}
    /\ pc = [g \in Launches |-> "none"]
    /\ out = [g \in Launches |-> "error"]
    /\ kept = [g \in Launches |-> NoMeta]
    /\ env = "none"
    /\ raw = 0
    /\ report = FALSE
    /\ dockerfile = 0
    /\ scripts = 0
    /\ meta = NoMeta
    /\ marker = 0
    /\ row = "none"
    /\ measuring = FALSE
    /\ harvested = NoEnv
    /\ mrow = [status |-> "none", env |-> NoEnv, launch |-> 0]
    /\ harm = 0

RowReadable == row \in {"success", "error", "timeout"}

(* _run_one: run_produced.json or run_pytest_results.json exists *)
MarkedDone == marker # 0 \/ report

(* The runner of launch g is alive: it waits for the worker, or is the worker. *)
Attended(g) == g = launch /\ g \notin outlived
RunnerGone  == launch \in outlived \/ (launch > 0 => pc[launch] = "dead")

Goes(g, from, to) == pc[g] = from /\ pc' = [pc EXCEPT ![g] = to]
Returns(g, status) == out' = [out EXCEPT ![g] = status]

(* The memory of a process ends with it. *)
Forgets(g) == out' = [out EXCEPT ![g] = "error"] /\ kept' = [kept EXCEPT ![g] = NoMeta]

(* What no step of a worker touches. *)
KeepOutside == UNCHANGED <<runner, measured, harm>>

-----------------------------------------------------------------------------
(* The runner takes up the repository *)

(* sequential_main() or the thread of the parallel lane; not while a measure *)
(* stage is at work, but perhaps beside a worker that has outlived its runner *)
Launch ==
    /\ launch < MaxLaunches
    /\ RunnerGone
    /\ ~measuring
    /\ launch' = launch + 1
    /\ mode' \in {"parallel", "sequential"}
    /\ pc' = [pc EXCEPT ![launch + 1] = "start"]
    /\ UNCHANGED <<outlived, memory, packet, row, measured, harm>>

(* _run_child finds a row it can read *)
SkipSettled(g) ==
    /\ mode = "parallel"
    /\ RowReadable
    /\ Goes(g, "start", "dead")
    /\ UNCHANGED <<memory, packet, row>>
    /\ KeepOutside

(* Popen of the parallel lane, the call of _run_one of the other *)
Start(g) ==
    /\ ~(mode = "parallel" /\ RowReadable)
    /\ Goes(g, "start", "boot")
    /\ UNCHANGED <<memory, packet, row>>
    /\ KeepOutside

(* _run_one's resume check: a marked repository is never produced again *)
Resume(g) ==
    /\ MarkedDone
    /\ IF RowReadable
       THEN Goes(g, "boot", "exit") /\ UNCHANGED out
       ELSE Goes(g, "boot", "row") /\ Returns(g, "success")
    /\ UNCHANGED <<env, kept, packet, row>>
    /\ KeepOutside

(* Mutant: resume looks at the row instead of the markers. *)
ClearUnlessSettled(g) ==
    /\ ~RowReadable
    /\ Goes(g, "boot", "cleared")
    /\ UNCHANGED <<memory, packet, row>>
    /\ KeepOutside

Clear(g) ==
    /\ ~MarkedDone
    /\ Goes(g, "boot", "cleared")
    /\ UNCHANGED <<memory, packet, row>>
    /\ KeepOutside

(* model.predict(), some time after the check *)
InvokeAgent(g) ==
    /\ Goes(g, "cleared", "agent")
    /\ UNCHANGED <<memory, packet, row>>
    /\ KeepOutside

-----------------------------------------------------------------------------
(* The producer.  produce() never raises: it returns "produced" or "error". *)

(* repo2run's own tests leave their report in the output directory *)
ToolReports(g) ==
    /\ Rehomes
    /\ pc[g] \in {"agent", "raw"}
    /\ ~report
    /\ report' = TRUE
    /\ UNCHANGED <<pc, memory, raw, dockerfile, scripts, meta, marker, row>>
    /\ KeepOutside

(* repo2run's own main writes output/<repo>/Dockerfile *)
ToolWritesRaw(g) ==
    /\ Rehomes
    /\ Goes(g, "agent", "raw")
    /\ raw' = g
    /\ UNCHANGED <<memory, report, dockerfile, scripts, meta, marker, row>>
    /\ KeepOutside

(* Mutant: the raw Dockerfile is left beside the re-homed one. *)
ReturnsProducedKeepsRaw(g) ==
    /\ IF Rehomes THEN Goes(g, "raw", "dockerfile") ELSE Goes(g, "agent", "dockerfile")
    /\ env' = "produced"
    /\ UNCHANGED <<out, kept, packet, row>>
    /\ KeepOutside

ReturnsProduced(g) ==
    /\ IF Rehomes THEN Goes(g, "raw", "dockerfile") ELSE Goes(g, "agent", "dockerfile")
    /\ env' = "produced"
    /\ raw' = 0
    /\ UNCHANGED <<out, kept, report, dockerfile, scripts, meta, marker, row>>
    /\ KeepOutside

(* Every failure, the survival of the raw file included. *)
ReturnsFailure(g) ==
    /\ pc[g] \in {"agent", "raw"}
    /\ Goes(g, pc[g], "drop")
    /\ env' = "error"
    /\ UNCHANGED <<out, kept, packet, row>>
    /\ KeepOutside

-----------------------------------------------------------------------------
(* write_env_packet and the marker: each file through a temporary one *)

WriteDockerfile(g) ==
    /\ Goes(g, "dockerfile", "scripts")
    /\ dockerfile' = g
    /\ UNCHANGED <<memory, raw, report, scripts, meta, marker, row>>
    /\ KeepOutside

(* A sibling may have dropped eval_build by now: a packet without scripts goes *)
(* on, the first script of another one cannot be written.                      *)
WriteScripts(g) ==
    /\ Goes(g, "scripts", "meta")
    /\ scripts' = IF dockerfile # 0 THEN g ELSE scripts
    /\ UNCHANGED <<memory, raw, report, dockerfile, meta, marker, row>>
    /\ KeepOutside

BuildDirGone(g) ==
    /\ dockerfile = 0
    /\ Goes(g, "scripts", "row")
    /\ Returns(g, "error")
    /\ UNCHANGED <<env, kept, packet, row>>
    /\ KeepOutside

WriteMeta(g) ==
    /\ Goes(g, "meta", "marker")
    /\ meta' = [status |-> "produced", by |-> g]
    /\ UNCHANGED <<memory, raw, report, dockerfile, scripts, marker, row>>
    /\ KeepOutside

WriteMarker(g) ==
    /\ Goes(g, "marker", "row")
    /\ marker' = g
    /\ Returns(g, "success")
    /\ UNCHANGED <<env, kept, raw, report, dockerfile, scripts, meta, row>>
    /\ KeepOutside

(* shutil.rmtree(eval_build) *)
DropBuild(g) ==
    /\ Goes(g, "drop", "errmeta")
    /\ dockerfile' = 0
    /\ scripts' = 0
    /\ UNCHANGED <<memory, raw, report, meta, marker, row>>
    /\ KeepOutside

WriteFailureMeta(g) ==
    /\ Goes(g, "errmeta", "row")
    /\ meta' = [status |-> "error", by |-> g]
    /\ Returns(g, "error")
    /\ UNCHANGED <<env, kept, raw, report, dockerfile, scripts, marker, row>>
    /\ KeepOutside

-----------------------------------------------------------------------------
(* _run_one's bookkeeping: row and meta are rewritten in place *)

OpenRow(g) ==
    /\ Goes(g, "row", "rowing")
    /\ row' = "torn"
    /\ UNCHANGED <<memory, packet>>
    /\ KeepOutside

(* Mutant: the row takes the packet's status instead of predict()'s. *)
WriteRowOfPacket(g) ==
    /\ Goes(g, "rowing", "merge")
    /\ row' = env
    /\ UNCHANGED <<memory, packet>>
    /\ KeepOutside

WriteRow(g) ==
    /\ Goes(g, "rowing", "merge")
    /\ row' = out[g]
    /\ UNCHANGED <<memory, packet>>
    /\ KeepOutside

(* A packet marked as produced keeps its producer's meta. *)
KeepMeta(g) ==
    /\ marker # 0
    /\ Goes(g, "merge", "exit")
    /\ UNCHANGED <<memory, packet, row>>
    /\ KeepOutside

(* Mutant: _collect_meta overwrites what the producer declared. *)
OverwriteMeta(g) ==
    /\ marker = 0
    /\ Goes(g, "merge", "merging")
    /\ kept' = [kept EXCEPT ![g] = [status |-> "plain", by |-> g]]
    /\ meta' = [status |-> "torn", by |-> 0]
    /\ UNCHANGED <<env, out, raw, report, dockerfile, scripts, marker, row>>
    /\ KeepOutside

(* _merged_meta reads the file, then open(meta_path, "w") truncates it. *)
MergeMeta(g) ==
    /\ marker = 0
    /\ Goes(g, "merge", "merging")
    /\ kept' = [kept EXCEPT ![g] = IF meta.status \in Declared THEN meta
                                   ELSE [status |-> "plain", by |-> g]]
    /\ meta' = [status |-> "torn", by |-> 0]
    /\ UNCHANGED <<env, out, raw, report, dockerfile, scripts, marker, row>>
    /\ KeepOutside

WriteMergedMeta(g) ==
    /\ Goes(g, "merging", "exit")
    /\ meta' = kept[g]
    /\ UNCHANGED <<memory, raw, report, dockerfile, scripts, marker, row>>
    /\ KeepOutside

(* The worker returns; _run_child, if it still waits, stands in for a row it *)
(* cannot read.                                                              *)
Exit(g) ==
    /\ Goes(g, "exit", "dead")
    /\ row' = IF Attended(g) /\ mode = "parallel" /\ ~RowReadable THEN "error" ELSE row
    /\ Forgets(g)
    /\ UNCHANGED <<env, packet>>
    /\ KeepOutside

(* The row of a worker that was killed. *)
SynthesizeTimeoutRow(g) ==
    /\ Goes(g, "killed", "dead")
    /\ row' = "timeout"
    /\ UNCHANGED <<memory, packet>>
    /\ KeepOutside

-----------------------------------------------------------------------------
(* Faults *)

Strikes(f) == f \in Faults /\ harm < MaxFaults /\ harm' = harm + 1

(* A write inside predict() raises: _run_one catches it.  The marker is opened *)
(* in place, so it may exist all the same.                                     *)
PredictRaises(g) ==
    /\ pc[g] \in {"dockerfile", "scripts", "meta", "marker", "errmeta"}
    /\ Goes(g, pc[g], "row")
    /\ Returns(g, "error")
    /\ marker' \in IF pc[g] = "marker" THEN {marker, g} ELSE {marker}
    /\ Strikes("diskfull")
    /\ UNCHANGED <<runner, env, kept, raw, report, dockerfile, scripts, meta, row, measured>>

(* A best-effort write fails after its file was truncated. *)
BookkeepingFails(g) ==
    /\ \/ Goes(g, "rowing", "merge") /\ UNCHANGED row
       \/ Goes(g, "merging", "exit") /\ UNCHANGED row
       \/ Goes(g, "killed", "dead") /\ row' = "torn"
    /\ Strikes("diskfull")
    /\ UNCHANGED <<runner, memory, packet, measured>>

(* The hard wall of the parallel lane: SIGKILL to the child's process group *)
HardKill(g) ==
    /\ Attended(g)
    /\ mode = "parallel"
    /\ pc[g] \in AtWork
    /\ Goes(g, pc[g], "killed")
    /\ Forgets(g)
    /\ Strikes("wall")
    /\ UNCHANGED <<runner, env, packet, row, measured>>

(* The runner is killed alone: a child of the parallel lane goes on, unattended. *)
KillRunner(g) ==
    /\ Attended(g)
    /\ pc[g] \in Busy
    /\ IF mode = "parallel" /\ pc[g] \in AtWork
       THEN outlived' = outlived \cup {g} /\ UNCHANGED <<pc, out, kept>>
       ELSE Goes(g, pc[g], "dead") /\ Forgets(g) /\ UNCHANGED outlived
    /\ Strikes("runner")
    /\ UNCHANGED <<launch, mode, env, packet, row, measured>>

(* The machine goes down and takes the runner, every worker and the measure *)
(* stage with it.                                                            *)
Crash ==
    /\ \E g \in Launches : pc[g] \in Busy
    /\ pc' = [g \in Launches |-> IF pc[g] \in Busy THEN "dead" ELSE pc[g]]
    /\ out' = [g \in Launches |-> "error"]
    /\ kept' = [g \in Launches |-> NoMeta]
    /\ measuring' = FALSE
    /\ harvested' = NoEnv
    /\ Strikes("crash")
    /\ UNCHANGED <<runner, env, packet, row, mrow>>

-----------------------------------------------------------------------------
(* The measure stage, when no runner is at work.  It writes nothing but its row, *)
(* by os.replace: a crash of it leaves things as they were.                      *)

(* harvest: the status a producer wrote wins, anything else is a legacy run *)
Status(df) ==
    IF meta.status \in Declared THEN meta.status
    ELSE IF df # 0 THEN "legacy_ok" ELSE "legacy_missing"

(* discover(): _find_dockerfile prefers the repository's own directory *)
Discover ==
    /\ launch > 0
    /\ RunnerGone
    /\ ~measuring
    /\ measuring' = TRUE
    /\ harvested' = IF raw # 0
                    THEN [status |-> Status(raw), dockerfile |-> raw, scripts |-> 0,
                          raw |-> TRUE]
                    ELSE [status |-> Status(dockerfile), dockerfile |-> dockerfile,
                          scripts |-> scripts, raw |-> FALSE]
    /\ UNCHANGED <<runner, pc, memory, packet, row, mrow, harm>>

(* What measure() makes of a harvested environment: "built" stands for every *)
(* verdict of a docker build.                                                *)
Verdicts(e) ==
    IF e.status \in {"produced", "legacy_ok"}
    THEN IF e.dockerfile # 0 THEN {"built", "measure_error"} ELSE {"missing"}
    ELSE {e.status}

(* Mutant: run_one gives up on an environment it could not measure. *)
RunOneDropsCrash ==
    /\ measuring
    /\ measuring' = FALSE
    /\ IF mrow.status # "none" THEN UNCHANGED mrow
       ELSE \E v \in Verdicts(harvested) :
               mrow' = IF v = "measure_error" THEN mrow
                       ELSE [status |-> v, env |-> harvested, launch |-> launch]
    /\ harvested' = NoEnv
    /\ UNCHANGED <<runner, pc, memory, packet, row, harm>>

(* run_one(): resumes over an existing row, and always leaves one *)
RunOne ==
    /\ measuring
    /\ measuring' = FALSE
    /\ IF mrow.status # "none" THEN UNCHANGED mrow
       ELSE \E v \in Verdicts(harvested) :
               mrow' = [status |-> v, env |-> harvested, launch |-> launch]
    /\ harvested' = NoEnv
    /\ UNCHANGED <<runner, pc, memory, packet, row, harm>>

-----------------------------------------------------------------------------
Worker(g) ==
    \/ SkipSettled(g) \/ Start(g) \/ Resume(g) \/ Clear(g) \/ InvokeAgent(g)
    \/ ToolReports(g) \/ ToolWritesRaw(g) \/ ReturnsProduced(g) \/ ReturnsFailure(g)
    \/ WriteDockerfile(g) \/ WriteScripts(g) \/ BuildDirGone(g) \/ WriteMeta(g)
    \/ WriteMarker(g) \/ DropBuild(g) \/ WriteFailureMeta(g)
    \/ OpenRow(g) \/ WriteRow(g) \/ KeepMeta(g) \/ MergeMeta(g) \/ WriteMergedMeta(g)
    \/ Exit(g) \/ SynthesizeTimeoutRow(g)

Measure == Discover \/ RunOne

Fault(g) == PredictRaises(g) \/ BookkeepingFails(g) \/ HardKill(g) \/ KillRunner(g)

Next ==
    \/ Launch \/ Measure \/ Crash
    \/ \E g \in Launches : Worker(g) \/ Fault(g)

Spec == Init /\ [][Next]_vars

(* A worker whose runner is alive keeps running (the hard wall of its lane, or the *)
(* timeout of its tool, sees to that), and somebody runs the measure stage once    *)
(* there is nothing left to launch (cli.main does it after every runner that       *)
(* returns 0, README:401 by hand).  Nothing is assumed of a worker that has        *)
(* outlived its runner.                                                            *)
FairSpec ==
    /\ Spec
    /\ WF_vars(\E g \in Launches : Attended(g) /\ Worker(g))
    /\ WF_vars(RunOne)
    /\ WF_vars(Discover)

-----------------------------------------------------------------------------
(* The workers and their runners keep the contract the parallel lane sees of them, *)
(* in either lane, write by write, under every fault and beside one another: no    *)
(* agent but after a check that found the repository unmarked, no marking file     *)
(* taken back, and no row touched before an agent has returned.                    *)
StageOf(at) ==
    CASE at = "start" -> "boot"
      [] at \in Producing -> "agent"
      [] at = "row" -> "emit"
      [] at \in {"merge", "merging", "exit"} -> "tail"
      [] OTHER -> at
StageSeen == [g \in Launches |-> StageOf(pc[g])]
RowSeen == IF RowReadable THEN "whole" ELSE row
Contract == INSTANCE WorkerContract WITH
                Workers <- Launches, stage <- StageSeen,
                row <- RowSeen, marked <- MarkedDone
KeepsContract == Contract!Spec

(* A marker vouches for a whole packet: the Dockerfile, the scripts it copies and  *)
(* the meta are those of the launch that wrote the marker, and no raw Dockerfile   *)
(* shadows them, whatever hard wall, crash or failed write struck the workers      *)
(* before and after, as long as none of them has outlived its runner: two workers  *)
(* at a time share every file (benchmark.py:167, the marker is the last file       *)
(* predict() writes; benchmark.py:723, the child's own session).                   *)
MarkedPacketCoherent ==
    marker # 0 /\ outlived = {} =>
        /\ dockerfile = marker
        /\ scripts = marker
        /\ raw = 0
        /\ meta = [status |-> "produced", by |-> marker]

(* Once a repository is marked, a measure row taken from then on is a build of *)
(* that very packet: not of an older one, not of a raw Dockerfile, and not a    *)
(* declared failure, as long as no worker has outlived its runner.              *)
MarkedIsWhatIsMeasured ==
    marker # 0 /\ outlived = {} /\ mrow.status # "none" /\ mrow.launch >= marker =>
        /\ mrow.status \in {"built", "measure_error"}
        /\ mrow.env = [status |-> "produced", dockerfile |-> marker, scripts |-> marker,
                       raw |-> FALSE]

(* As long as nothing was killed and no write failed, harvest reads the status *)
(* the producer returned: the bookkeeping of _run_one loses no failure and no   *)
(* spend (benchmark.py:242-247).                                                *)
CleanOutcomeHarvested ==
    measuring /\ harm = 0 => harvested.status = env

(* A docker build mixes files of two launches, or takes a tool's raw Dockerfile, *)
(* only after a worker was killed or a write failed.                             *)
BuiltFromOnePacket ==
    mrow.status = "built" /\ harm = 0 =>
        ~mrow.env.raw /\ mrow.env.dockerfile = mrow.env.scripts

(* A repository the runner takes up gets a measure row, however often its workers *)
(* are killed: harvest never skips its directory and a measure that raises still  *)
(* leaves a row (unified_bench.py:32).                                            *)
EveryRepoMeasured == launch > 0 ~> mrow.status # "none"

(* "_meta.json is ALWAYS written so harvest can distinguish a declared            *)
(* not-measurable env from a producer that silently vanished" (producers/base.py: *)
(* 289), and a repository without a status is "a legacy (pre-contract) run"       *)
(* (bench/harvest.py:74).  A worker that hits its hard wall shows otherwise.      *)
LegacyMeansPreContract ==
    mrow.env.status \notin {"legacy_ok", "legacy_missing"}
=============================================================================
