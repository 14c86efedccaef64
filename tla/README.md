# A TLA+ model of the environment benchmark

The repository benchmarks *producers* of build environments: given a repository at a commit, a
producer (an LLM agent or a baseline tool) has to leave a Dockerfile in which the repository's
tests can be collected. `runner/` runs a producer over a data set, `producers/` adapts the
producers to one packet format, `bench/` builds and measures what they left, and
`docker_agents/john-planner-v3/` is the build agent developed here. This directory holds TLA+
modules of the parts in which order, failure and resumption matter, the TLC configurations that
check them, and TLAPS proofs.

    tlc -config FanOutGate.cfg MCFanOut        # check one run
    tlapm V3Loop_proofs.tla                    # check the proofs of one module

## 1. Inventory

| component | state it keeps | operations | correct when |
|---|---|---|---|
| run scheduler, `runner/benchmark.py` (`parallel_main`, `scheduler`, `_run_child`) | `pending`, `futures_map`, threads, child processes; on disk `_result_row.json` | fill, drain, refill behind a disk gate, hard kill, relaunch, aggregate | bounded concurrency, no slot or repository lost, nothing settled paid for twice |
| worker, `runner/benchmark.py` (`_run_one`, `_ProducerModel`) and packet, `producers/base.py` | `eval_build/`, `_meta.json`, `run_produced.json`, `_result_row.json` | resume, produce, write the packet, write and merge the bookkeeping | the marker vouches for a whole packet, a declared outcome is never lost |
| producers of other people's tools, `producers/{repo2run, sweagent_repo2run, executionagent, setupx, claudecode_dockerfile}.py` | a checkout, the file the tool leaves | clear, clone, run the tool, pick up its file | what is handed over is this launch's, and made from the pinned commit |
| producer of the build agent, `producers/dockeragent.py`, `multi_docker_eval_adapter.py` | `v3_src`, `setup.sh` | fetch, run the driver under a limit, read the script and base image | the same |
| driver and sandbox of run_v3, `scripts/run_v3_e2e.py`, `src/sandbox.py` | one container, one baseline image | boot, reset, recover, execute, close; render | nothing is left in the daemon, whatever ends the run |
| run_v3, `john-planner-v3/src/envstate/orchestrator.py` | the world map with its dependency graph, a container, counters and budgets of the loop | emit, certify, repair, ingest, decide, gate, finish | success is verified in the container that is shipped, and the loop ends |
| graph scheduler, repair loop, verify memo | hand-out counts; turns; memo of the tests | `next_decision`, `run_structured_repair`, `VerifyTestCache.run` | doors close for their reason only |
| certification, emit, build script, failure localization | node states and recipes; the script | `certify_all`, `topo_order`, `render_build_script`, `run_install_script`, `localize_install_failure` | states describe the container, dependencies come first, what failed is what is repaired |
| harvest, `bench/bench/harvest.py` | none | `discover` | the status and Dockerfile of the last packet |
| unified bench, `bench/bench/unified_bench.py` | `row.json` per agent and repository; `metrics.json`, `errors.json` | `run_one`, aggregation | every repository gets a row, the two reports belong together |
| measure and docker client, `bench/bench/{measure,docker_client}.py` | images, containers, a build context | build, probe, run, remove | measurements do not disturb each other and leave nothing behind |
| verdicts, errors, attribution, scorers, gold, languages, reports | none (pure) | classify and format logs and counts | total, and the same for the same log |
| live gates and models, `runner/live`; CLI, manifest, registry, provisioning | `manifest.json` of a run | resolve, provision, launch, measure | a resumed run is the run it resumes |
| patch gate, ingest, diagnosis, maintainer | edits of the graph and the blocks | `admit_proposal`, `ingest`, `diagnose` | only what is admitted changes the graph |
| construction of the graph, `python_deps/depgraph` | resolver caches | `build`, `resolve`, `probe` | (one sequential pass before the loop) |
| cleanroom, synthesis, proof | the artifact | replay once more, render | (after the loop) |
| `rat/` (vendored), `tools/`, `datasets/`, `docker/`, repair port, benchmark drivers and offline evaluations of john-planner-v3 | | | |

How they interact. `cli.main` starts the scheduler; each of its pool threads starts one child
process (`--only`), which is the worker of one repository; the worker calls a producer and writes
the packet. These share nothing but files, so a relaunch learns what happened from the files
alone. The producer of the build agent starts one more process, the driver, which owns a container
and calls run_v3: a single thread that talks to the LLM, to the container and to pure functions
over the graph. The measure stage is another process that later reads the packets with a pool of
threads over one docker daemon.

What is hard: processes are killed at any point (hard wall, out of memory, host), writes are not
one transaction, a full disk makes best-effort writes fail silently, a relaunch meets whatever
is there, children and drivers may outlive who started them; measurements share names in one
daemon, where killed clients leave builds behind; in the agent, one result of the tests serves
three callers while the container is reset, or lost, under it, nested budgets and counters
interact, five doors end the run, and what is repaired is found by a search in a text. The list of
hazards in `PROJECT.json` names each with its line.

## 2. Modules

| module | models | proofs |
|---|---|---|
| `WorkerPool` | abstract: jobs start in list order, at most N at once, retire in any order | `WorkerPool_proofs`; refined by `FanOut` |
| `WorkerContract` | abstract: what a runner may count on about all the workers of one repository, one for each launch | refined by the children of `FanOut` and by the workers of `RepoLife` |
| `FanOut` | the parallel lane: scheduler, threads, children, disk gate, relaunches | `FanOut_proofs` |
| `RepoLife` | one repository: worker, producer, packet, kills, relaunches, harvest and measure row | `RepoLife_proofs` |
| `Producers` | the five producers around other people's tools, launch after launch | `Producers_proofs` |
| `V3Artifact` | the producer of the build agent: checkout, driver, container and baseline image, script | `V3Artifact_proofs` |
| `V3Loop` | the loop of run_v3 with scheduler, repair loop, memo and certification | `V3Loop_proofs` |
| `SetupScript` | one replay of run_v3 from inside: order of the script, the trap, what is blamed | `SetupScript_proofs` |
| `Measure` | the measure stage: a pool of measurements over one docker daemon, resumed rows, reports | `Measure_proofs` |
| `MCFanOut`, `MCRepoLife`, `MCMeasure`, `MCV3Loop`, `MCSetupScript` | small instances for TLC (the other modules have only numbers as constants) | |

The modules meet in what they take as given. `FanOut` sees of a worker that it boots, calls its
agent, opens and writes its row; `RepoLife` is that worker write by write, with whatever worker of
an earlier launch is still at work on the same repository, and its measure row (what the two have in
common is `WorkerContract`, which both are proved to keep, orphans included); `Producers` and
`V3Artifact` are the two kinds of producer `RepoLife` calls, with the packet as one write; `Measure`
is the measurement `RepoLife` has as one step. `V3Artifact` sees of run_v3 that it resets, recovers,
returns or raises, which is `V3Loop`; and `V3Loop` takes any outcome of a replay and any failing id
among those installed, of which `SetupScript` says which it may be (theorem `BlameIsInstalled`: it
is always one of them).

### What is left of the plan

1. `Launches`: manifest and registry under `cli.main`, a resumed run with another variety.
2. `RunV1`, the older planner-driven loop, if an entry point should call it again; with it an
   abstract "a run ends once, and in success only over a verified container" that both loops
   implement.
3. The construction of the graph (`build`, `resolve`, `relink`) as functions over small closures,
   against reference definitions: a relinked graph has the edges of its lock, a conflict names both
   ends.
4. The reasons of the patch gate, which `V3Loop` leaves to the environment.

## 3. What is modelled, and what the runs show

### 3.1 FanOut

One action per step of the main thread (`Fill`, `FillDone`, `WaitDone`, `Reap`, `Refill`,
`RefillHeld`, `BatchDone`, `Drained`, `Aggregate`), of a pool thread (`SkipSettled`, `Spawn`,
`SpawnFails`, `HardKill`, `Collect`), of a child (`Boot`, the check of both files that make a
repository count as finished; `Invoke`, some time later; `AgentReports`, the tests of repo2run
leave a file of the second name; `AgentReturns`, `OpenRow`, `WriteRow`, `ChildExits`), and of the
machine (`DiskChanges`, `Relaunch`). A row is `none`, `torn` (truncated
by `open(..., "w")` and not yet, or never, filled) or one of three kinds that parse. `Relaunch`
takes over after the machine went down, with nothing left running, or after the runner alone was
killed, with its children alive. `gaveUp`, `agents`, `unwritten` and `orphaned` (a child has
outlived its runner) are history variables; nothing reads them but properties.

| run | instance | shows |
|---|---|---|
| `fanout_gate` | 3 repositories, 2 slots, 2 refill attempts, a disk that crosses the gate at will | `AtMostConcurrencyInFlight`, `DroppedOnlyWhenEverySlotGaveUp`, the refinement of `WorkerPool`, and, with fairness, `EveryRepoReported` and `RunEnds` |
| `fanout_relaunch` | 2 repositories, 2 slots, 1 attempt, 2 launches, both kinds of crash, a disk that may fill up | `ReportCoversSubmitted`, `SettledRowIsFinal` and `ReinvokedOnlyIfUnsettled` as long as no child has outlived its runner; `ChildrenKeepContract` always |

`ChildrenKeepContract` is `WorkerContract` for every repository, with the children of all launches
in it, each in its own place: a child whose runner is gone is bound by it like any other. It says
that each worker goes from its check to its agent, its row and its end and never back; that it
calls its agent only if neither file was there when it looked; that no such file is ever taken
back, and only an agent at work or one that returns leaves one; and that a row is opened only by a
worker past its agent, and written by a runner only over one that does not parse or for the worker
whose end it has just seen. What it cannot say is that a repository with such a file is not
produced again: check and call are two steps, and a child beside an orphan may look, find nothing,
and call its agent when the orphan is done. `ReinvokedOnlyIfUnsettled` says it as long as no child
has outlived its runner.

`DroppedOnlyWhenEverySlotGaveUp` marks a limit of the code: a slot held by the disk gate for ten
attempts is given up for good, and once all slots are, the pending repositories are neither
launched nor reported, even if the disk recovers.

Bounds. Three repositories with two slots give a pending one while a batch of two is reaped, and a
refill between two futures of a batch; two attempts instead of ten give every pattern of the gate
between and after attempts (the code does nothing else with the number). Two launches are enough
for "again": a third meets the same files.

### 3.2 RepoLife

A file is the number of the launch that wrote it, so the mixture of two launches shows. Each launch
has a worker, which goes write by write. Four faults may strike at each of its steps: the hard
wall, a crash of the machine, a write that fails, and a kill of the runner alone, which in the
parallel lane leaves the worker where it is, in a session of its own: it is `outlived`, and the next
launch starts its worker beside it, over the same files. Clearing the marks and calling the agent
are two steps here as well. The measure stage reads when no runner is at work, though perhaps an
orphan; it may be killed between reading and writing its row, and a measurement may raise.

| run | instance | shows |
|---|---|---|
| `repolife_faults` | a producer that re-homes the Dockerfile of a tool, two launches in either lane, any two faults | `MarkedPacketCoherent`, `MarkedIsWhatIsMeasured`, `CleanOutcomeHarvested`, `BuiltFromOnePacket`, and, with fairness, `EveryRepoMeasured` |
| `repolife_killed` | one launch, hard wall only | **violated**: `LegacyMeansPreContract`. "`_meta.json` is ALWAYS written" does not hold of a worker that is killed while its agent runs; harvest takes it for a run from before the contract |

`MarkedPacketCoherent` and `MarkedIsWhatIsMeasured` speak of repositories none of whose workers has
outlived its runner. Without that condition both are false of the code: an orphan writes its
Dockerfile between the Dockerfile and the marker of the next launch's worker, and the packet is of
two launches. Nothing in the code prevents it (no lock, no check of a live process), and nothing in
its documents promises otherwise, so it is a hazard of the list and not a finding.
`EveryRepoMeasured` is about orphans too.

`KeepsContract` says that the workers, write by write, with their producer and its packet, under
every fault, in either lane and beside one another, keep the `WorkerContract` that `FanOut` works
with. It belongs to no run, and is proved.

Bounds. Two launches: one that leaves something behind or lives on, one that fails over it, resumes
or works beside it. Two faults are a kill and what befalls the worker it leaves (1.3 million
states); the theorems hold for any number of both. The producer that does not re-home has a subset
of the behaviours (no raw file).

### 3.3 Producers

One worker, one of the five tools, launch after launch in either lane. `Renew`, `Reuse`,
`CloneStarts`, `CloneEnds`, `Checkout`, `Mirror` and `NoFetch` are what the tools do for a checkout
(`Reuse` is SWE-agent's, which takes any `.git` that is there; ExecutionAgent clones for itself;
SetupX works on an image). The tool is external: `ToolOpens`, `ToolWrites`, `ToolReports`,
`ToolEnds` and `ToolOverruns` let it write its file or not, wholly or not, and end as it likes. What
each producer clears before and checks after is in `ToolOpens`, `Acceptable`, `ReadProduced` and
`ReadNothing`. A file carries the launch that wrote it, the commit it was made from and whether it
is whole.

| run | instance | shows |
|---|---|---|
| `producers` | three launches, a branch that moves once, with and without a pin, kills at every step | `ProducedIsExplained`, `AnalysedAtPin`, `SuccessHasPacket` |
| `producers_stale` | the same | **violated**: `SweAgentFileIsOwn`. The file of a killed or failed launch is not removed, and the next launch, whose agent wrote nothing, hands it over |

The exceptions the properties name are the code's: ExecutionAgent clones the default branch
whatever the pin; repo2run's own report has the name of the file that marks a finished repository.

Bounds. Three launches: one that leaves a file, one that hands it over or fails, one that meets
both. Two commits are enough to be on the wrong one.

### 3.4 V3Artifact

Per launch a worker (`Clean`, `Clone`, `Checkout`, `Spawn`, `DriverOverruns`, `Accept`) and a
driver (`Select` of the base image, `Belief` of the graph, `Boot` of the sandbox, `Provision` of the
baseline, `Replace` of the container, `LoopReturns` or `LoopRaises`, `Close`, `Render`, `Write`),
each with the ways it fails. `Launch` may come while a driver of an earlier launch is still alive
(its worker was killed alone, or has outlived the runner that started it), and both then work in
the same directory. `box`, `snap` and `stray` are the container, the baseline image
and containers without a handle in the daemon.

| run | instance | shows |
|---|---|---|
| `v3artifact` | two launches, two commits, one replaced container, one fault | `ArtifactIsOwn`: a packet of a launch that ran alone is all of that launch and of the pinned commit. `NothingLeftBehind`: the daemon is left as it was found, unless a process was killed, a removal was refused or the constructor of the sandbox failed |

Bounds. Two launches give overlap and leftovers. One fault at a time besides the driver's limit;
two would only weaken what the properties may demand. Every replaced container is treated alike,
so one is enough.

### 3.5 V3Loop

A cycle is `DepEmit` (certify, replay the whole script from the base image, certify) with
`Recertify`, `Ingest` of failures of the cycle before, the scheduler's decision (`HandOut`,
`SchedulerDone`, `Discover`), `SampleGate` with the fast termination and the no-progress door, the
task (`DiscoverGate`, `RepairObligation`, `ReplayObligation`) and `WrapUp` with the remaining
doors. A repair takes its own steps (`RepairStops`, `RepairRejected`, `RepairAdmitted`), as each
replays the container; `Route` is the diagnosis that precedes it. `Raises` is an exception that
leaves the loop.

The container is the set `up` of nodes whose check passes in it, together with the memo of the
tests. `Replay` makes it any set: what an install script leaves is the environment's choice, and so
are the outcomes of the tests (a verified pass, a hollow pass, a failure with a signature), the
diagnosis and the proposals. A failed test run may also cost the container, which the sandbox then
replaces by the baseline without telling the memo (`lost`). `ran` (how the tests really last ended
in this container), `samples` (the last samples of the gate) and `script` (what was last replayed)
are history.

| run | instance | shows |
|---|---|---|
| `v3loop` | a service with a setup recipe and a shared library it needs, which construction predicted or did not find, and which `apt-file` may bring along; with and without a graph; 3 cycles | `SuccessIsVerified`, `UnreplayedIsIngested`, `NoProgressExactly`, `PassIsNotGivenUp`, `NeverInCircles`, `HandOutIsReal`, and, with fairness, `LoopEnds` |
| `v3loop_hollow` | a tool and a service, both known from the start | **violated**: `ServicesBlockSuccess`. The scheduler refuses done while a service is pending and hands out a discover task; the task's passing gate sets `done_flag`, and that door asks for no services. (The end-to-end driver's own verdict asks for more than this reason.) |

`Ingest` is where a graph stops describing its container. What a failed run is found to lack becomes
a node that no check has looked at, or is noted at the node the graph has. A library its output
names goes another way (`test_gate_soname_refresh`, `probe.py:299-472`): if construction only
predicted it, the node keeps its state and may gain a recipe; else a new node takes the place of
whatever the graph held, a satisfied one included, in state MISSING, with the package that was
resolved or with no recipe at all. (`_node_for_discovery` calls the state UNKNOWN, "certify owns
it", `runtime_ingest.py:33`; the refresh decides it without a check.) The search for the package may
install `apt-file` in the container under test, with all it needs, and no new generation is counted.
A library the graph held as satisfied therefore comes back as an obligation, and `GiveUpResidual`,
the door for a finding of what is satisfied already, does not close on it.

So there are states that call missing what passes, obligations whose check was not run in this
container, and an end in which an install was resolved and never replayed. `ingested` is history: what
an ingest has changed since the last replay. `UnreplayedIsIngested` and `HandOutIsReal` say that
this is the only way to any of that, that an obligation's requirements pass all the same, and that
no block comes or goes unreplayed; `GraphDescribesContainer` says the same of the states and is
proved only. The bound of the turns is in the types (`TurnsOverdrawnByOne`): the re-prompt after a
rejected proposal is not checked against the budget.

`NeverInCircles` counts: `StepsLeft` is how many steps the loop can still take, and every step
takes at least one of them, whatever the LLM proposes and the container does. So a run takes at
most `MaxCycles * (2 * MaxRepairs + 9)` steps. A repair that did not count its attempts, or a way
round a cycle that did not count the cycle, would break it.

Bounds. Three cycles: the no-progress counter (2) is seen below, at and after a reset before its
limit, and the cycles run out as well. The caps of hand-outs and of residual cycles are 1, so that
both are met within the cycles there are, whatever an ingest does (2.6 million states);
`v3loop_hollow` has 2 of each. Two nodes with an edge give a frontier with something ready and
something that is not. One failing signature and the hollow pass are two ways not to pass, so a
signature may repeat or change. A proposal makes one edit; several edits come as several proposals.

Not in the model: `GIVEUP_CONFIG` and the action `giveup`, which the driver's configuration and
the scheduler never produce; a missing LLM client (the driver always passes one); the texts of
scopes, prompts and advisories; the order in which eligible obligations are handed out (any may be
first, which includes the code's order). Which packages are installed from a wheel, and so do
without their tools, and which a conflict keeps out of the script are constants (`Wheels`,
`Conflicted`); the theorems hold for all of them, the instances have none.

### 3.6 SetupScript

One cycle of the replay, over any graph. `NextLayer`, `PlaceReady`, `PlaceInCycle`, `PlaceBlock` and
`Finish` are `render_build_script` with `topo_order`, one item at a time; `RunsThrough`,
`UpdateFails` and `BodyFails` are the run of the script under `set -e` with its trap; `Blame` is
what `_binding_emit` makes of it. Of the text of an item only two things matter, and they are
constants: what the trap may report when it fails (`Reports`) and what a search finds in its lines
(`Holds`). They differ where one command is part of another, where a check repeats a command, and
where bash reports a command in another form than it is written in.

| run | instance | shows |
|---|---|---|
| `setup_script` | two packages, two libraries one of whose apt names begins with the other's, a block with an update of its own, two layers, every graph over them | `DependenciesFirst`, `BlamedUnlessSeenBefore` |
| `setup_script_blame` | the same | **violated**: `BlamesWhatFailed`. The reported command is searched from the top and as a substring |

`DependenciesFirst` has two exceptions. Layers go before requirements, and a proposal of the LLM may
put its node in any layer; and behind a cycle (locks of real packages have them, and a package with
extras requires itself) the order falls back to names. A node that leads into no cycle of its layer
is placed soundly all the same, whatever cycles there are beside it. Equal names within a layer are
told apart by the order of a set, so the script is not the same from run to run there. The shared
`apt-get update` stands above the header of its node, and its failure is blamed on the item before.

Four more properties are stated and proved, checked on the instance above, and belong to no run:
`WholeGraphOnce` (the script that is replayed has every node and block, and the project if it can
be installed, each once), `RefreshedOnce` (one `apt-get update`, above all apt nodes),
`LayersInOrder` and `BlamedIsInstalled` (what goes to the repair stands in the script).

Bounds. Two packages give a cycle and two edges to itself, two layers every relation of layer and
requirement; the packages may have the libraries' layer. A block is rendered as one command. Stubs
of unmet needs, whose check lines the search also sees, are left out.

### 3.7 Measure

One action per command of `measure` (build, setup probe, container, probe, gate, tests, report,
removal) in each of the threads, of `run_one` around it, of `main` (the check of
`--delta`, and for `metrics.json` and `errors.json` the `open`, which empties the file, the write
that fills it, and its failure) and of the daemon, in which a build whose client was
killed goes on. An image and a container are known by a slug only, which two repositories may share
(`a/b-c` and `a-b/c`). Any command may fail or raise, a container may die between two of them, those
without a limit may hang for good. `half` says which of the two reports has been
opened and not filled. `disturbed`, `unguarded`, `cut` and `torn` are history.

| run | instance | shows |
|---|---|---|
| `measure` | four environments, two of them with one slug, one failed and one without its Dockerfile, two threads, two starts | `OwnImage`, `NothingLeft`, `ErrorsBesideMetrics`, `DerivedStatusHonest`, and, with fairness, `PoolEnds` |

`ErrorsBesideMetrics` excepts a kill between the two reports, after which an older `errors.json` lies
beside the new `metrics.json`, and a `metrics.json` that is a torso itself (a full disk, a kill
within its write), which readers can tell.

Three more properties are stated and proved, checked on this instance, and belong to no run:
`AtMostConcurrencyMeasured` (environments in flight, and containers as long as no run was killed),
`RowIsFinal` (a resumed run measures nothing again) and `NeverBack` (within a run each step of a
thread takes one environment nearer to its end).

Bounds. Two environments of one slug and two threads give every interference; a third thread would
wait for the same names. The second start meets rows, tags and builds the first has left.

## 4. Fairness

* `FanOut`: weak fairness of the main thread, and of each pool thread. The main thread blocks only
  in `wait` and `sleep`; a pool thread leaves `proc.wait` at the hard wall. Nothing is assumed of
  children, which may hang, nor of the disk: `EveryRepoReported` is about a disk that stays healthy,
  `RunEnds` about one that does in the end.
* `RepoLife`: weak fairness of the worker whose runner waits for it (an orphan may hang for ever), of
  harvest and of the measurement: processes run unless killed, and the measure stage is run once no
  runner is at work. No fault is ever required or excluded.
* `V3Loop`: weak fairness of the one thread of the loop. Each call it makes (LLM, container, tests)
  has a time limit in the driver.
* `Measure`: weak fairness of "some thread that can go on does", nothing stronger: threads are not
  promised a turn each. A command without a limit may hang (`Hangs` takes its thread out), and
  `PoolEnds` says what happens then.
* `Producers`, `V3Artifact` and `SetupScript` state safety only: each is one process after another,
  with no waiting of its own.

## 5. What is proved

For all values of the constants, under the assumptions named in the modules (a list without
repetitions that covers the repositories, positive bounds; for `V3Loop` a finite set of nodes,
distinct names, positive caps; for `SetupScript` names as numbers and blocks of distinct ages).
Every safety and action property of every passing run is a theorem; `PROJECT.json` lists them.

`FanOut_proofs`. `IInv` adds to the types: a slot under refill has something pending and an attempt
left; pending repositories are distinct and not in flight; the slots add up (futures + the slot
under refill + slots given up is the concurrency while something is pending, theorem
`SlotsAlwaysAccounted`); each live child of this launch has a waiting thread, and that an unreaped
future. Without the last the bound on children does not follow from the bound on futures.
`PoolRefinement`: every step maps to a start, a retirement or a restart of `WorkerPool`, or a
stutter. On top of it `CoverInv` (a thread that has ended leaves a row that parses or one that met a
full disk, and what nobody has taken up is pending) gives `ReportIsComplete`, and `FreshInv` (a
child that has yet to write has no row that parses before it) gives `RowFinal` and `PaidOnce`; both
only while no child has outlived its runner, which is where the code stops promising it. The
exception of `ReportIsComplete` is a full disk; `HealthyDiskReportsAll` says that on a disk that
stays healthy there is none: no slot is ever given up (`NothingHeld`), so a launch that is over has
reported all. `ContractKept` is the refinement of `WorkerContract`, repository by repository and for
the children of all launches at once, with nothing assumed about who has outlived whom: a launch
makes at most one child of a repository (`SpawnInv`), and the parent of a child that has been
orphaned is gone.

`WorkerPool_proofs`. What the abstract pool promises, once, for whoever implements it: `PoolIsBounded`
and `PoolKeepsOrder` (what has started is a prefix of the list). `SubmittedInOrder` instantiates the
module with the state of `FanOut` and gets its order from `PoolRefinement`.

`RepoLife_proofs`. As long as no worker has outlived its runner, `IInv` says that only the last
launch is at work (`Alone`); for each place of its worker, which files are already those of this
launch, and that it is there only without a marker (`Staged`); that measure rows are of earlier
launches than the one at work; and that what the measure stage has read is still on disk. `CleanInv`
says that unless a fault has struck, meta and marker say at every stage what the producer returned.
`ContractKept` is the refinement of `WorkerContract` by all workers, orphans beside relaunches
included, and from less: each launch has one worker, and the runner that waits for it is its own.
The writes of the packet are stutters of the agent, the marker is its return.

`Producers_proofs`. The file on disk is of this launch, of one that came to nothing, or of a
repository that is marked and never worked on again (`LeftInv`, `MarkInv`), and how much of it is
there goes with the place of the worker (`ToolInv`); with a pin, what is on disk was made from it
(`PinInv`), whatever tree was left half cloned.

`V3Artifact_proofs`. Each place of a driver has its handles (`HeldInv`); two launches at work at once
have been noted as such (`AloneInv`), so that one that has not may count on the files it made
(`OwnInv`), stage by stage.

`V3Loop_proofs`, in parts that are each inductive, or so over the ones before:

* `GraphInv`: types of the graph, that its states describe the container but for what an ingest has
  made missing since (theorem `GraphDescribes`), and that no node the host does not check is ever
  satisfied. With `LostInv` (a baseline restored under a test run is never in place where the
  scheduler hands out) it gives `HandOutsAreReal`.
* `ScriptInv`: on the way from a replay to its certification the script is the one replayed;
  elsewhere it differs in what an ingest has written at most. It gives `UnreplayedIngested`.
* `DoorInv`: a memo that is current is the outcome of this container; the scheduler's done and a
  report of a pass stand on a current memo until their door closes, the first also on no pending
  service; a reason to stop is given once. It gives `SuccessVerified`, `DoneHonours` and
  `PassNotGivenUp`; the last needs that a stalled signature is not a pass.
* `BudgetInv`: wherever a repair can start a turn is left, and one in progress has spent at most one
  more than are left. It gives `Overdrawn`. With the types it bounds the fuel (`FuelFacts`), and
  each step spends of it (`EveryStepShrinks`, one lemma per kind of step): `NoCircles`.
* `StallInv`: the counter is the length of the run of the last signature at the end of the samples,
  and the sample before that run differs. It gives `NoProgress`, both directions.
* `SchedulerInv`, `ControlInv`: the other counters are below their caps as long as the loop runs.
  With all of the above, `TypeCorrect`.

`SetupScript_proofs`. The walk has put everything behind it into the script (`PlacedInv`); what
`topo_order` places while nothing is ready is no node of a set that leads into no cycle
(`CycleBehind`: such a set meets what is left in a part that has a member with nothing to wait for).
Together they give `OrderIsSound`. `BlameIsSound`: the reported text is in the item that failed, so
its first occurrence is there or above, by the least element of a set of numbers (`Least`).
`Complete` adds what stands in the script: nothing that is still to come (`OnlyPlaced`), each item
once, blocks too, and an update iff an apt node. An item that is left or waits is therefore in no
entry yet, which keeps the walk from repeating one; at the end nothing is left, which gives
`NothingLost`, `RefreshIsSound`, `LayersAreSound`, and with them `BlameIsInstalled`.

`Measure_proofs`. `AloneInv` and `DraftOwn`: as long as no other environment of its slug is in
flight, the tag, the container and what was read are its own, hence `RowsAreOwn`; with distinct
slugs nobody is ever disturbed, and every row is its own (`DistinctSlugs`). `OwnedInv`: every image
and container has somebody in flight who will remove it, hence `EverythingRemoved`, and, since no
two containers have the same owner, `PoolIsBounded` (`BoxesOfFlying`, an injection). `HonestInv`
follows the flags of a row through the stages to the status they allow. Who is in flight has no row
yet (`RowOpen`), hence `MeasuredOnce`. `ReportInv` goes through the two reports step by step: the
first is of this run and whole before the second is opened, and that is taken away by whatever
raises; hence `ReportsMatch`. `ThreadStep` says what a step of a thread does to its place,
whichever it is; `NoCircles` and the lemmas of the pool rest on it.

Only model-checked: liveness, that is `EveryRepoReported`, `RunEnds`, `EveryRepoMeasured`,
`PoolEnds` and `LoopEnds`, since fairness and ENABLED are out of the prover's reach. Of three of
them the safety half is proved: that the loop and the pool take a bounded number of steps
(`NoCircles` of `V3Loop` and of `Measure`), and that a launch which is over on a healthy disk has
reported every repository (`HealthyDiskReportsAll`). What is left to TLC is that they do take their
steps: that no state before the end is stuck. No operator is recursive.

## 6. Disagreements found

| run | where | what |
|---|---|---|
| `repolife_killed` | `runner/benchmark.py:736` | a worker killed before its packet leaves no `_meta.json`, and counts as a run from before the contract |
| `producers_stale` | `producers/sweagent_repo2run.py:189` | the file of an earlier SWE-agent launch is handed over as this one's |
| `v3loop_hollow` | `orchestrator.py:1300` | success with a pending service, through `done_flag` |
| `setup_script_blame` | `install_localizer.py:38` | a node that did not fail is repaired |

## 7. What is not modelled

* Pure text and tables: languages, scorers, error classes, reports, rewriting of Dockerfiles,
  prompts, costs and tokens. No control depends on them. The summary of costs that is copied from a
  workplace all runs on a machine share (`benchmark.py:318`) is among them, the one hazard of the
  list no property covers.
* The construction of the graph, one sequential pass over pip and apt, whose result is a constant of
  `V3Loop` and `SetupScript`; the stages after the loop (cleanroom, synthesis, proof).
* The older loop `run_v1`, which only tests call, and the waves of `emit.py`, which the replay of
  run_v3 does not use.
* The repair port returns before its first round, since no producer writes the recipe it reads, and
  `run_repo2run_benchmark.py` and `run_rat_benchmark.py` import an agent and models that are not in
  the repository. None of them runs.
* `rat/` is a third-party framework that is run as a tool; the tools of `Producers` are external in
  the same sense. What they leave in the daemon when their limit strikes, and the name of the Claude
  Code container, which `a/b-c` and `a-b/c` share, are not followed.
* Without a pin the commit that is analysed and the one that is built may differ when the branch
  moves in between; `Producers` and `V3Artifact` promise something only with a pin.
* CLI, manifest, registry and provisioning: a sequential prologue, see the plan.

`PROJECT.json` lists every component with its reason.
