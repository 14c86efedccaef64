------------------------------- MODULE Measure -------------------------------
(* The measure stage: unified_bench.main runs a thread pool, each thread takes *)
(* one harvested environment through run_one and measure (build the image,     *)
(* start a container, probe, gate, test, read the report, remove), and the     *)
(* rows are then aggregated.  All threads share one docker daemon, whose       *)
(* images and containers are addressed by a slug of agent and repository.      *)
EXTENDS Integers, FiniteSets

CONSTANTS
    Envs,            \* places in the list discover() returned, of agent and repository
    None,
    Slugs,
    Slug,            \* [Envs -> Slugs]: lowercased, with / written as -
    Harvested,       \* [Envs -> HarvestStatus]
    Bare,            \* environments without a Dockerfile
    ShortCircuits,   \* environments whose language skips the tests of a failed gate
    Concurrency,     \* --concurrency
    MaxRuns          \* bound: starts of the process on one output directory

HarvestStatus == {"ok", "legacy_ok", "produced", "error", "unmeasurable",
                  "legacy_missing", "missing"}

ASSUME EnvAssumption == /\ Envs \subseteq Nat /\ None \notin Envs
                        /\ Slug \in [Envs -> Slugs]
                        /\ Harvested \in [Envs -> HarvestStatus]
ASSUME RunsAssumption == Concurrency \in Nat \ {0} /\ MaxRuns \in Nat \ {0}

VARIABLES
    pc,          \* where run_one stands with an environment
    draft,       \* the locals of measure: the row it is going to return
    row,         \* row.json
    image,       \* daemon: the environment whose build the tag bench-<slug> names
    setupImage,  \* daemon: the same of the tag bench-<slug>-setupprobe
    container,   \* daemon: the environment whose image the container <slug> runs
    late,        \* builds that go on in the daemon after the process was killed
    phase,       \* of main
    run,         \* starts so far
    metrics,     \* the run that opened metrics.json last, 0 if there is none
    errors,      \* the run that opened errors.json last
    half,        \* which of the two are opened (and so emptied) and not whole
    disturbed,   \* history: another environment of the slug was in flight
    unguarded,   \* history: environments that left measure outside its try
    cut,         \* history: some run was killed while it measured
    torn         \* history: a run was killed when it had only written metrics.json

daemon  == <<image, setupImage, container>>
output  == <<metrics, errors, half, torn>>
history == <<disturbed, unguarded, cut>>
vars    == <<pc, draft, row, late, phase, run, daemon, output, history>>

Measurable == {"ok", "legacy_ok", "produced"}
Unrebuilt  == {"unmeasurable", "error", "legacy_missing", "missing"}
Probed     == {"conforming", "non_conforming"}    \* the latter: empty_testbed as well
Status     == Unrebuilt \cup (Probed \ {"conforming"}) \cup
    {"build_fail", "gate_fail", "measure_error", "timed_out", "collect_error",
     "executed", "no_tests_collected"}

(* readFrom is history: whose images the container ran when the row was read. *)
Rows == [status : Status \cup {"pending"}, build : BOOLEAN, clean : BOOLEAN,
         timed : BOOLEAN, executed : BOOLEAN, infra : BOOLEAN,
         readFrom : SUBSET Envs]

Blank == [status |-> "pending", build |-> FALSE, clean |-> FALSE, timed |-> FALSE,
          executed |-> FALSE, infra |-> FALSE, readFrom |-> {}]
NoRow == Blank

InFlight(e) == pc[e] \notin {"waiting", "settled"}
Twins(e)    == {f \in Envs \ {e} : Slug[f] = Slug[e]}
Busy        == Cardinality({e \in Envs : InFlight(e)})

-----------------------------------------------------------------------------
Init ==
    /\ pc = [e \in Envs |-> "waiting"]
    /\ draft = [e \in Envs |-> Blank]
    /\ row = [e \in Envs |-> NoRow]
    /\ image = [s \in Slugs |-> None]
    /\ setupImage = [s \in Slugs |-> None]
    /\ container = [s \in Slugs |-> None]
    /\ late = {}
    /\ phase = "measuring" /\ run = 1 /\ metrics = 0 /\ errors = 0 /\ half = {}
    /\ disturbed = {} /\ unguarded = {} /\ cut = FALSE /\ torn = FALSE

Becomes(e, at)    == pc' = [pc EXCEPT ![e] = at]
Drafts(e, d)      == draft' = [draft EXCEPT ![e] = d]
Writes(e, r)      == /\ row' = [row EXCEPT ![e] = r]
                     /\ Drafts(e, Blank)
                     /\ Becomes(e, "settled")
KeepDaemon        == UNCHANGED daemon
KeepMain          == UNCHANGED <<phase, run, output>>
KeepHistory       == UNCHANGED history
Thread            == KeepMain /\ UNCHANGED late

(* A pool thread is free and takes the first environment left in the list. *)
Takes(e) == /\ phase = "measuring" /\ Busy < Concurrency
            /\ pc[e] = "waiting" /\ \A f \in Envs : pc[f] = "waiting" => e <= f

(* row.json exists: resume, whatever the row says. *)
SkipMeasured(e) ==
    /\ Takes(e)
    /\ row[e] # NoRow
    /\ Becomes(e, "settled")
    /\ Thread /\ KeepDaemon /\ KeepHistory /\ UNCHANGED <<draft, row>>

(* Mutant: a produced packet without a Dockerfile keeps its own status. *)
RecordUnrebuiltVerbatim(e) ==
    /\ Takes(e)
    /\ row[e] = NoRow
    /\ Harvested[e] \notin Measurable \/ e \in Bare
    /\ Writes(e, [Blank EXCEPT !.status = Harvested[e]])
    /\ Thread /\ KeepDaemon /\ KeepHistory

(* Nothing to rebuild: the status of the packet is the status of the row. *)
RecordUnrebuilt(e) ==
    /\ Takes(e)
    /\ row[e] = NoRow
    /\ Harvested[e] \notin Measurable \/ e \in Bare
    /\ Writes(e, [Blank EXCEPT !.status =
            IF Harvested[e] \in Unrebuilt THEN Harvested[e] ELSE "missing"])
    /\ Thread /\ KeepDaemon /\ KeepHistory

Start(e) ==
    /\ Takes(e)
    /\ row[e] = NoRow
    /\ Harvested[e] \in Measurable /\ e \notin Bare
    /\ Becomes(e, "building")
    /\ LET flying == {f \in Twins(e) : InFlight(f)}
       IN  disturbed' = (disturbed \ {e}) \cup flying \cup
                            (IF flying = {} THEN {} ELSE {e})
    /\ Thread /\ KeepDaemon /\ UNCHANGED <<draft, row, unguarded, cut>>

(* Mutant: an image that has the tag already is taken for the cached build. *)
BuildCached(e) ==
    /\ pc[e] = "building"
    /\ image' = [image EXCEPT ![Slug[e]] = IF @ = None THEN e ELSE @]
    /\ Drafts(e, [draft[e] EXCEPT !.build = TRUE])
    /\ Becomes(e, "built")
    /\ Thread /\ KeepHistory /\ UNCHANGED <<row, setupImage, container>>

(* docker build -t: the tag moves to the image just built. *)
BuildOk(e) ==
    /\ pc[e] = "building"
    /\ image' = [image EXCEPT ![Slug[e]] = e]
    /\ Drafts(e, [draft[e] EXCEPT !.build = TRUE])
    /\ Becomes(e, "built")
    /\ Thread /\ KeepHistory /\ UNCHANGED <<row, setupImage, container>>

BuildFails(e) ==
    /\ pc[e] = "building"
    /\ Becomes(e, "setup")
    /\ Thread /\ KeepDaemon /\ KeepHistory /\ UNCHANGED <<draft, row>>

(* The client is killed at the time limit; the daemon may just have finished. *)
BuildOverruns(e) ==
    /\ pc[e] = "building"
    /\ Becomes(e, "setup")
    /\ image' \in {image, [image EXCEPT ![Slug[e]] = e]}
    /\ unguarded' = unguarded \cup {e}
    /\ Thread /\ UNCHANGED <<draft, row, setupImage, container, disturbed, cut>>

(* _probe_setup_compile: the setup step cannot be located in the Dockerfile. *)
SetupUnlocated(e) ==
    /\ pc[e] = "setup"
    /\ Writes(e, [draft[e] EXCEPT !.status = "build_fail"])
    /\ Thread /\ KeepDaemon /\ KeepHistory

(* The Dockerfile cut off after the setup step is built under a tag of its own. *)
SetupBuilds(e, ok) ==
    /\ pc[e] = "setup"
    /\ setupImage' = IF ok THEN [setupImage EXCEPT ![Slug[e]] = e] ELSE setupImage
    /\ Becomes(e, "setupbuilt")
    /\ Thread /\ KeepHistory /\ UNCHANGED <<draft, row, image, container>>

SetupRemoved(e) ==
    /\ pc[e] = "setupbuilt"
    /\ setupImage' = [setupImage EXCEPT ![Slug[e]] = None]
    /\ Writes(e, [draft[e] EXCEPT !.status = "build_fail"])
    /\ Thread /\ KeepHistory /\ UNCHANGED <<image, container>>

(* An exception outside the try of measure: run_one makes a row of it. *)
Raises(e) ==
    /\ pc[e] \in {"building", "setup", "built"}
    /\ Writes(e, [Blank EXCEPT !.status = "measure_error"])
    /\ setupImage' = IF pc[e] = "setup" THEN [setupImage EXCEPT ![Slug[e]] = None]
                                        ELSE setupImage
    /\ unguarded' = unguarded \cup {e}
    /\ Thread /\ UNCHANGED <<image, container, disturbed, cut>>

-----------------------------------------------------------------------------
(* run_detached first removes whatever container has the name ... *)
ClearName(e) ==
    /\ pc[e] = "built"
    /\ container' = [container EXCEPT ![Slug[e]] = None]
    /\ Becomes(e, "cleared")
    /\ Thread /\ KeepHistory /\ UNCHANGED <<draft, row, image, setupImage>>

(* ... and runs what the tag names now. *)
RunContainer(e) ==
    /\ pc[e] = "cleared"
    /\ container[Slug[e]] = None /\ image[Slug[e]] # None
    /\ container' = [container EXCEPT ![Slug[e]] = image[Slug[e]]]
    /\ Becomes(e, "running")
    /\ Thread /\ KeepHistory /\ UNCHANGED <<draft, row, image, setupImage>>

(* Mutant: the start of the container stands before the try. *)
RunOutsideTry(e) ==
    /\ pc[e] = "cleared"
    /\ Writes(e, [Blank EXCEPT !.status = "measure_error", !.infra = TRUE])
    /\ Thread /\ KeepDaemon /\ KeepHistory

(* Mutant: docker run is retried for as long as the name is taken. *)
RunRetried(e) ==
    /\ pc[e] = "cleared" /\ image[Slug[e]] = None
    /\ Drafts(e, [Blank EXCEPT !.status = "measure_error", !.infra = TRUE])
    /\ Becomes(e, "removing")
    /\ Thread /\ KeepDaemon /\ KeepHistory /\ UNCHANGED row

(* docker run exits 125 (the name or the tag is gone, or the daemon says no): *)
(* CalledProcessError, the finally, and a row of run_one.                     *)
RunRefused(e) ==
    /\ pc[e] = "cleared"
    /\ Drafts(e, [Blank EXCEPT !.status = "measure_error", !.infra = TRUE])
    /\ Becomes(e, "removing")
    /\ Thread /\ KeepDaemon /\ KeepHistory /\ UNCHANGED row

Seen(there) == {there} \ {None}

(* docker exec reads from whatever container has the name; without one it fails *)
(* with no output, which the probe takes for non_conforming and the gate for a  *)
(* failure.                                                                     *)
Probe(e, verdict) ==
    LET there == container[Slug[e]] IN
    /\ pc[e] = "running"
    /\ there = None => verdict = "non_conforming"
    /\ Drafts(e, [draft[e] EXCEPT !.readFrom = @ \cup Seen(there),
            !.status = IF verdict = "conforming" THEN "pending" ELSE verdict])
    /\ Becomes(e, "probed")
    /\ Thread /\ KeepDaemon /\ KeepHistory /\ UNCHANGED row

(* The gate runs for every probed environment, for the record; then the row is *)
(* complete unless the tests are to run.                                       *)
Gate(e, clean) ==
    LET there    == container[Slug[e]]
        denied   == draft[e].status # "pending"
        gateFail == e \in ShortCircuits /\ ~clean
    IN
    /\ pc[e] = "probed"
    /\ there = None => ~clean
    /\ Drafts(e, [draft[e] EXCEPT !.readFrom = @ \cup Seen(there), !.clean = clean,
            !.status = IF ~denied /\ gateFail THEN "gate_fail" ELSE @])
    /\ Becomes(e, IF denied \/ gateFail THEN "removing" ELSE "testing")
    /\ Thread /\ KeepDaemon /\ KeepHistory /\ UNCHANGED row

(* The one exec with a time limit; past it the tests go on in the container. *)
RunTests(e, timed) ==
    /\ pc[e] = "testing"
    /\ container[Slug[e]] = None => ~timed
    /\ Drafts(e, [draft[e] EXCEPT !.timed = timed])
    /\ Becomes(e, "reporting")
    /\ Thread /\ KeepDaemon /\ KeepHistory /\ UNCHANGED row

(* Mutant: a failed gate is looked at before the time limit. *)
VerdictGateFirst(d) ==
    CASE ~d.clean             -> "collect_error"
      [] d.clean /\ d.timed   -> "timed_out"
      [] d.clean /\ ~d.timed /\ d.executed  -> "executed"
      [] d.clean /\ ~d.timed /\ ~d.executed -> "no_tests_collected"

(* First match wins: a report may well hold executed tests under timed_out or *)
(* collect_error.                                                             *)
Verdict(d) ==
    CASE d.timed                -> "timed_out"
      [] ~d.timed /\ ~d.clean   -> "collect_error"
      [] ~d.timed /\ d.clean /\ d.executed  -> "executed"
      [] ~d.timed /\ d.clean /\ ~d.executed -> "no_tests_collected"

ReadReport(e, executed) ==
    LET there  == container[Slug[e]]
        report == [draft[e] EXCEPT !.readFrom = @ \cup Seen(there),
                                      !.executed = executed]
    IN
    /\ pc[e] = "reporting"
    /\ there = None => ~executed
    /\ Drafts(e, [report EXCEPT !.status = Verdict(report)])
    /\ Becomes(e, "removing")
    /\ Thread /\ KeepDaemon /\ KeepHistory /\ UNCHANGED row

(* The finally of measure: docker rm -f, then docker rmi, which refuses while a *)
(* container runs the image.                                                    *)
RemoveContainer(e) ==
    /\ pc[e] = "removing"
    /\ container' = [container EXCEPT ![Slug[e]] = None]
    /\ Becomes(e, "untagging")
    /\ Thread /\ KeepHistory /\ UNCHANGED <<draft, row, image, setupImage>>

(* Written through row.json.tmp and os.replace, so there is no half of a row. *)
RemoveImageAndWrite(e) ==
    LET s     == Slug[e]
        inUse == container[s] # None /\ container[s] = image[s]
    IN
    /\ pc[e] = "untagging"
    /\ image' = IF inUse THEN image ELSE [image EXCEPT ![s] = None]
    /\ Writes(e, draft[e])
    /\ Thread /\ KeepHistory /\ UNCHANGED <<setupImage, container>>

(* Every exec but that of the tests has no time limit: it may never return. *)
Hangs(e) ==
    /\ pc[e] \in {"running", "probed", "reporting"}
    /\ Becomes(e, "hung")
    /\ Thread /\ KeepDaemon /\ KeepHistory /\ UNCHANGED <<draft, row>>

(* A container dies on its own (memory, an operator, the daemon). *)
Dies(s) ==
    /\ phase = "measuring" /\ container[s] # None
    /\ container' = [container EXCEPT ![s] = None]
    /\ Thread /\ KeepHistory /\ UNCHANGED <<pc, draft, row, image, setupImage>>

-----------------------------------------------------------------------------
Aggregates == KeepDaemon /\ KeepHistory /\ UNCHANGED <<pc, draft, row, late, run>>

(* The pool is joined; a --delta of agents without rows, or an exception before  *)
(* the first report is opened, ends the run.                                     *)
RejectDelta ==
    /\ phase = "measuring" /\ \A e \in Envs : pc[e] = "settled"
    /\ phase' = "down"
    /\ Aggregates /\ UNCHANGED output

(* open(..., "w") empties the metrics.json of an earlier run ... *)
OpenMetrics ==
    /\ phase = "measuring" /\ \A e \in Envs : pc[e] = "settled"
    /\ metrics' = run /\ half' = half \cup {"metrics"}
    /\ phase' = "metrics"
    /\ Aggregates /\ UNCHANGED <<errors, torn>>

(* ... and the dump fills it, *)
WriteMetrics ==
    /\ phase = "metrics"
    /\ half' = half \ {"metrics"}
    /\ phase' = "classifying"
    /\ Aggregates /\ UNCHANGED <<metrics, errors, torn>>

(* or raises (the disk is full): the run ends, and an older errors.json stays. *)
MetricsFail ==
    /\ phase = "metrics"
    /\ phase' = "down"
    /\ Aggregates /\ UNCHANGED output

OpenErrors ==
    /\ phase = "classifying"
    /\ errors' = run /\ half' = half \cup {"errors"}
    /\ phase' = "errors"
    /\ Aggregates /\ UNCHANGED <<metrics, torn>>

WriteErrors ==
    /\ phase = "errors"
    /\ half' = half \ {"errors"} /\ torn' = FALSE
    /\ phase' = "down"
    /\ Aggregates /\ UNCHANGED <<metrics, errors>>

(* Mutant: the errors.json of an earlier run stays. *)
ClassifyFailsKeeping ==
    /\ phase \in {"classifying", "errors"}
    /\ torn' = FALSE
    /\ phase' = "down"
    /\ Aggregates /\ UNCHANGED <<metrics, errors, half>>

(* Classification or the dump raises: errors.json is taken away, whoever wrote it. *)
ClassifyFails ==
    /\ phase \in {"classifying", "errors"}
    /\ errors' = 0 /\ half' = half \ {"errors"} /\ torn' = FALSE
    /\ phase' = "down"
    /\ Aggregates /\ UNCHANGED metrics

(* The process is killed.  Its docker build clients may survive it. *)
Kill ==
    /\ phase # "down"
    /\ phase' = "down"
    /\ \E L \in SUBSET {e \in Envs : pc[e] = "building"} : late' = late \cup L
    /\ pc' = [e \in Envs |-> "settled"]
    /\ draft' = [e \in Envs |-> Blank]
    /\ cut' = (cut \/ phase = "measuring")
    /\ torn' = (torn \/ phase \in {"classifying", "errors"})
    /\ KeepDaemon /\ UNCHANGED <<row, run, metrics, errors, half, disturbed, unguarded>>

LateBuildLands(e) ==
    /\ e \in late
    /\ late' = late \ {e}
    /\ image' = [image EXCEPT ![Slug[e]] = e]
    /\ disturbed' = disturbed \cup {f \in Twins(e) : InFlight(f)}
    /\ KeepMain
    /\ UNCHANGED <<pc, draft, row, setupImage, container, unguarded, cut>>

(* The same output directory again; --aggregate-only measures nothing. *)
Restart(aggregateOnly) ==
    /\ phase = "down" /\ run < MaxRuns
    /\ phase' = "measuring" /\ run' = run + 1
    /\ pc' = [e \in Envs |-> IF aggregateOnly THEN "settled" ELSE "waiting"]
    /\ KeepDaemon /\ KeepHistory /\ UNCHANGED <<draft, row, late, output>>

Works(e) ==
    \/ SkipMeasured(e) \/ RecordUnrebuilt(e) \/ Start(e)
    \/ BuildOk(e) \/ BuildFails(e) \/ BuildOverruns(e)
    \/ SetupUnlocated(e) \/ \E ok \in BOOLEAN : SetupBuilds(e, ok)
    \/ SetupRemoved(e) \/ Raises(e)
    \/ ClearName(e) \/ RunContainer(e) \/ RunRefused(e)
    \/ \E verdict \in Probed : Probe(e, verdict)
    \/ \E b \in BOOLEAN : Gate(e, b) \/ RunTests(e, b) \/ ReadReport(e, b)
    \/ RemoveContainer(e) \/ RemoveImageAndWrite(e)

Main == \/ RejectDelta \/ OpenMetrics \/ WriteMetrics \/ MetricsFail
        \/ OpenErrors \/ WriteErrors \/ ClassifyFails

Next ==
    \/ \E e \in Envs : Works(e) \/ Hangs(e) \/ LateBuildLands(e)
    \/ \E s \in Slugs : Dies(s)
    \/ Main \/ Kill
    \/ \E b \in BOOLEAN : Restart(b)

Spec == Init /\ [][Next]_vars

(* Some thread that can go on does: docker answers, or its client is stopped at *)
(* its limit, save where Hangs says otherwise.                                  *)
FairSpec == Spec /\ WF_vars(Main \/ \E e \in Envs : Works(e))

-----------------------------------------------------------------------------
TypeOK ==
    /\ pc \in [Envs -> {"waiting", "settled", "building", "setup", "setupbuilt",
                        "built", "cleared", "running", "probed", "testing",
                        "reporting", "removing", "untagging", "hung"}]
    /\ draft \in [Envs -> Rows] /\ row \in [Envs -> Rows]
    /\ image \in [Slugs -> Envs \cup {None}]
    /\ setupImage \in [Slugs -> Envs \cup {None}]
    /\ container \in [Slugs -> Envs \cup {None}]
    /\ late \subseteq Envs /\ disturbed \subseteq Envs /\ unguarded \subseteq Envs
    /\ phase \in {"measuring", "metrics", "classifying", "errors", "down"}
    /\ run \in 1..MaxRuns /\ metrics \in 0..run /\ errors \in 0..run
    /\ half \subseteq {"metrics", "errors"} /\ cut \in BOOLEAN /\ torn \in BOOLEAN

(* What a row says was read off one's own image, and a credit was read at all. *)
ReadsOwn(e, r) == /\ r.readFrom \subseteq {e}
                  /\ r.clean \/ r.executed => r.readFrom # {}

(* A row describes its own environment's image, whatever a killed run left in *)
(* the daemon under the same slug, unless another environment of the slug was *)
(* in flight at the same time (measure.py:238: tag and name are one slug).    *)
OwnImage == \A e \in Envs : e \notin disturbed => ReadsOwn(e, row[e])

(* Once a run is over, no container is left, and an image only by a measurement *)
(* that left measure before its try (a build past its limit, an exception), as  *)
(* long as no run was killed: the finally of one thread never outruns another's *)
(* (measure.py:351).                                                            *)
NothingLeft ==
    (\A e \in Envs : ~InFlight(e)) /\ ~cut =>
        \A s \in Slugs : /\ container[s] = None /\ setupImage[s] = None
                         /\ image[s] \in unguarded \cup {None}

(* Two whole reports that lie beside each other are of the same run, whichever way *)
(* the runs before ended, and whatever write failed, except after a kill between   *)
(* the two writes; and but for such a kill no half of an errors.json ever stays    *)
(* (unified_bench.py:171-178).                                                     *)
ErrorsBesideMetrics ==
    phase = "down" /\ ~torn =>
        /\ "metrics" \notin half => errors \in {0, metrics}
        /\ "errors" \notin half

(* legacy_status: what is made of a row that has lost its status. *)
Derived(e) ==
    LET r == row[e] IN
    CASE Harvested[e] \notin Measurable -> "missing"
      [] Harvested[e] \in Measurable /\ r.infra -> "measure_error"
      [] Harvested[e] \in Measurable /\ ~r.infra /\ ~r.build -> "build_fail"
      [] OTHER -> IF r.timed THEN "timed_out"
                  ELSE IF ~r.clean THEN "unknown_conformance"
                  ELSE IF r.executed THEN "executed" ELSE "no_tests_collected"

(* The statuses a derived one may stand for. *)
StandsFor == [
    missing             |-> Unrebuilt,
    measure_error       |-> {"measure_error"},
    build_fail          |-> {"build_fail", "measure_error", "missing"},
    timed_out           |-> {"timed_out"},
    unknown_conformance |-> {"collect_error", "gate_fail", "non_conforming"},
    executed            |-> {"executed"},
    no_tests_collected  |-> {"no_tests_collected", "non_conforming"}]

(* A status derived by verdict.py for a row stored without one is a status that *)
(* measure could have given the same row; in particular a derived executed or   *)
(* timed_out never flatters a row that measure denied (verdict.py:59-73).       *)
DerivedStatusHonest ==
    \A e \in Envs : row[e] # NoRow => row[e].status \in StandsFor[Derived(e)]

(* No more environments are measured at a time than --concurrency allows, in the  *)
(* order of the list; and there are no more containers than that on the machine,  *)
(* unless a killed run has left some (unified_bench.py:140, measure.py:295).       *)
Boxed == {s \in Slugs : container[s] # None}
AtMostConcurrencyMeasured ==
    /\ Busy <= Concurrency
    /\ ~cut => Cardinality(Boxed) <= Concurrency
    /\ \A e, f \in Envs : f < e /\ pc[f] = "waiting" => pc[e] = "waiting"

(* A row, once written, is never measured again or written over, however often the *)
(* process is killed and started on the same directory.                            *)
RowIsFinal == [][\A e \in Envs : row[e] # NoRow => row'[e] = row[e]]_vars

(* The pool never goes in circles: within a run every step of a thread takes one    *)
(* environment nearer to its end, and leaves the others where they are.            *)
StepsOf == [waiting |-> 10, building |-> 9, built |-> 8, cleared |-> 7, running |-> 6,
            probed |-> 5, testing |-> 4, reporting |-> 3, removing |-> 2, untagging |-> 1,
            setup |-> 2, setupbuilt |-> 1, hung |-> 0, settled |-> 0]
NeverBack ==
    [][phase = "measuring" /\ phase' = "measuring" /\ pc' # pc =>
          \E e \in Envs : /\ StepsOf[pc'[e]] < StepsOf[pc[e]]
                          /\ \A f \in Envs \ {e} : pc'[f] = pc[f]]_vars

(* The pool is joined, unless untimed commands hang (docker_client.py:45: no   *)
(* limit but that of the tests); and then every other environment has got its  *)
(* row all the same, as long as one thread of the pool is left to work.        *)
Hung == {e \in Envs : pc[e] = "hung"}
PoolEnds ==
    phase = "measuring" ~>
        \/ phase # "measuring"
        \/ Hung # {} /\ \A e \in Envs \ Hung : row[e] # NoRow
        \/ Cardinality(Hung) >= Concurrency
=============================================================================
