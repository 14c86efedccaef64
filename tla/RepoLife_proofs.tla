--------------------------- MODULE RepoLife_proofs ---------------------------
(* What a marker vouches for, for every number of launches and of faults; and    *)
(* what holds of the workers whoever kills which of them, and however many of    *)
(* them have outlived their runners.                                             *)
EXTENDS RepoLife, TLAPS

(* Every launch has a worker at most, and only its own steps move it. *)
NotYet == \A g \in Launches : g > launch => pc[g] = "none"

(* Nobody is at work beside the last launch, unless some worker has outlived its runner. *)
Alone == outlived = {} => \A g \in Launches : g # launch => pc[g] \notin Busy

(* The producer is only ever at work on a repository without a marker, and each *)
(* stage of write_env_packet has the files of the stages before it behind it.   *)
Staged(g) ==
    /\ pc[g] \in {"cleared", "merging"} \cup Producing => marker = 0
    /\ pc[g] \in {"dockerfile", "scripts", "meta", "marker"} => raw = 0
    /\ pc[g] \in {"scripts", "meta", "marker"} => dockerfile = g
    /\ pc[g] \in {"meta", "marker"} => scripts = g
    /\ pc[g] = "marker" => meta = [status |-> "produced", by |-> g]
ProducingInv == outlived = {} => \A g \in Launches : Staged(g)

(* A measure row is never newer than the launch it was taken after, and a worker *)
(* finds only rows of launches before its own.                                   *)
MeasuredBefore ==
    /\ mrow.launch <= launch
    /\ outlived = {} => \A g \in Launches : pc[g] \in Busy => mrow.launch < g

(* No runner is at work beside the measure stage, which holds the packet on disk. *)
HarvestCurrent ==
    /\ measuring => launch > 0 /\ RunnerGone
    /\ measuring /\ marker # 0 /\ outlived = {} =>
        harvested = [status |-> "produced", dockerfile |-> marker, scripts |-> marker,
                     raw |-> FALSE]

Rest == /\ NotYet
        /\ Alone
        /\ ProducingInv
        /\ MarkedPacketCoherent
        /\ MeasuredBefore
        /\ HarvestCurrent
        /\ MarkedIsWhatIsMeasured

IInv == TypeOK /\ Rest

(* Unless a fault has struck, meta and marker say what the producer returned once *)
(* its worker is done, and a build has been of the marked packet.                 *)
Fresh == env = "none" /\ meta.status = "none" /\ marker = 0 /\ ~report /\ row = "none"
Done  == env \in Declared /\ meta.status = env /\ (env = "produced" => marker # 0)
CleanInv ==
    harm = 0 =>
        /\ outlived = {}
        /\ launch = 0 => Fresh
        /\ marker # 0 => env = "produced"
        /\ \A g \in Launches :
            /\ pc[g] # "killed"
            /\ g = launch /\ pc[g] \in {"start", "boot"} => Fresh \/ Done
            /\ pc[g] \in {"dockerfile", "scripts", "meta", "marker"} => env = "produced"
            /\ pc[g] \in {"drop", "errmeta"} => env = "error"
            /\ g = launch /\ pc[g] \in {"row", "rowing", "merge", "exit", "dead"} => Done
            /\ pc[g] = "merging" => env = "error" /\ kept[g].status = env
        /\ measuring => harvested.status = env
        /\ mrow.status = "built" => ~mrow.env.raw /\ mrow.env.dockerfile = mrow.env.scripts


-----------------------------------------------------------------------------
(* Every step keeps the types: versions are launches so far. *)
LEMMA WorkerTypes ==
    ASSUME TypeOK, NEW g \in Launches, Worker(g) \/ Fault(g)
    PROVE  TypeOK'
<1> USE LaunchAssumption, KindAssumption
    DEF TypeOK, Launches, Versions, Metas, NoMeta, Declared, Busy, AtWork, Producing, Goes,
        Returns, KeepOutside, memory, packet, runner, measured
<1>1. CASE SkipSettled(g)
    BY <1>1 DEF SkipSettled
<1>2. CASE Start(g)
    BY <1>2 DEF Start
<1>3. CASE Resume(g)
    <2>1. CASE RowReadable
        BY <1>3, <2>1 DEF Resume
    <2>2. CASE ~RowReadable
        BY <1>3, <2>2 DEF Resume
    <2> QED
        BY <2>1, <2>2
<1>4. CASE Clear(g)
    BY <1>4 DEF Clear
<1>5. CASE InvokeAgent(g)
    BY <1>5 DEF InvokeAgent
<1>6. CASE ToolReports(g)
    BY <1>6 DEF ToolReports
<1>7. CASE ToolWritesRaw(g)
    BY <1>7 DEF ToolWritesRaw
<1>8. CASE ReturnsProduced(g)
    BY <1>8 DEF ReturnsProduced
<1>9. CASE ReturnsFailure(g)
    BY <1>9 DEF ReturnsFailure
<1>10. CASE WriteDockerfile(g)
    BY <1>10 DEF WriteDockerfile
<1>11. CASE WriteScripts(g)
    BY <1>11 DEF WriteScripts
<1>12. CASE BuildDirGone(g)
    BY <1>12 DEF BuildDirGone
<1>13. CASE WriteMeta(g)
    BY <1>13 DEF WriteMeta
<1>14. CASE WriteMarker(g)
    BY <1>14 DEF WriteMarker
<1>15. CASE DropBuild(g)
    BY <1>15 DEF DropBuild
<1>16. CASE WriteFailureMeta(g)
    BY <1>16 DEF WriteFailureMeta
<1>17. CASE OpenRow(g)
    BY <1>17 DEF OpenRow
<1>18. CASE WriteRow(g)
    BY <1>18 DEF WriteRow
<1>19. CASE KeepMeta(g)
    BY <1>19 DEF KeepMeta
<1>20. CASE MergeMeta(g)
    BY <1>20 DEF MergeMeta
<1>21. CASE WriteMergedMeta(g)
    BY <1>21 DEF WriteMergedMeta
<1>22. CASE Exit(g)
    BY <1>22 DEF Exit, Forgets
<1>23. CASE SynthesizeTimeoutRow(g)
    BY <1>23 DEF SynthesizeTimeoutRow
<1>24. CASE PredictRaises(g)
    BY <1>24 DEF PredictRaises, Strikes
<1>25. CASE BookkeepingFails(g)
    BY <1>25 DEF BookkeepingFails, Strikes
<1>26. CASE HardKill(g)
    BY <1>26 DEF HardKill, Strikes, Forgets
<1>27. CASE KillRunner(g)
    <2>1. launch' = launch /\ mode' = mode /\ harm' \in 0..MaxFaults /\ g \in 1..launch
        BY <1>27 DEF KillRunner, Strikes, Attended
    <2>2. outlived' \subseteq 1..launch'
        BY <1>27, <2>1 DEF KillRunner
    <2>3. pc' \in [Launches -> Busy \cup {"none", "dead"}]
        BY <1>27 DEF KillRunner
    <2>4. /\ out' \in [Launches -> {"success", "error"}]
          /\ kept' \in [Launches -> Metas]
        BY <1>27 DEF KillRunner, Forgets
    <2> QED
        BY <1>27, <2>1, <2>2, <2>3, <2>4 DEF KillRunner
<1> QED
    BY <1>1, <1>2, <1>3, <1>4, <1>5, <1>6, <1>7, <1>8, <1>9, <1>10, <1>11,
       <1>12, <1>13, <1>14, <1>15, <1>16, <1>17, <1>18, <1>19, <1>20, <1>21,
       <1>22, <1>23, <1>24, <1>25, <1>26, <1>27 DEF Worker, Fault

LEMMA TypeStep == TypeOK /\ [Next]_vars => TypeOK'
<1> SUFFICES ASSUME TypeOK, [Next]_vars PROVE TypeOK'
    OBVIOUS
<1>1. CASE Launch
    BY <1>1, LaunchAssumption
    DEF Launch, TypeOK, Versions, Launches, memory, packet, measured, Busy
<1>2. CASE Discover
    <2>1. harvested' \in Envs
        <3>1. Status(raw) \in Declared \cup {"legacy_ok", "legacy_missing"}
            BY DEF Status
        <3>2. Status(dockerfile) \in Declared \cup {"legacy_ok", "legacy_missing"}
            BY DEF Status
        <3>3. raw \in Versions /\ dockerfile \in Versions /\ scripts \in Versions /\ 0 \in Versions
            BY LaunchAssumption DEF TypeOK, Versions
        <3> QED
            BY <1>2, <3>1, <3>2, <3>3 DEF Discover, Envs
    <2> QED
        BY <1>2, <2>1 DEF Discover, TypeOK, runner, memory, packet
<1>3. CASE RunOne
    <2>1. harvested' \in Envs
        BY <1>3, LaunchAssumption DEF RunOne, Envs, NoEnv, Versions
    <2>2. mrow' \in [status : {"none", "built", "missing", "measure_error"} \cup Declared
                                \cup {"legacy_missing"},
                     env : Envs, launch : Versions]
        BY <1>3 DEF RunOne, Verdicts, TypeOK, Envs, Declared
    <2> QED
        BY <1>3, <2>1, <2>2 DEF RunOne, TypeOK, runner, memory, packet
<1>4. CASE Crash
    <2>1. pc' \in [Launches -> Busy \cup {"none", "dead"}]
        BY <1>4 DEF Crash, TypeOK
    <2>2. /\ harvested' \in Envs
          /\ out' \in [Launches -> {"success", "error"}]
          /\ kept' \in [Launches -> Metas]
          /\ harm' \in 0..MaxFaults
        BY <1>4, LaunchAssumption
        DEF Crash, Strikes, TypeOK, Envs, NoEnv, NoMeta, Metas, Versions
    <2> QED
        BY <1>4, <2>1, <2>2 DEF Crash, TypeOK, runner, packet
<1>5. CASE \E g \in Launches : Worker(g) \/ Fault(g)
    BY <1>5, WorkerTypes
<1>6. CASE UNCHANGED vars
    BY <1>6 DEF TypeOK, vars, runner, memory, packet, measured
<1> QED
    BY <1>1, <1>2, <1>3, <1>4, <1>5, <1>6 DEF Next, Measure

-----------------------------------------------------------------------------
(* What every step of a worker, and every fault that strikes it, has in common. *)
LEMMA Stepped ==
    ASSUME TypeOK, NEW g \in Launches, Worker(g) \/ Fault(g)
    PROVE  /\ pc[g] \in Busy
           /\ \A h \in Launches : h # g => pc'[h] = pc[h]
           /\ UNCHANGED <<launch, measured>>
           /\ outlived' # {} => outlived' = outlived \/ g = launch
           /\ outlived \subseteq outlived'
<1> USE DEF TypeOK, Launches, Busy, AtWork, Producing, Goes, KeepOutside, runner
<1>1. CASE SkipSettled(g)
    BY <1>1 DEF SkipSettled
<1>2. CASE Start(g)
    BY <1>2 DEF Start
<1>3. CASE Resume(g)
    BY <1>3 DEF Resume
<1>4. CASE Clear(g)
    BY <1>4 DEF Clear
<1>5. CASE InvokeAgent(g)
    BY <1>5 DEF InvokeAgent
<1>6. CASE ToolReports(g)
    BY <1>6 DEF ToolReports
<1>7. CASE ToolWritesRaw(g)
    BY <1>7 DEF ToolWritesRaw
<1>8. CASE ReturnsProduced(g)
    BY <1>8 DEF ReturnsProduced
<1>9. CASE ReturnsFailure(g)
    BY <1>9 DEF ReturnsFailure
<1>10. CASE WriteDockerfile(g)
    BY <1>10 DEF WriteDockerfile
<1>11. CASE WriteScripts(g)
    BY <1>11 DEF WriteScripts
<1>12. CASE BuildDirGone(g)
    BY <1>12 DEF BuildDirGone
<1>13. CASE WriteMeta(g)
    BY <1>13 DEF WriteMeta
<1>14. CASE WriteMarker(g)
    BY <1>14 DEF WriteMarker
<1>15. CASE DropBuild(g)
    BY <1>15 DEF DropBuild
<1>16. CASE WriteFailureMeta(g)
    BY <1>16 DEF WriteFailureMeta
<1>17. CASE OpenRow(g)
    BY <1>17 DEF OpenRow
<1>18. CASE WriteRow(g)
    BY <1>18 DEF WriteRow
<1>19. CASE KeepMeta(g)
    BY <1>19 DEF KeepMeta
<1>20. CASE MergeMeta(g)
    BY <1>20 DEF MergeMeta
<1>21. CASE WriteMergedMeta(g)
    BY <1>21 DEF WriteMergedMeta
<1>22. CASE Exit(g)
    BY <1>22 DEF Exit, Forgets
<1>23. CASE SynthesizeTimeoutRow(g)
    BY <1>23 DEF SynthesizeTimeoutRow
<1>24. CASE PredictRaises(g)
    BY <1>24 DEF PredictRaises, Strikes
<1>25. CASE BookkeepingFails(g)
    BY <1>25 DEF BookkeepingFails, Strikes
<1>26. CASE HardKill(g)
    BY <1>26 DEF HardKill, Strikes, Forgets
<1>27. CASE KillRunner(g)
    <2>1. CASE mode = "parallel" /\ pc[g] \in AtWork
        BY <1>27, <2>1 DEF KillRunner, Attended, measured
    <2>2. CASE ~(mode = "parallel" /\ pc[g] \in AtWork)
        BY <1>27, <2>2 DEF KillRunner, measured
    <2> QED
        BY <2>1, <2>2
<1> QED
    BY <1>1, <1>2, <1>3, <1>4, <1>5, <1>6, <1>7, <1>8, <1>9, <1>10, <1>11,
       <1>12, <1>13, <1>14, <1>15, <1>16, <1>17, <1>18, <1>19, <1>20, <1>21,
       <1>22, <1>23, <1>24, <1>25, <1>26, <1>27 DEF Worker, Fault

(* The stages of the worker carry the packet up to the marker. *)
LEMMA Packaged ==
    ASSUME TypeOK, ProducingInv, MarkedPacketCoherent, NEW g \in Launches,
           Worker(g) \/ Fault(g), outlived' = {}
    PROVE  Staged(g)' /\ MarkedPacketCoherent' /\ marker' \in {marker, g}
<1>a. /\ outlived = {} /\ Staged(g) /\ MarkedPacketCoherent
      /\ pc \in [Launches -> Busy \cup {"none", "dead"}]
      /\ g \in Nat /\ g # 0
    BY Stepped, LaunchAssumption DEF ProducingInv, TypeOK, Launches
<1> USE <1>a DEF Staged, MarkedPacketCoherent, Producing, Goes, MarkedDone, KeepOutside, memory, packet
<1>1. CASE SkipSettled(g)
    BY <1>1 DEF SkipSettled
<1>2. CASE Start(g)
    BY <1>2 DEF Start
<1>3. CASE Resume(g)
    BY <1>3 DEF Resume
<1>4. CASE Clear(g)
    BY <1>4 DEF Clear
<1>5. CASE InvokeAgent(g)
    BY <1>5 DEF InvokeAgent
<1>6. CASE ToolReports(g)
    BY <1>6 DEF ToolReports
<1>7. CASE ToolWritesRaw(g)
    BY <1>7 DEF ToolWritesRaw
<1>8. CASE ReturnsProduced(g)
    BY <1>8 DEF ReturnsProduced
<1>9. CASE ReturnsFailure(g)
    BY <1>9 DEF ReturnsFailure
<1>10. CASE WriteDockerfile(g)
    BY <1>10 DEF WriteDockerfile
<1>11. CASE WriteScripts(g)
    BY <1>11 DEF WriteScripts
<1>12. CASE BuildDirGone(g)
    BY <1>12 DEF BuildDirGone
<1>13. CASE WriteMeta(g)
    BY <1>13 DEF WriteMeta
<1>14. CASE WriteMarker(g)
    BY <1>14 DEF WriteMarker
<1>15. CASE DropBuild(g)
    BY <1>15 DEF DropBuild
<1>16. CASE WriteFailureMeta(g)
    BY <1>16 DEF WriteFailureMeta
<1>17. CASE OpenRow(g)
    BY <1>17 DEF OpenRow
<1>18. CASE WriteRow(g)
    BY <1>18 DEF WriteRow
<1>19. CASE KeepMeta(g)
    BY <1>19 DEF KeepMeta
<1>20. CASE MergeMeta(g)
    BY <1>20 DEF MergeMeta
<1>21. CASE WriteMergedMeta(g)
    BY <1>21 DEF WriteMergedMeta
<1>22. CASE Exit(g)
    BY <1>22 DEF Exit, Forgets
<1>23. CASE SynthesizeTimeoutRow(g)
    BY <1>23 DEF SynthesizeTimeoutRow
<1>24. CASE PredictRaises(g)
    BY <1>24 DEF PredictRaises, Strikes
<1>25. CASE BookkeepingFails(g)
    BY <1>25 DEF BookkeepingFails, Strikes
<1>26. CASE HardKill(g)
    BY <1>26 DEF HardKill, Strikes, Forgets
<1>27. CASE KillRunner(g)
    BY <1>27 DEF KillRunner, Strikes, Forgets
<1> QED
    BY <1>1, <1>2, <1>3, <1>4, <1>5, <1>6, <1>7, <1>8, <1>9, <1>10, <1>11,
       <1>12, <1>13, <1>14, <1>15, <1>16, <1>17, <1>18, <1>19, <1>20, <1>21,
       <1>22, <1>23, <1>24, <1>25, <1>26, <1>27 DEF Worker, Fault

-----------------------------------------------------------------------------
(* IInv is inductive: the measure stage carries the packet on to its row, and a *)
(* fault only forgets the stage.                                                 *)
LEMMA WorkerKeeps ==
    ASSUME IInv, NEW g \in Launches, Worker(g) \/ Fault(g)
    PROVE  Rest'
<1>a. /\ TypeOK /\ TypeOK' /\ Rest
      /\ launch \in Nat /\ g \in Nat /\ marker \in Nat /\ mrow.launch \in Nat
    BY WorkerTypes, LaunchAssumption DEF IInv, TypeOK, Versions, Launches
<1>b. /\ pc[g] \in Busy
      /\ \A h \in Launches : h # g => pc'[h] = pc[h]
      /\ launch' = launch /\ measuring' = measuring /\ harvested' = harvested /\ mrow' = mrow
      /\ outlived \subseteq outlived'
    BY <1>a, Stepped DEF measured
<1>c. outlived' = {} => outlived = {} /\ g = launch /\ mrow.launch < g
    BY <1>a, <1>b DEF Rest, Alone, MeasuredBefore
<1>d. outlived' = {} => Staged(g)' /\ MarkedPacketCoherent' /\ marker' \in {marker, g}
    BY <1>a, Packaged DEF Rest
<1>1. NotYet'
    BY <1>a, <1>b DEF Rest, NotYet, Busy, AtWork, Producing
<1>2. Alone'
    BY <1>a, <1>b, <1>c DEF Rest, Alone
<1>3. ProducingInv'
    <2> SUFFICES ASSUME outlived' = {}, NEW h \in Launches PROVE Staged(h)'
        BY DEF ProducingInv
    <2>1. CASE h = g
        BY <2>1, <1>d
    <2>2. CASE h # g
        BY <2>2, <1>a, <1>b, <1>c DEF Rest, Alone, Staged, Busy, AtWork, Producing
    <2> QED
        BY <2>1, <2>2
<1>4. MarkedPacketCoherent'
    BY <1>d DEF MarkedPacketCoherent
<1>5. MeasuredBefore'
    <2>1. mrow'.launch <= launch'
        BY <1>a, <1>b DEF Rest, MeasuredBefore
    <2>2. ASSUME outlived' = {}, NEW h \in Launches, pc'[h] \in Busy PROVE mrow'.launch < h
        BY <2>2, <1>a, <1>b, <1>c DEF Rest, Alone
    <2> QED
        BY <2>1, <2>2 DEF MeasuredBefore
<1>6. HarvestCurrent'
    <2>1. measuring => launch > 0 /\ launch \in Launches /\ RunnerGone
        BY <1>a DEF Rest, HarvestCurrent, TypeOK, Versions, Launches
    <2>2. measuring => RunnerGone'
        <3>1. CASE launch \in outlived
            BY <3>1, <1>b DEF RunnerGone
        <3>2. CASE measuring /\ launch \notin outlived
            BY <3>2, <2>1, <1>b DEF RunnerGone, Busy, AtWork, Producing
        <3> QED
            BY <3>1, <3>2
    <2>3. ~(measuring /\ outlived' = {})
        BY <2>1, <1>b, <1>c DEF RunnerGone, Busy, AtWork, Producing
    <2> QED
        BY <2>1, <2>2, <2>3, <1>b DEF HarvestCurrent
<1>7. MarkedIsWhatIsMeasured'
    <2> SUFFICES ASSUME marker' # 0, outlived' = {}, mrow'.status # "none",
                        mrow'.launch >= marker'
                 PROVE  MarkedIsWhatIsMeasured'
        BY DEF MarkedIsWhatIsMeasured
    <2>1. marker' = marker
        BY <1>a, <1>b, <1>c, <1>d
    <2> QED
        BY <2>1, <1>a, <1>b, <1>c DEF Rest, MarkedIsWhatIsMeasured
<1> QED
    BY <1>1, <1>2, <1>3, <1>4, <1>5, <1>6, <1>7 DEF Rest

LEMMA InvStep == IInv /\ [Next]_vars => IInv'
<1> SUFFICES ASSUME IInv, [Next]_vars PROVE IInv'
    OBVIOUS
<1>a. /\ TypeOK /\ TypeOK' /\ Rest
      /\ launch \in Nat /\ marker \in Nat /\ mrow.launch \in Nat
      /\ pc \in [Launches -> Busy \cup {"none", "dead"}]
    BY TypeStep, LaunchAssumption DEF IInv, TypeOK, Versions
<1>b. \A g \in Launches : g \in Nat /\ g # 0
    BY LaunchAssumption DEF Launches
<1> USE DEF Rest, NotYet, Alone, ProducingInv, MarkedPacketCoherent, MeasuredBefore,
            HarvestCurrent, MarkedIsWhatIsMeasured, Staged, RunnerGone,
            Busy, AtWork, Producing
<1>1. CASE Launch
    <2>1. launch + 1 \in Launches /\ launch' = launch + 1
        BY <1>1, <1>a, LaunchAssumption DEF Launch, Launches
    <2>2. /\ pc'[launch'] = "start"
          /\ \A h \in Launches : h # launch' => pc'[h] = pc[h]
        BY <1>1, <1>a, <2>1 DEF Launch
    <2>3. outlived = {} => \A h \in Launches : h # launch' => pc[h] \notin Busy
        BY <1>1, <1>a, <1>b DEF Launch
    <2>4. /\ UNCHANGED <<packet, measured, outlived>> /\ ~measuring
        BY <1>1 DEF Launch
    <2>5. NotYet' /\ Alone' /\ ProducingInv'
        BY <2>1, <2>2, <2>3, <2>4, <1>a, <1>b DEF packet
    <2>6. MeasuredBefore'
        BY <2>1, <2>2, <2>3, <2>4, <1>a, <1>b DEF measured
    <2>7. MarkedPacketCoherent' /\ HarvestCurrent' /\ MarkedIsWhatIsMeasured'
        BY <2>4, <1>a DEF packet, measured
    <2> QED
        BY <2>5, <2>6, <2>7, <1>a DEF IInv
<1>2. CASE Discover
    <2>1. HarvestCurrent'
        <3>1. launch' > 0 /\ RunnerGone'
            BY <1>2, <1>a DEF Discover, runner
        <3>2. ASSUME marker # 0, outlived = {}
              PROVE  harvested' = [status |-> "produced", dockerfile |-> marker,
                                   scripts |-> marker, raw |-> FALSE]
            <4>1. raw = 0 /\ meta.status = "produced" /\ dockerfile = marker /\ scripts = marker
                BY <1>a, <3>2
            <4>2. Status(dockerfile) = "produced"
                BY <4>1 DEF Status, Declared
            <4> QED
                BY <1>2, <4>1, <4>2 DEF Discover
        <3> QED
            BY <3>1, <3>2, <1>2 DEF Discover, runner, packet
    <2>2. NotYet' /\ Alone' /\ ProducingInv' /\ MarkedPacketCoherent' /\ MeasuredBefore'
          /\ MarkedIsWhatIsMeasured'
        BY <1>2, <1>a DEF Discover, runner, packet
    <2> QED
        BY <2>1, <2>2, <1>a DEF IInv
<1>3. CASE RunOne
    <2>1. CASE mrow.status # "none"
        BY <1>3, <2>1, <1>a DEF RunOne, runner, packet, IInv
    <2>2. CASE mrow.status = "none"
        <3>1. PICK v \in Verdicts(harvested) :
                  mrow' = [status |-> v, env |-> harvested, launch |-> launch]
            BY <1>3, <2>2 DEF RunOne
        <3>2. marker # 0 /\ outlived = {} => v \in {"built", "measure_error"}
            BY <1>3, <1>a, <3>1 DEF RunOne, Verdicts
        <3>3. mrow'.status = v /\ mrow'.env = harvested /\ mrow'.launch = launch
            BY <3>1
        <3>4. MarkedIsWhatIsMeasured'
            BY <1>3, <1>a, <3>2, <3>3 DEF RunOne, runner, packet
        <3>5. outlived = {} => pc[launch] = "dead" /\ launch \in Launches
            BY <1>3, <1>a DEF RunOne, TypeOK, Versions, Launches
        <3>6. MeasuredBefore'
            BY <1>3, <1>a, <3>3, <3>5 DEF RunOne, runner
        <3>7. NotYet' /\ Alone' /\ ProducingInv' /\ MarkedPacketCoherent' /\ HarvestCurrent'
            BY <1>3, <1>a DEF RunOne, runner, packet
        <3> QED
            BY <3>4, <3>6, <3>7, <1>a DEF IInv
    <2> QED
        BY <2>1, <2>2
<1>4. CASE Crash
    <2>1. \A h \in Launches : pc'[h] \notin Busy /\ (pc[h] = "none" => pc'[h] = "none")
        BY <1>4, <1>a DEF Crash
    <2> QED
        BY <1>4, <2>1, <1>a DEF Crash, runner, packet, IInv
<1>5. CASE \E g \in Launches : Worker(g) \/ Fault(g)
    BY <1>5, <1>a, WorkerKeeps DEF IInv
<1>6. CASE UNCHANGED vars
    BY <1>6, <1>a DEF vars, runner, packet, measured, IInv
<1> QED
    BY <1>1, <1>2, <1>3, <1>4, <1>5, <1>6 DEF Next, Measure

(* Init establishes it: nothing is on disk. *)
LEMMA InvInit == Init => IInv
<1> SUFFICES ASSUME Init PROVE IInv
    OBVIOUS
<1>1. TypeOK
    <2>1. 0 \in Versions /\ 0 \in 0..MaxFaults
        BY LaunchAssumption DEF Versions
    <2>2. NoEnv \in Envs
        BY <2>1 DEF NoEnv, Envs
    <2>3. NoMeta \in Metas
        BY <2>1 DEF NoMeta, Metas
    <2>4. mrow \in [status : {"none", "built", "missing", "measure_error"} \cup Declared
                                 \cup {"legacy_missing"},
                    env : Envs, launch : Versions]
        BY <2>1, <2>2 DEF Init
    <2> QED
        BY <2>1, <2>2, <2>3, <2>4 DEF Init, TypeOK, Declared
<1>2. Rest
    BY LaunchAssumption
    DEF Init, Rest, NotYet, Alone, ProducingInv, Staged, MarkedPacketCoherent, MeasuredBefore,
        HarvestCurrent, MarkedIsWhatIsMeasured, Busy, AtWork, Producing, Launches
<1> QED
    BY <1>1, <1>2 DEF IInv

LEMMA Invariance == Spec => []IInv
    BY InvInit, InvStep, PTL DEF Spec


-----------------------------------------------------------------------------
(* Without a fault every stage hands on what the stage before it was given. *)
CleanAt(g) ==
    /\ pc[g] # "killed"
    /\ g = launch /\ pc[g] \in {"start", "boot"} => Fresh \/ Done
    /\ pc[g] \in {"dockerfile", "scripts", "meta", "marker"} => env = "produced"
    /\ pc[g] \in {"drop", "errmeta"} => env = "error"
    /\ g = launch /\ pc[g] \in {"row", "rowing", "merge", "exit", "dead"} => Done
    /\ pc[g] = "merging" => env = "error" /\ kept[g].status = env

LEMMA FaultsCount ==
    ASSUME TypeOK, NEW g \in Launches, Fault(g)
    PROVE  harm' # 0
BY LaunchAssumption
DEF Fault, PredictRaises, BookkeepingFails, HardKill, KillRunner, Strikes, TypeOK

LEMMA WorkerClean ==
    ASSUME IInv, CleanInv, NEW g \in Launches, Worker(g), harm = 0
    PROVE  CleanAt(g)' /\ (marker' # 0 => env' = "produced")
<1>a. /\ ProducingInv /\ outlived = {} /\ pc[g] \in Busy
      /\ g \in Nat /\ g # 0
      /\ pc \in [Launches -> Busy \cup {"none", "dead"}]
      /\ kept \in [Launches -> Metas]
    BY Stepped, LaunchAssumption DEF IInv, Rest, CleanInv, TypeOK, Launches
<1>b. /\ Staged(g) /\ CleanAt(g) /\ g = launch
      /\ (marker # 0 => env = "produced")
    BY <1>a DEF ProducingInv, CleanInv, CleanAt, IInv, Rest, Alone
<1> USE <1>a, <1>b
    DEF CleanAt, Staged, Producing, Fresh, Done, Declared, Goes, RowReadable, MarkedDone,
        KeepOutside, runner, memory, packet

<1>1. CASE SkipSettled(g)
    BY <1>1 DEF SkipSettled
<1>2. CASE Start(g)
    BY <1>2 DEF Start
<1>3. CASE Resume(g)
    BY <1>3 DEF Resume
<1>4. CASE Clear(g)
    BY <1>4 DEF Clear
<1>5. CASE InvokeAgent(g)
    BY <1>5 DEF InvokeAgent
<1>6. CASE ToolReports(g)
    BY <1>6 DEF ToolReports
<1>7. CASE ToolWritesRaw(g)
    BY <1>7 DEF ToolWritesRaw
<1>8. CASE ReturnsProduced(g)
    BY <1>8 DEF ReturnsProduced
<1>9. CASE ReturnsFailure(g)
    BY <1>9 DEF ReturnsFailure
<1>10. CASE WriteDockerfile(g)
    BY <1>10 DEF WriteDockerfile
<1>11. CASE WriteScripts(g)
    BY <1>11 DEF WriteScripts
<1>12. CASE BuildDirGone(g)
    BY <1>12 DEF BuildDirGone
<1>13. CASE WriteMeta(g)
    BY <1>13 DEF WriteMeta
<1>14. CASE WriteMarker(g)
    BY <1>14 DEF WriteMarker
<1>15. CASE DropBuild(g)
    BY <1>15 DEF DropBuild
<1>16. CASE WriteFailureMeta(g)
    BY <1>16 DEF WriteFailureMeta
<1>17. CASE OpenRow(g)
    BY <1>17 DEF OpenRow
<1>18. CASE WriteRow(g)
    BY <1>18 DEF WriteRow
<1>19. CASE KeepMeta(g)
    BY <1>19 DEF KeepMeta
<1>20. CASE MergeMeta(g)
    BY <1>20 DEF MergeMeta
<1>21. CASE WriteMergedMeta(g)
    BY <1>21 DEF WriteMergedMeta
<1>22. CASE Exit(g)
    BY <1>22 DEF Exit, Forgets
<1>23. CASE SynthesizeTimeoutRow(g)
    BY <1>23 DEF SynthesizeTimeoutRow
<1> QED
    BY <1>1, <1>2, <1>3, <1>4, <1>5, <1>6, <1>7, <1>8, <1>9, <1>10, <1>11, <1>12,
       <1>13, <1>14, <1>15, <1>16, <1>17, <1>18, <1>19, <1>20, <1>21, <1>22, <1>23 DEF Worker

LEMMA CleanStep == IInv /\ CleanInv /\ [Next]_vars => CleanInv'
<1> SUFFICES ASSUME IInv, CleanInv, [Next]_vars, harm' = 0 PROVE CleanInv'
    BY DEF CleanInv
<1>a. TypeOK /\ TypeOK' /\ Rest /\ harm \in Nat
    BY LaunchAssumption, TypeStep DEF IInv, TypeOK
<1>b. harm = 0
    <2>1. CASE \E g \in Launches : Worker(g) \/ Fault(g)
        <3>1. PICK g \in Launches : Worker(g)
            BY <2>1, <1>a, FaultsCount
        <3> QED
            BY <3>1 DEF Worker, KeepOutside, SkipSettled, Start, Resume, Clear, InvokeAgent,
               ToolReports, ToolWritesRaw, ReturnsProduced, ReturnsFailure, WriteDockerfile,
               WriteScripts, BuildDirGone, WriteMeta, WriteMarker, DropBuild, WriteFailureMeta,
               OpenRow, WriteRow, KeepMeta, MergeMeta, WriteMergedMeta, Exit,
               SynthesizeTimeoutRow
    <2>2. CASE Launch \/ Measure
        BY <2>2 DEF Launch, Measure, Discover, RunOne
    <2>3. CASE Crash
        BY <2>3, <1>a DEF Crash, Strikes
    <2>4. CASE UNCHANGED vars
        BY <2>4 DEF vars
    <2> QED
        BY <2>1, <2>2, <2>3, <2>4 DEF Next
<1>c. /\ outlived = {}
      /\ launch = 0 => Fresh
      /\ marker # 0 => env = "produced"
      /\ \A g \in Launches : CleanAt(g)
      /\ measuring => harvested.status = env
      /\ mrow.status = "built" => ~mrow.env.raw /\ mrow.env.dockerfile = mrow.env.scripts
    BY <1>b DEF CleanInv, CleanAt
<1> USE DEF CleanAt, Fresh, Done
<1>1. CASE Launch
    <2>1. /\ launch + 1 \in Launches /\ launch' = launch + 1 /\ launch \in Nat
          /\ \A h \in Launches : h # launch + 1 => pc'[h] = pc[h]
          /\ pc'[launch + 1] = "start"
        BY <1>1, <1>a, LaunchAssumption DEF Launch, Launches, TypeOK, Versions
    <2>2. Fresh \/ Done
        <3>1. CASE launch = 0
            BY <3>1, <1>c
        <3>2. CASE launch # 0
            BY <3>2, <1>1, <1>c, <1>a, <2>1 DEF Launch, RunnerGone, Launches, TypeOK, Versions
        <3> QED
            BY <3>1, <3>2
    <2>3. UNCHANGED <<outlived, memory, packet, row, measured>>
        BY <1>1 DEF Launch
    <2>4. \A h \in Launches : CleanAt(h)'
        BY <2>1, <2>2, <2>3, <1>c, <1>a
        DEF memory, packet, Rest, NotYet, Alone, Busy, AtWork, Producing, Launches
    <2> QED
        BY <2>1, <2>3, <2>4, <1>c DEF CleanInv, memory, packet, measured
<1>2. CASE Discover
    <2>1. Done
        BY <1>2, <1>a, <1>c DEF Discover, RunnerGone, Launches, TypeOK, Versions
    <2>2. harvested'.status = env
        BY <1>2, <2>1 DEF Discover, Status
    <2> QED
        BY <1>2, <2>1, <2>2, <1>c DEF Discover, CleanInv, runner, memory, packet
<1>3. CASE RunOne
    <2>1. CASE mrow.status # "none"
        BY <1>3, <2>1, <1>c DEF RunOne, CleanInv, runner, memory, packet
    <2>2. CASE mrow.status = "none"
        <3>1. PICK v \in Verdicts(harvested) :
                  mrow' = [status |-> v, env |-> harvested, launch |-> launch]
            BY <1>3, <2>2 DEF RunOne
        <3>2. Done
            BY <1>3, <1>a, <1>c
            DEF RunOne, HarvestCurrent, Rest, RunnerGone, Launches, TypeOK, Versions
        <3>3. v = "built" => ~harvested.raw /\ harvested.dockerfile = harvested.scripts
            BY <1>3, <1>a, <1>c, <3>2
            DEF RunOne, Verdicts, HarvestCurrent, Rest, Declared
        <3>4. mrow'.status = v /\ mrow'.env = harvested
            BY <3>1
        <3> QED
            BY <1>3, <3>3, <3>4, <1>c DEF RunOne, CleanInv, runner, memory, packet
    <2> QED
        BY <2>1, <2>2
<1>4. ASSUME NEW g \in Launches, Worker(g) PROVE CleanInv'
    <2>1. /\ \A h \in Launches : h # g => pc'[h] = pc[h]
          /\ UNCHANGED <<launch, measured>> /\ outlived' = {}
        BY <1>4, <1>a, <1>b, <1>c, Stepped DEF Worker, KeepOutside, SkipSettled, Start, Resume,
           Clear, InvokeAgent, ToolReports, ToolWritesRaw, ReturnsProduced, ReturnsFailure,
           WriteDockerfile, WriteScripts, BuildDirGone, WriteMeta, WriteMarker, DropBuild,
           WriteFailureMeta, OpenRow, WriteRow, KeepMeta, MergeMeta, WriteMergedMeta, Exit,
           SynthesizeTimeoutRow, runner
    <2>2. CleanAt(g)' /\ (marker' # 0 => env' = "produced")
        BY <1>4, <1>b, WorkerClean
    <2>3. pc[g] \in Busy /\ g = launch /\ launch # 0
        BY <1>4, <1>a, <1>c, Stepped, LaunchAssumption DEF Rest, Alone, Launches
    <2>4. ASSUME NEW h \in Launches, h # g PROVE CleanAt(h)'
        BY <2>1, <2>3, <2>4, <1>a, <1>c DEF Rest, Alone, Busy, AtWork, Producing
    <2>5. ~measuring
        BY <2>3, <1>a, <1>c DEF Rest, HarvestCurrent, RunnerGone, Busy, AtWork, Producing
    <2> QED
        BY <2>1, <2>2, <2>3, <2>4, <2>5, <1>c DEF CleanInv, measured
<1>5. CASE UNCHANGED vars
    BY <1>5, <1>c DEF vars, CleanInv, runner, memory, packet, measured
<1> QED
    BY <1>1, <1>2, <1>3, <1>4, <1>5, <1>a, <1>b, FaultsCount DEF Next, Measure, Crash, Strikes

LEMMA CleanInit == Init => CleanInv
    BY DEF Init, CleanInv, Fresh, NoEnv, NoMeta

LEMMA CleanInvariance == Spec => []CleanInv
    BY CleanInit, CleanStep, Invariance, PTL DEF Spec

-----------------------------------------------------------------------------
(* Type correctness of the workers, the packet and the measure stage. *)
THEOREM TypeCorrect == Spec => []TypeOK
<1>1. IInv => TypeOK
    BY DEF IInv
<1> QED
    BY <1>1, Invariance, PTL

(* run_produced.json vouches for the whole packet, over any number of launches and *)
(* whatever was killed or could not be written, as long as no child has outlived a *)
(* runner killed alone (predict, benchmark.py:159-170).                            *)
THEOREM MarkerVouches == Spec => []MarkedPacketCoherent
<1>1. IInv => MarkedPacketCoherent
    BY DEF IInv, Rest
<1> QED
    BY <1>1, Invariance, PTL

(* What the measure stage builds for a marked repository is the packet the marker *)
(* vouches for, under the same condition (discover and run_one).                  *)
THEOREM MarkedIsMeasured == Spec => []MarkedIsWhatIsMeasured
<1>1. IInv => MarkedIsWhatIsMeasured
    BY DEF IInv, Rest
<1> QED
    BY <1>1, Invariance, PTL

(* As long as nothing was killed and no write failed, harvest reads the status the *)
(* producer returned, across any number of relaunches (_merged_meta, harvest.py).  *)
THEOREM CleanIsHarvested == Spec => []CleanOutcomeHarvested
<1>1. CleanInv => CleanOutcomeHarvested
    BY DEF CleanInv, CleanOutcomeHarvested
<1> QED
    BY <1>1, CleanInvariance, PTL

(* Only a kill or a failed write lets a build mix the files of two launches or take *)
(* a tool's raw Dockerfile.                                                         *)
THEOREM CleanIsOnePacket == Spec => []BuiltFromOnePacket
<1>1. CleanInv => BuiltFromOnePacket
    BY DEF CleanInv, BuiltFromOnePacket
<1> QED
    BY <1>1, CleanInvariance, PTL


-----------------------------------------------------------------------------
(* The steps of the workers, their runners and the faults, as steps of the contract. *)
Seen == <<StageSeen, RowSeen, MarkedDone>>

LEMMA WholeSeen ==
    ASSUME TypeOK
    PROVE  RowSeen = "whole" <=> RowReadable
BY DEF TypeOK, RowSeen, RowReadable

(* A move of one worker is a move of it as the contract sees it. *)
LEMMA SeenMoves ==
    ASSUME TypeOK, NEW g \in Launches, NEW from, NEW to, Goes(g, from, to)
    PROVE  Contract!Moves(g, StageOf(from), StageOf(to))
<1>1. pc' = [pc EXCEPT ![g] = to] /\ pc[g] = from
    BY DEF Goes
<1>2. StageSeen[g] = StageOf(from)
    BY <1>1 DEF StageSeen
<1>3. StageSeen' = [StageSeen EXCEPT ![g] = StageOf(to)]
    <2>1. StageSeen' = [h \in Launches |-> StageOf(pc'[h])]
        BY DEF StageSeen
    <2>2. \A h \in Launches : pc'[h] = IF h = g THEN to ELSE pc[h]
        BY <1>1 DEF TypeOK
    <2> QED
        BY <2>1, <2>2 DEF StageSeen
<1> QED
    BY <1>2, <1>3 DEF Contract!Moves

(* A step within one stage of the contract is none of its steps. *)
LEMMA SeenStutters ==
    ASSUME TypeOK, NEW g \in Launches, NEW from, NEW to, Goes(g, from, to),
           StageOf(from) = StageOf(to), UNCHANGED <<row, marker, report>>
    PROVE  UNCHANGED Seen
<1>1. StageSeen' = StageSeen
    <2>1. StageSeen' = [StageSeen EXCEPT ![g] = StageSeen[g]]
        BY SeenMoves DEF Contract!Moves
    <2> QED
        BY <2>1 DEF StageSeen
<1> QED
    BY <1>1 DEF Seen, RowSeen, RowReadable, MarkedDone

(* Who takes the repository up, resumes it or invokes the agent. *)
LEMMA TakenUp ==
    ASSUME TypeOK, NEW g \in Launches,
           \/ SkipSettled(g) \/ Start(g) \/ Resume(g) \/ Clear(g) \/ InvokeAgent(g)
    PROVE  Contract!WorkerStep(g) \/ UNCHANGED Seen
<1>0. UNCHANGED <<row, marker, report>>
    BY DEF SkipSettled, Start, Resume, Clear, InvokeAgent, packet
<1>1. RowSeen' = RowSeen /\ MarkedDone' = MarkedDone
    BY <1>0 DEF RowSeen, RowReadable, MarkedDone
<1>2. CASE SkipSettled(g)
    <2>1. Contract!Moves(g, "boot", "dead")
        BY <1>2, SeenMoves DEF SkipSettled, StageOf, Producing
    <2> QED
        BY <1>1, <2>1 DEF Contract!WorkerStep, Contract!End, Contract!Moves, Contract!AtWork
<1>3. CASE Start(g)
    BY <1>3, <1>0, SeenStutters DEF Start, StageOf, Producing
<1>4. CASE Resume(g) /\ RowReadable
    <2>1. Contract!Moves(g, "boot", "tail")
        BY <1>4, SeenMoves DEF Resume, StageOf, Producing
    <2> QED
        BY <1>1, <1>4, <2>1, WholeSeen DEF Resume, Contract!WorkerStep, Contract!Resume
<1>5. CASE Resume(g) /\ ~RowReadable
    <2>1. Contract!Moves(g, "boot", "emit")
        BY <1>5, SeenMoves DEF Resume, StageOf, Producing
    <2> QED
        BY <1>1, <1>5, <2>1, WholeSeen DEF Resume, Contract!WorkerStep, Contract!Resume
<1>6. CASE Clear(g)
    <2>1. Contract!Moves(g, "boot", "cleared")
        BY <1>6, SeenMoves DEF Clear, StageOf, Producing
    <2> QED
        BY <1>1, <1>6, <2>1 DEF Clear, Contract!WorkerStep, Contract!Clear
<1>7. CASE InvokeAgent(g)
    <2>1. Contract!Moves(g, "cleared", "agent")
        BY <1>7, SeenMoves DEF InvokeAgent, StageOf, Producing
    <2> QED
        BY <1>1, <2>1 DEF Contract!WorkerStep, Contract!Invoke
<1> QED
    BY <1>2, <1>3, <1>4, <1>5, <1>6, <1>7

(* The producer and its packet are one agent of the contract, whose tests may leave *)
(* their report, and which returns with the marker, with the meta of a failure, or  *)
(* by a write that raises.                                                          *)
LEMMA AgentAtWork ==
    ASSUME TypeOK, NEW g \in Launches,
           \/ ToolWritesRaw(g) \/ ReturnsProduced(g) \/ ReturnsFailure(g) \/ WriteDockerfile(g)
           \/ WriteScripts(g) \/ WriteMeta(g) \/ DropBuild(g)
    PROVE  UNCHANGED Seen
<1>1. UNCHANGED <<row, marker, report>>
    BY DEF ToolWritesRaw, ReturnsProduced, ReturnsFailure, WriteDockerfile, WriteScripts,
           WriteMeta, DropBuild, packet
<1>2. \E from, to \in Producing : Goes(g, from, to)
    BY DEF ToolWritesRaw, ReturnsProduced, ReturnsFailure, WriteDockerfile, WriteScripts,
           WriteMeta, DropBuild, Goes, Producing
<1>3. \A at \in Producing : StageOf(at) = "agent"
    BY DEF StageOf, Producing
<1> QED
    BY <1>1, <1>2, <1>3, SeenStutters

LEMMA AgentReports ==
    ASSUME TypeOK, NEW g \in Launches, ToolReports(g)
    PROVE  Contract!WorkerStep(g)
<1>1. StageSeen' = StageSeen /\ RowSeen' = RowSeen /\ MarkedDone'
    BY DEF ToolReports, StageSeen, RowSeen, RowReadable, MarkedDone
<1>2. StageSeen[g] = "agent"
    BY DEF ToolReports, StageSeen, StageOf, Producing
<1>3. MarkedDone' = TRUE
    BY <1>1 DEF MarkedDone
<1> QED
    BY <1>1, <1>2, <1>3 DEF Contract!WorkerStep, Contract!Report

LEMMA AgentReturned ==
    ASSUME TypeOK, NEW g \in Launches,
           WriteMarker(g) \/ WriteFailureMeta(g) \/ BuildDirGone(g) \/ PredictRaises(g)
    PROVE  Contract!WorkerStep(g)
<1>1. \E from \in Producing : Goes(g, from, "row")
    BY DEF WriteMarker, WriteFailureMeta, BuildDirGone, PredictRaises, Goes, Producing
<1>2. Contract!Moves(g, "agent", "emit")
    <2>1. \A at \in Producing : StageOf(at) = "agent"
        BY DEF StageOf, Producing
    <2>2. StageOf("row") = "emit"
        BY DEF StageOf, Producing
    <2> QED
        BY <1>1, <2>1, <2>2, SeenMoves
<1>3. row' = row /\ report' = report /\ marker' \in {marker, g} /\ g # 0
    BY LaunchAssumption
    DEF WriteMarker, WriteFailureMeta, BuildDirGone, PredictRaises, packet, Launches
<1>4. RowSeen' = RowSeen
    BY <1>3 DEF RowSeen, RowReadable
<1>5. MarkedDone' \in {MarkedDone, TRUE}
    <2>1. CASE marker' = marker
        BY <1>3, <2>1 DEF MarkedDone
    <2>2. CASE marker' = g
        BY <1>3, <2>2 DEF MarkedDone
    <2> QED
        BY <1>3, <2>1, <2>2
<1> QED
    BY <1>2, <1>4, <1>5 DEF Contract!WorkerStep, Contract!Return

(* The row and the meta. *)
LEMMA RowAtWork ==
    ASSUME TypeOK, NEW g \in Launches, OpenRow(g) \/ WriteRow(g) \/ BookkeepingFails(g)
    PROVE  Contract!WorkerStep(g) \/ UNCHANGED Seen
<1>0. /\ UNCHANGED <<marker, report>> /\ MarkedDone' = MarkedDone
    BY DEF OpenRow, WriteRow, BookkeepingFails, packet, MarkedDone
<1>1. CASE OpenRow(g)
    <2>1. Contract!Moves(g, "emit", "rowing") /\ RowSeen' = "torn"
        BY <1>1, SeenMoves DEF OpenRow, StageOf, Producing, RowSeen, RowReadable
    <2> QED
        BY <1>0, <2>1 DEF Contract!WorkerStep, Contract!OpenRow
<1>2. CASE WriteRow(g)
    <2>1. Contract!Moves(g, "rowing", "tail")
        BY <1>2, SeenMoves DEF WriteRow, StageOf, Producing
    <2>2. RowSeen' = "whole"
        BY <1>2 DEF WriteRow, RowSeen, RowReadable, TypeOK
    <2> QED
        BY <1>0, <2>1, <2>2 DEF Contract!WorkerStep, Contract!WriteRow
<1>3. CASE Goes(g, "rowing", "merge") /\ UNCHANGED row
    <2>1. Contract!Moves(g, "rowing", "tail") /\ RowSeen' = RowSeen
        BY <1>3, SeenMoves DEF StageOf, Producing, RowSeen, RowReadable
    <2> QED
        BY <1>0, <2>1 DEF Contract!WorkerStep, Contract!WriteRow
<1>4. CASE Goes(g, "merging", "exit") /\ UNCHANGED row
    BY <1>4, <1>0, SeenStutters DEF StageOf, Producing
<1>5. CASE Goes(g, "killed", "dead") /\ row' = "torn"
    <2>1. Contract!Moves(g, "killed", "dead") /\ RowSeen' = "torn"
        BY <1>5, SeenMoves DEF StageOf, Producing, RowSeen, RowReadable
    <2> QED
        BY <1>0, <2>1 DEF Contract!WorkerStep, Contract!End, Contract!Moves
<1> QED
    BY <1>1, <1>2, <1>3, <1>4, <1>5 DEF BookkeepingFails

LEMMA Unseen ==
    ASSUME TypeOK, NEW g \in Launches, KeepMeta(g) \/ MergeMeta(g) \/ WriteMergedMeta(g)
    PROVE  UNCHANGED Seen
<1>1. UNCHANGED <<row, marker, report>>
    BY DEF KeepMeta, MergeMeta, WriteMergedMeta, packet
<1>2. \E from, to \in {"merge", "merging", "exit"} : Goes(g, from, to)
    BY DEF KeepMeta, MergeMeta, WriteMergedMeta, Goes
<1>3. \A at \in {"merge", "merging", "exit"} : StageOf(at) = "tail"
    BY DEF StageOf, Producing
<1> QED
    BY <1>1, <1>2, <1>3, SeenStutters

(* The end of the worker, of itself or by what strikes it, and the row its runner *)
(* then writes.                                                                   *)
LEMMA StagesAtWork ==
    ASSUME NEW at \in Busy
    PROVE  StageOf(at) \in Contract!AtWork \cup {"killed"}
BY DEF Busy, AtWork, Producing, StageOf, Contract!AtWork

LEMMA StillAtWork ==
    ASSUME NEW at \in AtWork
    PROVE  StageOf(at) \in Contract!AtWork
BY DEF AtWork, Producing, StageOf, Contract!AtWork

LEMMA Ended ==
    ASSUME TypeOK, NEW g \in Launches,
           Exit(g) \/ HardKill(g) \/ KillRunner(g) \/ SynthesizeTimeoutRow(g)
    PROVE  Contract!WorkerStep(g) \/ UNCHANGED Seen
<1>0. UNCHANGED <<marker, report>> /\ MarkedDone' = MarkedDone
    BY DEF Exit, HardKill, KillRunner, SynthesizeTimeoutRow, packet, MarkedDone
<1>1. ASSUME NEW at \in Busy, Goes(g, at, "dead"), RowSeen' \in {RowSeen, "torn", "whole"}
      PROVE  Contract!WorkerStep(g)
    <2>1. Contract!Moves(g, StageOf(at), "dead")
        BY <1>1, SeenMoves DEF StageOf, Producing
    <2> QED
        BY <1>0, <1>1, <2>1, StagesAtWork DEF Contract!WorkerStep, Contract!End, Contract!Moves
<1>2. CASE Exit(g)
    <2>1. RowSeen' \in {RowSeen, "torn", "whole"}
        BY <1>2 DEF Exit, RowSeen, RowReadable
    <2> QED
        BY <1>1, <1>2, <2>1 DEF Exit, Busy, AtWork
<1>3. CASE HardKill(g)
    <2>1. Contract!Moves(g, StageOf(pc[g]), "killed") /\ StageOf(pc[g]) \in Contract!AtWork
        <3>1. StageOf("killed") = "killed"
            BY DEF StageOf, Producing
        <3> QED
            BY <1>3, <3>1, SeenMoves, StillAtWork DEF HardKill
    <2>2. RowSeen' = RowSeen
        BY <1>3 DEF HardKill, RowSeen, RowReadable
    <2> QED
        BY <1>0, <2>1, <2>2 DEF Contract!WorkerStep, Contract!Kill, Contract!Moves
<1>4. CASE KillRunner(g) /\ UNCHANGED pc
    BY <1>0, <1>4 DEF KillRunner, Seen, StageSeen, RowSeen, RowReadable
<1>5. CASE KillRunner(g) /\ Goes(g, pc[g], "dead")
    BY <1>1, <1>5 DEF KillRunner, RowSeen, RowReadable
<1>6. CASE SynthesizeTimeoutRow(g)
    <2>1. RowSeen' = "whole"
        BY <1>6 DEF SynthesizeTimeoutRow, RowSeen, RowReadable
    <2> QED
        BY <1>1, <1>6, <2>1 DEF SynthesizeTimeoutRow, Busy
<1> QED
    BY <1>2, <1>3, <1>4, <1>5, <1>6 DEF KillRunner

LEMMA Crashes ==
    ASSUME TypeOK, Crash
    PROVE  Contract!Next
<1>1. \A h \in Launches : pc[h] \in Busy \cup {"none", "dead"}
    BY DEF TypeOK
<1>2. \A at \in {"none", "dead"} : StageOf(at) = at
    BY DEF StageOf, Producing
<1>3. ASSUME NEW h \in Launches
      PROVE  StageOf(pc'[h]) = IF StageSeen[h] \in Contract!AtWork \cup {"killed"} THEN "dead"
                               ELSE StageSeen[h]
    <2>1. CASE pc[h] \in Busy
        BY <2>1, <1>2, StagesAtWork DEF Crash, StageSeen
    <2>2. CASE pc[h] \in {"none", "dead"}
        BY <2>2, <1>2 DEF Crash, StageSeen, Contract!AtWork, Busy, AtWork, Producing
    <2> QED
        BY <2>1, <2>2, <1>1
<1>4. StageSeen' = [h \in Launches |->
                       IF StageSeen[h] \in Contract!AtWork \cup {"killed"} THEN "dead"
                       ELSE StageSeen[h]]
    BY <1>3 DEF StageSeen
<1>5. RowSeen' = RowSeen /\ MarkedDone' = MarkedDone
    BY DEF Crash, packet, RowSeen, RowReadable, MarkedDone
<1> QED
    BY <1>4, <1>5 DEF Contract!Next, Contract!Crash

LEMMA Launched ==
    ASSUME TypeOK, NotYet, Launch
    PROVE  Contract!Next
<1>1. launch + 1 \in Launches /\ pc[launch + 1] = "none"
    BY LaunchAssumption DEF Launch, TypeOK, NotYet, Launches, Versions
<1>2. Goes(launch + 1, "none", "start")
    BY <1>1 DEF Launch, Goes
<1>3. Contract!Moves(launch + 1, "none", "boot")
    BY <1>1, <1>2, SeenMoves DEF StageOf, Producing
<1>4. RowSeen' = RowSeen /\ MarkedDone' = MarkedDone
    BY DEF Launch, packet, RowSeen, RowReadable, MarkedDone
<1> QED
    BY <1>1, <1>3, <1>4 DEF Contract!Next, Contract!WorkerStep, Contract!Take

(* Refinement: the workers, write by write, in either lane, under every fault and   *)
(* beside one another, implement the contract that the children of the parallel     *)
(* lane keep (theorem ContractKept of FanOut_proofs), the orphans of runners killed *)
(* alone included (_run_one, predict, _run_child).                                  *)
THEOREM ContractKept == Spec => KeepsContract
<1>1. Init => Contract!Init
    BY DEF Init, Contract!Init, StageSeen, StageOf, Producing, RowSeen, RowReadable, MarkedDone
<1>2. IInv /\ [Next]_vars => [Contract!Next]_<<StageSeen, RowSeen, MarkedDone>>
    <2> SUFFICES ASSUME IInv, [Next]_vars PROVE Contract!Next \/ UNCHANGED Seen
        BY DEF Seen
    <2>1. TypeOK /\ NotYet
        BY DEF IInv, Rest
    <2>2. CASE UNCHANGED vars
        BY <2>2 DEF vars, packet, Seen, StageSeen, RowSeen, RowReadable, MarkedDone
    <2>3. CASE Launch \/ Crash
        BY <2>1, <2>3, Launched, Crashes
    <2>4. CASE Measure
        BY <2>4 DEF Measure, Discover, RunOne, packet, Seen, StageSeen, RowSeen, RowReadable,
                    MarkedDone
    <2>5. CASE \E g \in Launches : Worker(g) \/ Fault(g)
        <3>1. PICK g \in Launches : Worker(g) \/ Fault(g)
            BY <2>5
        <3>2. Contract!WorkerStep(g) \/ UNCHANGED Seen
            BY <2>1, <3>1, TakenUp, AgentAtWork, AgentReports, AgentReturned, RowAtWork,
               Unseen, Ended
            DEF Worker, Fault
        <3> QED
            BY <3>2 DEF Contract!Next
    <2> QED
        BY <2>2, <2>3, <2>4, <2>5 DEF Next
<1> QED
    BY <1>1, <1>2, Invariance, PTL DEF Spec, KeepsContract, Contract!Spec, Contract!view

=============================================================================
