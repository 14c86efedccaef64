--------------------------- MODULE Measure_proofs ---------------------------
(* What the rows, the daemon and the two reports say, for any list of          *)
(* environments, any assignment of slugs, any concurrency and number of runs.  *)
EXTENDS Measure, TLAPS, FiniteSetTheorems

Removes == {"built", "cleared", "running", "probed", "testing", "reporting",
            "removing", "untagging", "hung"}
Runs    == {"running", "probed", "testing", "reporting", "removing", "hung"}

(* No environment is in flight outside the measuring phase. *)
Joined == phase # "measuring" => \A e \in Envs : pc[e] = "settled"

(* What the locals of measure hold at each of its stages. *)
Fresh(d)  == ~d.infra /\ ~d.timed /\ ~d.executed
DraftShape(e) ==
    /\ pc[e] \in {"waiting", "settled", "building", "setup", "setupbuilt"}
           => draft[e] = Blank
    /\ pc[e] \in {"built", "cleared", "running", "probed", "testing", "reporting"}
           => draft[e].build /\ ~draft[e].infra /\ ~draft[e].executed
    /\ pc[e] \in {"built", "cleared", "running", "probed", "testing"} => ~draft[e].timed
    /\ pc[e] \in {"built", "cleared", "running", "probed"} => ~draft[e].clean
    /\ pc[e] = "probed" => draft[e].status \in {"pending", "non_conforming"}
    /\ InFlight(e) => Harvested[e] \in Measurable
DraftInv == \A e \in Envs : DraftShape(e)

(* Of an environment that flies alone, the tag is its own once built, and so is *)
(* what runs under its name.                                                    *)
Alone(e) ==
    /\ \A f \in Twins(e) : ~InFlight(f)
    /\ pc[e] \in {"built", "cleared"} => image[Slug[e]] = e
    /\ pc[e] \in {"running", "probed", "testing", "reporting"}
           => container[Slug[e]] \in {e, None}
AloneInv == \A e \in Envs : InFlight(e) /\ e \notin disturbed => Alone(e)
DraftOwn == \A e \in Envs : e \notin disturbed => ReadsOwn(e, draft[e])

(* Every container, and every image that is not excused, has somebody in flight *)
(* who is going to remove it.                                                   *)
Owned(s) ==
    /\ container[s] # None => \E e \in Envs : Slug[e] = s /\ pc[e] \in Runs
    /\ setupImage[s] # None => \E e \in Envs : Slug[e] = s /\ pc[e] = "setupbuilt"
    /\ image[s] \in unguarded \cup {None} \/
           \E e \in Envs : /\ Slug[e] = s /\ pc[e] \in Removes
                           /\ pc[e] = "built" => image[s] = e
OwnedInv == ~cut => late = {} /\ \A s \in Slugs : Owned(s)

(* The status of a row is one that its own flags could have led to. *)
Honest(e, r) ==
    r.status \in StandsFor[
        IF Harvested[e] \notin Measurable THEN "missing"
        ELSE IF r.infra THEN "measure_error"
        ELSE IF ~r.build THEN "build_fail"
        ELSE IF r.timed THEN "timed_out"
        ELSE IF ~r.clean THEN "unknown_conformance"
        ELSE IF r.executed THEN "executed" ELSE "no_tests_collected"]
HonestInv ==
    \A e \in Envs : /\ pc[e] \in {"removing", "untagging"} => Honest(e, draft[e])
                    /\ row[e] # NoRow => Honest(e, row[e])

(* metrics.json is always written first, and whole before errors.json is opened. *)
ReportInv ==
    /\ phase \in {"metrics", "classifying", "errors"} => metrics = run
    /\ phase = "metrics" => "metrics" \in half
    /\ phase = "errors" => errors = run
    /\ phase # "classifying" /\ ~torn /\ "metrics" \notin half => errors \in {0, metrics}
    /\ phase # "errors" /\ ~torn => "errors" \notin half


-----------------------------------------------------------------------------
(* Rows are closed under what the stages of measure write into them. *)
LEMMA RowTypes ==
    ASSUME NEW r \in Rows
    PROVE  /\ \A st \in Status \cup {"pending"} :
                /\ [r EXCEPT !.status = st] \in Rows
                /\ \A b \in BOOLEAN : [r EXCEPT !.status = st, !.infra = b] \in Rows
           /\ \A b \in BOOLEAN : /\ [r EXCEPT !.build = b] \in Rows
                                 /\ [r EXCEPT !.timed = b] \in Rows
           /\ r.status \in Status \cup {"pending"}
BY DEF Rows

LEMMA ReadTypes ==
    ASSUME NEW r \in Rows, NEW E \in SUBSET Envs,
           NEW st \in Status \cup {"pending"}, NEW b \in BOOLEAN
    PROVE  /\ [r EXCEPT !.readFrom = r.readFrom \cup E, !.status = st] \in Rows
           /\ [r EXCEPT !.readFrom = r.readFrom \cup E, !.executed = b] \in Rows
           /\ [r EXCEPT !.readFrom = r.readFrom \cup E, !.clean = b, !.status = st]
                 \in Rows
BY DEF Rows

LEMMA BlankRow == Blank \in Rows
BY DEF Blank, Rows

LEMMA StatusNames ==
    /\ Unrebuilt \subseteq Status
    /\ {"non_conforming", "build_fail", "gate_fail", "measure_error", "timed_out",
        "collect_error", "executed", "no_tests_collected", "missing"} \subseteq Status
BY DEF Status, Probed, Unrebuilt

LEMMA SeenType == TypeOK => \A s \in Slugs : Seen(container[s]) \in SUBSET Envs
BY DEF TypeOK, Seen

(* Every step keeps the types. *)
LEMMA TypeStep == TypeOK /\ [Next]_vars => TypeOK'
<1> SUFFICES ASSUME TypeOK, [Next]_vars PROVE TypeOK'
    OBVIOUS
<1> USE EnvAssumption, RunsAssumption
    DEF TypeOK, Thread, KeepDaemon, KeepMain, KeepHistory, daemon, output, history,
        Becomes
<1>1. ASSUME NEW e \in Envs, Works(e) PROVE TypeOK'
  <2>0. draft[e] \in Rows /\ Slug[e] \in Slugs /\ Seen(container[Slug[e]]) \in SUBSET Envs
      BY SeenType
  <2> USE <2>0, RowTypes, BlankRow, StatusNames DEF Writes, Drafts
  <2>1. CASE SkipMeasured(e)
      BY <2>1 DEF SkipMeasured
  <2>2. CASE RecordUnrebuilt(e)
      BY <2>2 DEF RecordUnrebuilt
  <2>3. CASE Start(e)
      BY <2>3 DEF Start, Twins
  <2>4. CASE BuildOk(e)
      BY <2>4 DEF BuildOk
  <2>5. CASE BuildFails(e)
      BY <2>5 DEF BuildFails
  <2>6. CASE BuildOverruns(e)
    <3>1. image' \in [Slugs -> Envs \cup {None}]
      BY <2>6 DEF BuildOverruns
    <3> QED
      BY <2>6, <3>1 DEF BuildOverruns
  <2>7. CASE SetupUnlocated(e)
      BY <2>7 DEF SetupUnlocated
  <2>8. ASSUME NEW ok \in BOOLEAN, SetupBuilds(e, ok) PROVE TypeOK'
      BY <2>8 DEF SetupBuilds
  <2>9. CASE SetupRemoved(e)
      BY <2>9 DEF SetupRemoved
  <2>10. CASE Raises(e)
      BY <2>10 DEF Raises
  <2>11. CASE ClearName(e)
      BY <2>11 DEF ClearName
  <2>12. CASE RunContainer(e)
      BY <2>12 DEF RunContainer
  <2>13. CASE RunRefused(e)
      BY <2>13 DEF RunRefused
  <2>14. ASSUME NEW verdict \in Probed, Probe(e, verdict) PROVE TypeOK'
    <3>1. (IF verdict = "conforming" THEN "pending" ELSE verdict) \in Status \cup {"pending"}
      BY DEF Probed
    <3>2. [draft[e] EXCEPT !.readFrom = draft[e].readFrom \cup Seen(container[Slug[e]]),
              !.status = IF verdict = "conforming" THEN "pending" ELSE verdict] \in Rows
      BY <3>1, ReadTypes
    <3> QED
      BY <2>14, <3>2 DEF Probe
  <2>15. ASSUME NEW b \in BOOLEAN, Gate(e, b) PROVE TypeOK'
    <3> DEFINE st == IF ~(draft[e].status # "pending") /\ e \in ShortCircuits /\ ~b
                     THEN "gate_fail" ELSE draft[e].status
    <3>1. st \in Status \cup {"pending"}
      OBVIOUS
    <3>2. [draft[e] EXCEPT !.readFrom = draft[e].readFrom \cup Seen(container[Slug[e]]),
              !.clean = b, !.status = st] \in Rows
      BY <3>1, ReadTypes
    <3> QED
      BY <2>15, <3>2 DEF Gate
  <2>16. ASSUME NEW b \in BOOLEAN, RunTests(e, b) PROVE TypeOK'
      BY <2>16 DEF RunTests
  <2>17. ASSUME NEW b \in BOOLEAN, ReadReport(e, b) PROVE TypeOK'
    <3> DEFINE d == [draft[e] EXCEPT !.readFrom = @ \cup Seen(container[Slug[e]]),
                                     !.executed = b]
    <3>1. d \in Rows
      BY ReadTypes
    <3> HIDE DEF d
    <3>2. d.timed \in BOOLEAN /\ d.clean \in BOOLEAN /\ d.executed \in BOOLEAN
      BY <3>1 DEF Rows
    <3>3. Verdict(d) \in Status
      BY <3>2 DEF Verdict
    <3>4. [d EXCEPT !.status = Verdict(d)] \in Rows
      BY <3>1, <3>3, RowTypes
    <3> QED
      BY <2>17, <3>4 DEF ReadReport, d
  <2>18. CASE RemoveContainer(e)
      BY <2>18 DEF RemoveContainer
  <2>19. CASE RemoveImageAndWrite(e)
      BY <2>19 DEF RemoveImageAndWrite
  <2> QED
      BY <1>1, <2>1, <2>2, <2>3, <2>4, <2>5, <2>6, <2>7, <2>8, <2>9, <2>10, <2>11,
         <2>12, <2>13, <2>14, <2>15, <2>16, <2>17, <2>18, <2>19 DEF Works
<1>2. ASSUME NEW e \in Envs, Hangs(e) PROVE TypeOK'
    BY <1>2 DEF Hangs
<1>3. ASSUME NEW e \in Envs, LateBuildLands(e) PROVE TypeOK'
    BY <1>3 DEF LateBuildLands, Twins
<1>4. ASSUME NEW s \in Slugs, Dies(s) PROVE TypeOK'
    BY <1>4 DEF Dies
<1>5. CASE Main
  <2>1. run \in 0..run /\ 0 \in 0..run
    OBVIOUS
  <2> QED
    BY <1>5, <2>1 DEF Main, RejectDelta, OpenMetrics, WriteMetrics, MetricsFail,
        OpenErrors, WriteErrors, ClassifyFails, Aggregates
<1>6. CASE Kill
  <2>1. late' \subseteq Envs
    BY <1>6 DEF Kill
  <2>2. cut' \in BOOLEAN /\ torn' \in BOOLEAN
    BY <1>6, Zenon DEF Kill
  <2>3. draft' \in [Envs -> Rows]
    BY <1>6, BlankRow DEF Kill
  <2> QED
    BY <1>6, <2>1, <2>2, <2>3 DEF Kill
<1>7. ASSUME NEW b \in BOOLEAN, Restart(b) PROVE TypeOK'
    BY <1>7 DEF Restart
<1>8. CASE UNCHANGED vars
    BY <1>8 DEF vars
<1> QED
    BY <1>1, <1>2, <1>3, <1>4, <1>5, <1>6, <1>7, <1>8 DEF Next

LEMMA TypeInit == Init => TypeOK
<1> SUFFICES ASSUME Init PROVE TypeOK
    OBVIOUS
<1>1. draft \in [Envs -> Rows] /\ row \in [Envs -> Rows]
    BY BlankRow DEF Init, NoRow
<1>2. run \in 1..MaxRuns /\ metrics \in 0..run /\ errors \in 0..run
    BY RunsAssumption DEF Init
<1> QED
    BY <1>1, <1>2 DEF Init, TypeOK

-----------------------------------------------------------------------------
(* A step is one of an environment in the pool, or one that leaves the locals *)
(* of measure alone, or a kill or a restart of the whole process.             *)
LEMMA JoinedStep == TypeOK /\ Joined /\ [Next]_vars => Joined'
<1> SUFFICES ASSUME TypeOK, Joined, [Next]_vars PROVE Joined'
    OBVIOUS
<1> USE DEF TypeOK, Joined, Thread, KeepMain, Becomes, Writes
<1>1. ASSUME NEW e \in Envs, Works(e) \/ Hangs(e) PROVE Joined'
  <2>1. phase' = phase
    BY <1>1 DEF Works, Hangs, SkipMeasured, RecordUnrebuilt, Start, BuildOk, BuildFails,
        BuildOverruns, SetupUnlocated, SetupBuilds, SetupRemoved, Raises, ClearName,
        RunContainer, RunRefused, Probe, Gate, RunTests, ReadReport, RemoveContainer,
        RemoveImageAndWrite
  <2>2. phase # "measuring" => pc[e] = "settled"
    OBVIOUS
  <2>3. pc[e] # "settled"
    BY <1>1 DEF Works, Hangs, SkipMeasured, RecordUnrebuilt, Start, BuildOk, BuildFails,
        BuildOverruns, SetupUnlocated, SetupBuilds, SetupRemoved, Raises, ClearName,
        RunContainer, RunRefused, Probe, Gate, RunTests, ReadReport, RemoveContainer,
        RemoveImageAndWrite, Takes
  <2> QED
    BY <2>1, <2>2, <2>3
<1>2. ASSUME NEW e \in Envs, LateBuildLands(e) PROVE Joined'
    BY <1>2 DEF LateBuildLands
<1>3. ASSUME NEW s \in Slugs, Dies(s) PROVE Joined'
    BY <1>3 DEF Dies
<1>4. CASE Main \/ Kill \/ \E b \in BOOLEAN : Restart(b)
    BY <1>4 DEF Main, RejectDelta, OpenMetrics, WriteMetrics, MetricsFail,
        OpenErrors, WriteErrors, ClassifyFails, Aggregates, Kill, Restart
<1>5. CASE UNCHANGED vars
    BY <1>5 DEF vars
<1> QED
    BY <1>1, <1>2, <1>3, <1>4, <1>5 DEF Next

(* The two reports: whoever writes errors.json has just written metrics.json. *)
LEMMA ReportStep == TypeOK /\ Joined /\ ReportInv /\ [Next]_vars => ReportInv'
<1> SUFFICES ASSUME TypeOK, Joined, ReportInv, [Next]_vars PROVE ReportInv'
    OBVIOUS
<1> USE DEF ReportInv, Thread, KeepMain, output
<1>1. ASSUME NEW e \in Envs, Works(e) \/ Hangs(e) PROVE ReportInv'
    BY <1>1 DEF Works, Hangs, SkipMeasured, RecordUnrebuilt, Start, BuildOk, BuildFails,
        BuildOverruns, SetupUnlocated, SetupBuilds, SetupRemoved, Raises, ClearName,
        RunContainer, RunRefused, Probe, Gate, RunTests, ReadReport, RemoveContainer,
        RemoveImageAndWrite
<1>2. ASSUME NEW e \in Envs, LateBuildLands(e) PROVE ReportInv'
    BY <1>2 DEF LateBuildLands
<1>3. ASSUME NEW s \in Slugs, Dies(s) PROVE ReportInv'
    BY <1>3 DEF Dies
<1>4. CASE Main
    BY <1>4 DEF Main, RejectDelta, OpenMetrics, WriteMetrics, MetricsFail,
        OpenErrors, WriteErrors, ClassifyFails, Aggregates
<1>5. CASE Kill
    BY <1>5 DEF Kill, TypeOK
<1>6. CASE \E b \in BOOLEAN : Restart(b)
    BY <1>6 DEF Restart
<1>7. CASE UNCHANGED vars
    BY <1>7 DEF vars
<1> QED
    BY <1>1, <1>2, <1>3, <1>4, <1>5, <1>6, <1>7 DEF Next

-----------------------------------------------------------------------------
(* A thread works on its own environment only. *)
LEMMA Elsewhere ==
    ASSUME TypeOK, NEW e \in Envs, Works(e) \/ Hangs(e), NEW x \in Envs, x # e
    PROVE  pc'[x] = pc[x] /\ draft'[x] = draft[x] /\ row'[x] = row[x]
BY DEF TypeOK, Works, Hangs, Becomes, Drafts, Writes, SkipMeasured, RecordUnrebuilt, Start, BuildOk, BuildFails,
        BuildOverruns, SetupUnlocated, SetupBuilds, SetupRemoved, Raises, ClearName,
        RunContainer, RunRefused, Probe, Gate, RunTests, ReadReport, RemoveContainer,
        RemoveImageAndWrite

LEMMA BlankShape ==
    /\ Blank.infra = FALSE /\ Blank.timed = FALSE /\ Blank.executed = FALSE
    /\ Blank.clean = FALSE /\ Blank.build = FALSE /\ Blank.readFrom = {}
    /\ Blank.status = "pending"
BY DEF Blank

(* The locals go through the stages as DraftShape says. *)
LEMMA DraftStep == TypeOK /\ Joined /\ DraftInv /\ [Next]_vars => DraftInv'
<1> SUFFICES ASSUME TypeOK, Joined, DraftInv, [Next]_vars, NEW x \in Envs PROVE DraftShape(x)'
    BY DEF DraftInv
<1>0. DraftShape(x) /\ draft[x] \in Rows /\ x \in DOMAIN pc /\ x \in DOMAIN draft
    BY DEF DraftInv, TypeOK
<1>1. ASSUME NEW e \in Envs, Works(e) \/ Hangs(e), x # e PROVE DraftShape(x)'
    BY <1>0, <1>1, Elsewhere DEF DraftShape, InFlight
<1>2. CASE Works(x)
  <2> USE <1>0, BlankShape DEF DraftShape, InFlight, Becomes, Drafts, Writes, Rows
  <2>1. CASE SkipMeasured(x) \/ RecordUnrebuilt(x) \/ Start(x)
      BY <2>1 DEF SkipMeasured, RecordUnrebuilt, Start, Takes
  <2>2. CASE BuildOk(x) \/ BuildFails(x) \/ BuildOverruns(x)
      BY <2>2 DEF BuildOk, BuildFails, BuildOverruns
  <2>3. CASE SetupUnlocated(x) \/ (\E ok \in BOOLEAN : SetupBuilds(x, ok))
             \/ SetupRemoved(x) \/ Raises(x)
      BY <2>3 DEF SetupUnlocated, SetupBuilds, SetupRemoved, Raises
  <2>4. CASE ClearName(x) \/ RunContainer(x) \/ RunRefused(x)
      BY <2>4 DEF ClearName, RunContainer, RunRefused
  <2>5. ASSUME NEW verdict \in Probed, Probe(x, verdict) PROVE DraftShape(x)'
      BY <2>5 DEF Probe, Probed
  <2>6. ASSUME NEW b \in BOOLEAN, Gate(x, b) PROVE DraftShape(x)'
      BY <2>6 DEF Gate
  <2>7. ASSUME NEW b \in BOOLEAN, RunTests(x, b) PROVE DraftShape(x)'
      BY <2>7 DEF RunTests
  <2>8. ASSUME NEW b \in BOOLEAN, ReadReport(x, b) PROVE DraftShape(x)'
      BY <2>8 DEF ReadReport
  <2>9. CASE RemoveContainer(x) \/ RemoveImageAndWrite(x)
      BY <2>9 DEF RemoveContainer, RemoveImageAndWrite
  <2> QED
      BY <1>2, <2>1, <2>2, <2>3, <2>4, <2>5, <2>6, <2>7, <2>8, <2>9 DEF Works
<1>3. CASE Hangs(x)
    BY <1>0, <1>3 DEF Hangs, DraftShape, InFlight, Becomes
<1>4. ASSUME NEW e \in Envs, LateBuildLands(e) PROVE DraftShape(x)'
    BY <1>0, <1>4 DEF LateBuildLands, DraftShape, InFlight
<1>5. ASSUME NEW s \in Slugs, Dies(s) PROVE DraftShape(x)'
    BY <1>0, <1>5 DEF Dies, DraftShape, InFlight
<1>6. CASE Main
    BY <1>0, <1>6 DEF Main, RejectDelta, OpenMetrics, WriteMetrics, MetricsFail,
        OpenErrors, WriteErrors, ClassifyFails, Aggregates,
        DraftShape, InFlight
<1>7. CASE Kill \/ \E b \in BOOLEAN : Restart(b)
    BY <1>0, <1>7 DEF Kill, Restart, DraftShape, InFlight, Joined
<1>8. CASE UNCHANGED vars
    BY <1>0, <1>8 DEF vars, DraftShape, InFlight
<1> QED
    BY <1>1, <1>2, <1>3, <1>4, <1>5, <1>6, <1>7, <1>8 DEF Next

(* Every status is written next to the flags that justify it. *)
LEMMA HonestStep == TypeOK /\ Joined /\ DraftInv /\ HonestInv /\ [Next]_vars => HonestInv'
<1> SUFFICES ASSUME TypeOK, Joined, DraftInv, HonestInv, [Next]_vars, NEW x \in Envs
             PROVE  /\ pc'[x] \in {"removing", "untagging"} => Honest(x, draft'[x])
                    /\ row'[x] # NoRow => Honest(x, row'[x])
    BY DEF HonestInv, Honest
<1> DEFINE Keeps == /\ pc'[x] \in {"removing", "untagging"} => Honest(x, draft'[x])
                    /\ row'[x] # NoRow => Honest(x, row'[x])
<1>0. /\ DraftShape(x) /\ draft[x] \in Rows /\ x \in DOMAIN pc /\ x \in DOMAIN draft
      /\ x \in DOMAIN row /\ Harvested[x] \in HarvestStatus
      /\ pc[x] \in {"removing", "untagging"} => Honest(x, draft[x])
      /\ row[x] # NoRow => Honest(x, row[x])
    BY EnvAssumption DEF DraftInv, TypeOK, HonestInv
<1>1. ASSUME NEW e \in Envs, Works(e) \/ Hangs(e), x # e PROVE Keeps
    BY <1>0, <1>1, Elsewhere
<1>2. CASE Works(x)
  <2> USE <1>0, BlankShape DEF Becomes, Drafts, Writes, Honest, StandsFor
  <2>1. CASE SkipMeasured(x) \/ Start(x)
      BY <2>1 DEF SkipMeasured, Start
  <2>2. CASE RecordUnrebuilt(x)
    <3> DEFINE st == IF Harvested[x] \in Unrebuilt THEN Harvested[x] ELSE "missing"
    <3>1. row'[x] = [Blank EXCEPT !.status = st] /\ pc'[x] = "settled"
      BY <2>2 DEF RecordUnrebuilt
    <3>2. /\ row'[x].status = st /\ ~row'[x].infra /\ ~row'[x].build
      BY <3>1 DEF Blank
    <3>3. Harvested[x] \in Measurable => st = "missing"
      BY DEF Measurable, Unrebuilt
    <3>4. Harvested[x] \notin Measurable => st \in Unrebuilt
      BY DEF Unrebuilt
    <3> QED
      BY <3>1, <3>2, <3>3, <3>4
  <2>3. CASE BuildOk(x) \/ BuildFails(x) \/ BuildOverruns(x)
      BY <2>3 DEF BuildOk, BuildFails, BuildOverruns
  <2>4. CASE SetupUnlocated(x) \/ (\E ok \in BOOLEAN : SetupBuilds(x, ok))
             \/ SetupRemoved(x)
    <3>1. CASE \E ok \in BOOLEAN : SetupBuilds(x, ok)
      BY <3>1 DEF SetupBuilds
    <3>2. CASE SetupUnlocated(x) \/ SetupRemoved(x)
      <4>1. /\ row'[x] = [Blank EXCEPT !.status = "build_fail"] /\ pc'[x] = "settled"
            /\ Harvested[x] \in Measurable
        BY <3>2 DEF SetupUnlocated, SetupRemoved, DraftShape, InFlight
      <4>2. row'[x].status = "build_fail" /\ ~row'[x].infra /\ ~row'[x].build
        BY <4>1 DEF Blank
      <4> QED
        BY <4>1, <4>2
    <3> QED
      BY <2>4, <3>1, <3>2
  <2>5. CASE Raises(x)
    <3>1. /\ row'[x] = [Blank EXCEPT !.status = "measure_error"] /\ pc'[x] = "settled"
          /\ Harvested[x] \in Measurable
      BY <2>5 DEF Raises, DraftShape, InFlight
    <3>2. row'[x].status = "measure_error" /\ ~row'[x].infra /\ ~row'[x].build
      BY <3>1 DEF Blank
    <3> QED
      BY <3>1, <3>2
  <2>6. CASE ClearName(x) \/ RunContainer(x)
      BY <2>6 DEF ClearName, RunContainer
  <2>7. CASE RunRefused(x)
    <3>1. /\ draft'[x] = [Blank EXCEPT !.status = "measure_error", !.infra = TRUE]
          /\ row'[x] = row[x] /\ Harvested[x] \in Measurable
      BY <2>7 DEF RunRefused, DraftShape, InFlight
    <3>2. draft'[x].status = "measure_error" /\ draft'[x].infra
      BY <3>1 DEF Blank
    <3> QED
      BY <3>1, <3>2
  <2>8. ASSUME NEW verdict \in Probed, Probe(x, verdict) PROVE Keeps
      BY <2>8 DEF Probe
  <2>9. ASSUME NEW b \in BOOLEAN, Gate(x, b) PROVE Keeps
    <3>1. /\ row'[x] = row[x] /\ Harvested[x] \in Measurable
          /\ draft[x].status \in {"pending", "non_conforming"}
          /\ draft[x].build /\ ~draft[x].infra /\ ~draft[x].timed /\ ~draft[x].executed
      BY <2>9 DEF Gate, DraftShape, InFlight
    <3>2. /\ draft'[x].build /\ ~draft'[x].infra /\ ~draft'[x].timed
          /\ ~draft'[x].executed /\ draft'[x].clean = b
          /\ draft'[x].status = IF draft[x].status = "pending" /\ x \in ShortCircuits /\ ~b
                                THEN "gate_fail" ELSE draft[x].status
      BY <2>9, <3>1 DEF Gate, Rows
    <3>3. pc'[x] = "removing" => draft[x].status # "pending" \/ (x \in ShortCircuits /\ ~b)
      BY <2>9 DEF Gate
    <3>4. pc'[x] # "untagging"
      BY <2>9 DEF Gate
    <3> QED
      BY <3>1, <3>2, <3>3, <3>4
  <2>10. ASSUME NEW b \in BOOLEAN, RunTests(x, b) PROVE Keeps
      BY <2>10 DEF RunTests
  <2>11. ASSUME NEW b \in BOOLEAN, ReadReport(x, b) PROVE Keeps
    <3> DEFINE d == [draft[x] EXCEPT !.readFrom = @ \cup Seen(container[Slug[x]]),
                                     !.executed = b]
    <3>1. /\ row'[x] = row[x] /\ Harvested[x] \in Measurable
          /\ draft[x].build /\ ~draft[x].infra
          /\ draft'[x] = [d EXCEPT !.status = Verdict(d)]
      BY <2>11 DEF ReadReport, DraftShape, InFlight
    <3>2. /\ d.build /\ ~d.infra /\ d.executed = b
          /\ d.timed = draft[x].timed /\ d.clean = draft[x].clean
          /\ draft[x].timed \in BOOLEAN /\ draft[x].clean \in BOOLEAN
      BY <3>1 DEF Rows
    <3>3. /\ draft'[x].status = Verdict(d) /\ draft'[x].build /\ ~draft'[x].infra
          /\ draft'[x].executed = b
          /\ draft'[x].timed = d.timed /\ draft'[x].clean = d.clean
      BY <3>1, <3>2 DEF Rows
    <3>4. Verdict(d) = IF d.timed THEN "timed_out" ELSE IF ~d.clean THEN "collect_error"
                       ELSE IF b THEN "executed" ELSE "no_tests_collected"
      BY <3>2 DEF Verdict
    <3> HIDE DEF d
    <3> QED
      BY <3>1, <3>2, <3>3, <3>4
  <2>12. CASE RemoveContainer(x) \/ RemoveImageAndWrite(x)
      BY <2>12 DEF RemoveContainer, RemoveImageAndWrite
  <2> QED
      BY <1>2, <2>1, <2>2, <2>3, <2>4, <2>5, <2>6, <2>7, <2>8, <2>9, <2>10, <2>11,
         <2>12 DEF Works
<1>3. CASE Hangs(x)
    BY <1>0, <1>3 DEF Hangs, Becomes
<1>4. CASE (\E e \in Envs : LateBuildLands(e)) \/ \E s \in Slugs : Dies(s)
    BY <1>0, <1>4 DEF LateBuildLands, Dies
<1>5. CASE Main
    BY <1>0, <1>5 DEF Main, RejectDelta, OpenMetrics, WriteMetrics, MetricsFail,
        OpenErrors, WriteErrors, ClassifyFails, Aggregates
<1>6. CASE Kill \/ \E b \in BOOLEAN : Restart(b)
    BY <1>0, <1>6 DEF Kill, Restart
<1>7. CASE UNCHANGED vars
    BY <1>0, <1>7 DEF vars
<1> QED
    BY <1>1, <1>2, <1>3, <1>4, <1>5, <1>6, <1>7 DEF Next

-----------------------------------------------------------------------------
(* A thread moves the tags and the name of its own slug only, and it counts *)
(* itself and those it meets as disturbed when it starts.                   *)
LEMMA OtherSlugs ==
    ASSUME TypeOK, NEW e \in Envs, Works(e) \/ Hangs(e), NEW s \in Slugs, s # Slug[e]
    PROVE  image'[s] = image[s] /\ container'[s] = container[s]
           /\ setupImage'[s] = setupImage[s]
BY EnvAssumption DEF TypeOK, Works, Hangs, Thread, KeepDaemon, daemon, SkipMeasured,
        RecordUnrebuilt, Start, BuildOk, BuildFails,
        BuildOverruns, SetupUnlocated, SetupBuilds, SetupRemoved, Raises, ClearName,
        RunContainer, RunRefused, Probe, Gate, RunTests, ReadReport, RemoveContainer,
        RemoveImageAndWrite

LEMMA DisturbedOnlyAtStart ==
    ASSUME TypeOK, NEW e \in Envs, Works(e) \/ Hangs(e)
    PROVE  Start(e) \/ (disturbed' = disturbed /\ (InFlight(e) \/ pc'[e] = "settled"))
BY DEF TypeOK, Works, Hangs, KeepHistory, history, SkipMeasured,
        RecordUnrebuilt, Start, BuildOk, BuildFails, InFlight, Becomes, Writes,
        BuildOverruns, SetupUnlocated, SetupBuilds, SetupRemoved, Raises, ClearName,
        RunContainer, RunRefused, Probe, Gate, RunTests, ReadReport, RemoveContainer,
        RemoveImageAndWrite

(* Nobody flies beside an undisturbed environment, and its names stay its own. *)
AliveInv == AloneInv /\ DraftOwn /\ OwnImage

LEMMA AliveStep ==
    TypeOK /\ Joined /\ DraftInv /\ AliveInv /\ [Next]_vars => AliveInv'
<1> SUFFICES ASSUME TypeOK, Joined, DraftInv, AliveInv, [Next]_vars, NEW x \in Envs,
                    x \notin disturbed'
             PROVE  /\ InFlight(x)' => Alone(x)'
                    /\ ReadsOwn(x, draft'[x])
                    /\ ReadsOwn(x, row'[x])
    BY DEF AliveInv, AloneInv, DraftOwn, OwnImage, ReadsOwn
<1> DEFINE Goal == /\ InFlight(x)' => Alone(x)'
                   /\ ReadsOwn(x, draft'[x])
                   /\ ReadsOwn(x, row'[x])
<1>0. /\ draft[x] \in Rows /\ row[x] \in Rows /\ Slug[x] \in Slugs
      /\ x \notin disturbed => /\ InFlight(x) => Alone(x)
                               /\ ReadsOwn(x, draft[x]) /\ ReadsOwn(x, row[x])
      /\ DraftShape(x) /\ x # None
    BY EnvAssumption DEF TypeOK, AliveInv, AloneInv, DraftOwn, OwnImage, DraftInv
<1>1. ASSUME NEW e \in Envs, Works(e) \/ Hangs(e), x # e PROVE Goal
  <2>1. pc'[x] = pc[x] /\ draft'[x] = draft[x] /\ row'[x] = row[x]
    BY <1>1, Elsewhere
  <2>2. x \notin disturbed
    BY <1>1, DisturbedOnlyAtStart DEF Start
  <2>3. CASE e \notin Twins(x)
    <3>1. /\ image'[Slug[x]] = image[Slug[x]] /\ container'[Slug[x]] = container[Slug[x]]
      BY <1>0, <1>1, <2>3, OtherSlugs DEF Twins
    <3>2. \A f \in Twins(x) : pc'[f] = pc[f]
      BY <1>1, <2>3, Elsewhere DEF Twins
    <3> QED
      BY <1>0, <2>1, <2>2, <3>1, <3>2 DEF Alone, InFlight, Twins
  <2>4. CASE e \in Twins(x) /\ InFlight(x)
    <3>1. x \in Twins(e)
      BY <2>4 DEF Twins
    <3>2. ~InFlight(e)
      BY <1>0, <2>2, <2>4 DEF Alone
    <3>3. ~Start(e)
      BY <2>4, <3>1 DEF Start
    <3>4. (pc'[e] = "settled" /\ SkipMeasured(e)) \/ RecordUnrebuilt(e)
      BY <1>1, <3>2, <3>3 DEF Works, Hangs, InFlight, SkipMeasured, BuildOk, BuildFails,
        BuildOverruns, SetupUnlocated, SetupBuilds, SetupRemoved, Raises, ClearName,
        RunContainer, RunRefused, Probe, Gate, RunTests, ReadReport, RemoveContainer,
        RemoveImageAndWrite, Becomes, TypeOK
    <3>5. UNCHANGED daemon /\ pc'[e] = "settled"
      BY <3>4 DEF SkipMeasured, RecordUnrebuilt, KeepDaemon, Writes, Becomes, TypeOK
    <3>6. \A f \in Twins(x) : f # e => pc'[f] = pc[f]
      BY <1>1, Elsewhere DEF Twins
    <3> QED
      BY <1>0, <2>1, <2>2, <2>4, <3>5, <3>6 DEF Alone, InFlight, Twins, daemon
  <2>5. CASE ~InFlight(x)
    BY <1>0, <2>1, <2>2, <2>5 DEF InFlight
  <2> QED
    BY <2>3, <2>4, <2>5
<1>2. CASE Works(x) \/ Hangs(x)
  <2>1. CASE Start(x)
    <3>1. \A f \in Twins(x) : ~InFlight(f) /\ pc'[f] = pc[f]
      BY <1>2, <2>1, Elsewhere DEF Start, Twins
    <3>2. pc'[x] = "building" /\ draft'[x] = Blank /\ row'[x] = Blank
      BY <1>0, <2>1 DEF Start, Takes, Becomes, TypeOK, DraftShape, NoRow
    <3> QED
      BY <3>1, <3>2, BlankShape DEF Alone, InFlight, Twins, ReadsOwn
  <2>2. CASE ~Start(x)
    <3>1. x \notin disturbed /\ (InFlight(x) \/ pc'[x] = "settled")
      BY <1>2, <2>2, DisturbedOnlyAtStart
    <3>2. \A f \in Twins(x) : pc'[f] = pc[f]
      BY <1>2, Elsewhere DEF Twins
    <3>3. InFlight(x)' => \A f \in Twins(x) : ~InFlight(f)'
      BY <1>0, <3>1, <3>2 DEF Alone, InFlight, Twins
    <3>4. ReadsOwn(x, draft[x]) /\ ReadsOwn(x, row[x]) /\ (InFlight(x) => Alone(x))
      BY <1>0, <3>1
    <3> USE <1>0, <3>3, <3>4, BlankShape
        DEF Alone, InFlight, Becomes, Drafts, Writes, TypeOK, Twins
    <3>5. CASE SkipMeasured(x)
      BY <3>5 DEF SkipMeasured
    <3>6. CASE RecordUnrebuilt(x) \/ SetupUnlocated(x) \/ SetupRemoved(x) \/ Raises(x)
      <4>1. pc'[x] = "settled" /\ draft'[x] = Blank
        BY <3>6 DEF RecordUnrebuilt, SetupUnlocated, SetupRemoved, Raises
      <4>2. row'[x].readFrom = {} /\ ~row'[x].clean /\ ~row'[x].executed
        <5>1. CASE RecordUnrebuilt(x)
          BY <5>1 DEF RecordUnrebuilt, Blank
        <5>2. CASE SetupUnlocated(x) \/ SetupRemoved(x)
          BY <5>2 DEF SetupUnlocated, SetupRemoved, DraftShape, Blank
        <5>3. CASE Raises(x)
          BY <5>3 DEF Raises, Blank
        <5> QED
          BY <3>6, <5>1, <5>2, <5>3
      <4> QED
        BY <4>1, <4>2 DEF ReadsOwn
    <3>7. CASE BuildOk(x)
      <4>1. /\ pc'[x] = "built" /\ image'[Slug[x]] = x /\ row'[x] = row[x]
            /\ draft'[x] = [draft[x] EXCEPT !.build = TRUE]
        BY <3>7 DEF BuildOk
      <4>2. ReadsOwn(x, draft'[x])
        BY <4>1 DEF ReadsOwn, Rows
      <4> QED
        BY <4>1, <4>2
    <3>17. CASE BuildFails(x) \/ BuildOverruns(x) \/ \E ok \in BOOLEAN : SetupBuilds(x, ok)
      BY <3>17 DEF BuildFails, BuildOverruns, SetupBuilds
    <3>8. CASE ClearName(x)
      BY <3>8 DEF ClearName
    <3>9. CASE RunContainer(x)
      BY <3>9 DEF RunContainer
    <3>10. CASE RunRefused(x)
      BY <3>10 DEF RunRefused, ReadsOwn, Rows
    <3>11. ASSUME NEW verdict \in Probed, Probe(x, verdict) PROVE Goal
      BY <3>11 DEF Probe, ReadsOwn, Rows, Seen, Thread, KeepDaemon, daemon
    <3>12. ASSUME NEW b \in BOOLEAN, Gate(x, b) PROVE Goal
      BY <3>12 DEF Gate, ReadsOwn, Rows, Seen, KeepDaemon, daemon
    <3>13. ASSUME NEW b \in BOOLEAN, RunTests(x, b) PROVE Goal
      BY <3>13 DEF RunTests, ReadsOwn, Rows, Seen, KeepDaemon, daemon
    <3>14. ASSUME NEW b \in BOOLEAN, ReadReport(x, b) PROVE Goal
      BY <3>14 DEF ReadReport, ReadsOwn, Rows, Seen, KeepDaemon, daemon
    <3>15. CASE RemoveContainer(x) \/ RemoveImageAndWrite(x)
      BY <3>15, BlankShape DEF ReadsOwn, RemoveContainer, RemoveImageAndWrite
    <3>16. CASE Hangs(x)
      BY <3>16 DEF Hangs
    <3> QED
      BY <1>2, <2>2, <3>5, <3>6, <3>7, <3>8, <3>9, <3>10, <3>11, <3>12, <3>13, <3>14,
         <3>15, <3>16, <3>17 DEF Works
  <2> QED
    BY <2>1, <2>2
<1>3. ASSUME NEW e \in Envs, LateBuildLands(e) PROVE Goal
  <2>1. CASE Slug[e] # Slug[x]
    BY <1>0, <1>3, <2>1 DEF LateBuildLands, Alone, InFlight, Twins, TypeOK
  <2>2. CASE e = x
    BY <1>0, <1>3, <2>2 DEF LateBuildLands, Alone, InFlight, Twins, TypeOK
  <2>3. CASE e \in Twins(x)
    BY <1>0, <1>3, <2>3 DEF LateBuildLands, Alone, InFlight, Twins, TypeOK
  <2> QED
    BY <2>1, <2>2, <2>3 DEF Twins
<1>4. ASSUME NEW s \in Slugs, Dies(s) PROVE Goal
    BY <1>0, <1>4 DEF Dies, Alone, InFlight, Twins, TypeOK, KeepHistory, history
<1>5. CASE Main
    BY <1>0, <1>5 DEF Main, RejectDelta, OpenMetrics, WriteMetrics, MetricsFail,
        OpenErrors, WriteErrors, ClassifyFails, Aggregates,
        Alone, InFlight, Twins, KeepDaemon, daemon, KeepHistory, history
<1>6. CASE Kill \/ \E b \in BOOLEAN : Restart(b)
    BY <1>0, <1>6, BlankShape DEF Kill, Restart, InFlight, ReadsOwn, KeepHistory, history
<1>7. CASE UNCHANGED vars
    BY <1>0, <1>7 DEF vars, Alone, InFlight, Twins, daemon, history
<1> QED
    BY <1>1, <1>2, <1>3, <1>4, <1>5, <1>6, <1>7 DEF Next

-----------------------------------------------------------------------------
(* Who leaves the set of those that will remove has removed. *)
LEMMA OwnedStep == TypeOK /\ Joined /\ OwnedInv /\ [Next]_vars => OwnedInv'
<1> SUFFICES ASSUME TypeOK, Joined, OwnedInv, [Next]_vars, ~cut'
             PROVE  late' = {} /\ \A s \in Slugs : Owned(s)'
    BY DEF OwnedInv
<1>0. late = {} \/ cut
    BY DEF OwnedInv
<1>1. ASSUME NEW e \in Envs, Works(e) \/ Hangs(e)
      PROVE  late' = {} /\ \A s \in Slugs : Owned(s)'
  <2>1. cut' = cut /\ late' = late
    BY <1>1 DEF Works, Hangs, KeepHistory, history, Thread, SkipMeasured,
        RecordUnrebuilt, Start, BuildOk, BuildFails,
        BuildOverruns, SetupUnlocated, SetupBuilds, SetupRemoved, Raises, ClearName,
        RunContainer, RunRefused, Probe, Gate, RunTests, ReadReport, RemoveContainer,
        RemoveImageAndWrite
  <2>2. unguarded \subseteq unguarded'
    BY <1>1 DEF Works, Hangs, KeepHistory, history, SkipMeasured,
        RecordUnrebuilt, Start, BuildOk, BuildFails,
        BuildOverruns, SetupUnlocated, SetupBuilds, SetupRemoved, Raises, ClearName,
        RunContainer, RunRefused, Probe, Gate, RunTests, ReadReport, RemoveContainer,
        RemoveImageAndWrite
  <2>3. ASSUME NEW s \in Slugs, s # Slug[e] PROVE Owned(s)'
    <3>1. \A f \in Envs : Slug[f] = s => pc'[f] = pc[f]
      BY <1>1, <2>3, Elsewhere
    <3> QED
      BY <1>0, <1>1, <2>1, <2>2, <2>3, <3>1, OtherSlugs DEF OwnedInv, Owned
  <2>4. Owned(Slug[e])'
    <3>1. Owned(Slug[e]) /\ Slug[e] \in Slugs /\ e # None
      BY <2>1, EnvAssumption DEF OwnedInv
    <3>2. \A f \in Envs \ {e} : pc'[f] = pc[f]
      BY <1>1, Elsewhere
    <3> USE <3>1, <3>2, <2>2 DEF Owned, Removes, Runs, Becomes, Writes, TypeOK,
            Thread, KeepDaemon, daemon, KeepHistory, history
    <3>3. CASE SkipMeasured(e)
      BY <3>3 DEF SkipMeasured, Takes
    <3>4. CASE RecordUnrebuilt(e)
      BY <3>4 DEF RecordUnrebuilt, Takes
    <3>5. CASE Start(e)
      BY <3>5 DEF Start, Takes
    <3>6. CASE BuildOk(e)
      BY <3>6 DEF BuildOk
    <3>7. CASE BuildFails(e)
      BY <3>7 DEF BuildFails
    <3>8. CASE BuildOverruns(e)
      <4>1. image'[Slug[e]] \in {image[Slug[e]], e} /\ e \in unguarded'
        BY <3>8 DEF BuildOverruns
      <4>2. CASE image'[Slug[e]] = e
        BY <3>8, <4>1, <4>2 DEF BuildOverruns
      <4>3. CASE image'[Slug[e]] = image[Slug[e]]
        BY <3>8, <4>1, <4>3 DEF BuildOverruns
      <4> QED
        BY <4>1, <4>2, <4>3
    <3>9. CASE SetupUnlocated(e)
      BY <3>9 DEF SetupUnlocated
    <3>10. ASSUME NEW ok \in BOOLEAN, SetupBuilds(e, ok) PROVE Owned(Slug[e])'
      BY <3>10 DEF SetupBuilds
    <3>11. CASE SetupRemoved(e)
      BY <3>11 DEF SetupRemoved
    <3>12. CASE Raises(e)
      <4>1. /\ pc'[e] = "settled" /\ e \in unguarded' /\ unguarded' = unguarded \cup {e}
            /\ image' = image /\ container' = container
            /\ setupImage'[Slug[e]] = IF pc[e] = "setup" THEN None ELSE setupImage[Slug[e]]
            /\ pc[e] \in {"building", "setup", "built"}
        BY <3>12 DEF Raises
      <4> QED
        BY <4>1
    <3>13. CASE ClearName(e)
      BY <3>13 DEF ClearName
    <3>14. CASE RunContainer(e)
      BY <3>14 DEF RunContainer
    <3>15. CASE RunRefused(e)
      BY <3>15 DEF RunRefused
    <3>16. ASSUME NEW verdict \in Probed, Probe(e, verdict) PROVE Owned(Slug[e])'
      BY <3>16 DEF Probe
    <3>17. ASSUME NEW b \in BOOLEAN, Gate(e, b) PROVE Owned(Slug[e])'
      BY <3>17 DEF Gate
    <3>18. ASSUME NEW b \in BOOLEAN, RunTests(e, b) PROVE Owned(Slug[e])'
      BY <3>18 DEF RunTests
    <3>19. ASSUME NEW b \in BOOLEAN, ReadReport(e, b) PROVE Owned(Slug[e])'
      BY <3>19 DEF ReadReport
    <3>20. CASE RemoveContainer(e)
      BY <3>20 DEF RemoveContainer
    <3>21. CASE RemoveImageAndWrite(e)
      BY <3>21 DEF RemoveImageAndWrite
    <3>22. CASE Hangs(e)
      BY <3>22 DEF Hangs
    <3> QED
      BY <1>1, <3>3, <3>4, <3>5, <3>6, <3>7, <3>8, <3>9, <3>10, <3>11, <3>12, <3>13,
         <3>14, <3>15, <3>16, <3>17, <3>18, <3>19, <3>20, <3>21, <3>22 DEF Works
  <2> QED
    BY <1>0, <2>1, <2>3, <2>4
<1>2. ASSUME NEW e \in Envs, LateBuildLands(e)
      PROVE  late' = {} /\ \A s \in Slugs : Owned(s)'
    BY <1>0, <1>2 DEF LateBuildLands
<1>3. ASSUME NEW s \in Slugs, Dies(s)
      PROVE  late' = {} /\ \A t \in Slugs : Owned(t)'
    BY <1>3 DEF Dies, OwnedInv, Owned, KeepHistory, history, Thread, TypeOK
<1>4. CASE Main
    BY <1>4 DEF Main, RejectDelta, OpenMetrics, WriteMetrics, MetricsFail,
        OpenErrors, WriteErrors, ClassifyFails, Aggregates, OwnedInv,
        Owned, KeepDaemon, daemon, KeepHistory, history
<1>5. CASE Kill
  <2>1. phase # "measuring" /\ ~cut
    BY <1>5 DEF Kill, TypeOK
  <2>2. \A e \in Envs : pc[e] = "settled"
    BY <2>1 DEF Joined
  <2>3. {e \in Envs : pc[e] = "building"} = {}
    BY <2>2
  <2>4. UNCHANGED <<daemon, unguarded>> /\ late' = late
    BY <1>5, <2>3 DEF Kill, KeepDaemon
  <2> QED
    BY <1>5, <2>1, <2>2, <2>4 DEF Kill, OwnedInv, Owned, Removes, Runs, daemon
<1>6. CASE \E b \in BOOLEAN : Restart(b)
  <2>1. \A e \in Envs : pc[e] = "settled"
    BY <1>6 DEF Restart, Joined
  <2> QED
    BY <1>6, <2>1 DEF Restart, OwnedInv, Owned, Removes, Runs, KeepDaemon, daemon,
        KeepHistory, history
<1>7. CASE UNCHANGED vars
    BY <1>7 DEF vars, OwnedInv, Owned, daemon, history
<1> QED
    BY <1>1, <1>2, <1>3, <1>4, <1>5, <1>6, <1>7 DEF Next

-----------------------------------------------------------------------------
IInv == /\ TypeOK /\ Joined /\ DraftInv /\ HonestInv
        /\ AliveInv /\ OwnedInv /\ ReportInv

LEMMA InvInit == Init => IInv
<1> SUFFICES ASSUME Init PROVE IInv
    OBVIOUS
<1>1. TypeOK
    BY TypeInit
<1>2. Joined /\ DraftInv /\ HonestInv /\ ReportInv
    BY DEF Init, Joined, DraftInv, DraftShape, InFlight, HonestInv, ReportInv
<1>3. AliveInv
    BY BlankShape DEF Init, AliveInv, AloneInv, InFlight, DraftOwn, OwnImage, ReadsOwn, NoRow
<1>4. OwnedInv
    BY DEF Init, OwnedInv, Owned
<1> QED
    BY <1>1, <1>2, <1>3, <1>4 DEF IInv

LEMMA AlwaysInv == Spec => []IInv
<1>1. IInv /\ [Next]_vars => IInv'
    BY TypeStep, JoinedStep, DraftStep, HonestStep, AliveStep, OwnedStep, ReportStep
    DEF IInv
<1> QED
    BY InvInit, <1>1, PTL DEF Spec

(* All variables keep their types. *)
THEOREM TypeCorrect == Spec => []TypeOK
BY TypeInit, TypeStep, PTL DEF Spec

(* A row is read off its own environment's image, unless another environment *)
(* of its slug was measured at the same time.                                *)
THEOREM RowsAreOwn == Spec => []OwnImage
<1>1. IInv => OwnImage
    BY DEF IInv, AliveInv
<1> QED
    BY <1>1, AlwaysInv, PTL

EveryRowOwn == \A e \in Envs : ReadsOwn(e, row[e])
Undisturbed == disturbed = {}

(* So with slugs that tell the environments apart every row is of its own image. *)
THEOREM DistinctSlugs ==
    ASSUME \A e, f \in Envs : Slug[e] = Slug[f] => e = f
    PROVE  Spec => []EveryRowOwn
<1>1. \A e \in Envs : Twins(e) = {}
    BY DEF Twins
<1>2. Init => Undisturbed
    BY DEF Init, Undisturbed
<1>3. Undisturbed /\ [Next]_vars => Undisturbed'
  <2> SUFFICES ASSUME disturbed = {}, [Next]_vars PROVE disturbed' = {}
    BY DEF Undisturbed
  <2>1. CASE \E e \in Envs : Works(e) \/ Hangs(e) \/ LateBuildLands(e)
    BY <1>1, <2>1 DEF Works, Hangs, KeepHistory, history, SkipMeasured,
        RecordUnrebuilt, Start, BuildOk, BuildFails, LateBuildLands,
        BuildOverruns, SetupUnlocated, SetupBuilds, SetupRemoved, Raises, ClearName,
        RunContainer, RunRefused, Probe, Gate, RunTests, ReadReport, RemoveContainer,
        RemoveImageAndWrite
  <2>2. CASE (\E s \in Slugs : Dies(s)) \/ Main \/ Kill \/ \E b \in BOOLEAN : Restart(b)
    BY <2>2 DEF Dies, Main, RejectDelta, OpenMetrics, WriteMetrics, MetricsFail,
        OpenErrors, WriteErrors, ClassifyFails, Aggregates, Kill,
        Restart, KeepHistory, history
  <2>3. CASE UNCHANGED vars
    BY <2>3 DEF vars, history
  <2> QED
    BY <2>1, <2>2, <2>3 DEF Next
<1>4. OwnImage /\ Undisturbed => EveryRowOwn
    BY DEF OwnImage, Undisturbed, EveryRowOwn
<1> QED
    BY <1>2, <1>3, <1>4, RowsAreOwn, PTL DEF Spec

(* When no run was killed, containers are gone at the end of each, and images *)
(* but those of environments that left measure outside its try.               *)
THEOREM EverythingRemoved == Spec => []NothingLeft
<1>1. IInv => NothingLeft
    BY DEF IInv, OwnedInv, Owned, NothingLeft, InFlight, Removes, Runs
<1> QED
    BY <1>1, AlwaysInv, PTL

(* A whole errors.json is never of another run than the whole metrics.json beside it, *)
(* but for a kill between the two writes.                                             *)
THEOREM ReportsMatch == Spec => []ErrorsBesideMetrics
<1>1. IInv => ErrorsBesideMetrics
    BY DEF IInv, ReportInv, ErrorsBesideMetrics
<1> QED
    BY <1>1, AlwaysInv, PTL

(* A status derived for a row is one that measure could have given it. *)
THEOREM DerivedIsHonest == Spec => []DerivedStatusHonest
<1>1. IInv => DerivedStatusHonest
  <2> SUFFICES ASSUME IInv, NEW e \in Envs, row[e] # NoRow
               PROVE  row[e].status \in StandsFor[Derived(e)]
    BY DEF DerivedStatusHonest
  <2>1. Honest(e, row[e])
    BY DEF IInv, HonestInv
  <2>2. Derived(e) = IF Harvested[e] \notin Measurable THEN "missing"
        ELSE IF row[e].infra THEN "measure_error"
        ELSE IF ~row[e].build THEN "build_fail"
        ELSE IF row[e].timed THEN "timed_out"
        ELSE IF ~row[e].clean THEN "unknown_conformance"
        ELSE IF row[e].executed THEN "executed" ELSE "no_tests_collected"
    BY DEF Derived
  <2> QED
    BY <2>1, <2>2 DEF Honest
<1> QED
    BY <1>1, AlwaysInv, PTL

-----------------------------------------------------------------------------
(* The pool.  Nobody in flight has a row; a thread that starts takes the first that *)
(* waits, while one of the pool is free.                                            *)
RowOpen == \A e \in Envs : InFlight(e) => row[e] = NoRow

Flying  == {e \in Envs : InFlight(e)}
PoolInv == /\ IsFiniteSet(Flying) /\ Cardinality(Flying) <= Concurrency
           /\ \A e, f \in Envs : f < e /\ pc[f] = "waiting" => pc[e] = "waiting"

(* What every step of a thread does to its place in the pool and to its row. *)
LEMMA ThreadStep ==
    ASSUME TypeOK, NEW e \in Envs, Works(e) \/ Hangs(e)
    PROVE  /\ phase' = phase /\ pc'[e] # "waiting"
           /\ StepsOf[pc'[e]] < StepsOf[pc[e]]
           /\ pc[e] = "waiting" => Takes(e)
           /\ pc[e] = "waiting" /\ pc'[e] # "settled" => row[e] = NoRow
           /\ row' = row \/ (/\ pc'[e] = "settled"
                             /\ InFlight(e) \/ row[e] = NoRow
                             /\ \A f \in Envs \ {e} : row'[f] = row[f])
<1> DEFINE Goal ==
        /\ phase' = phase /\ pc'[e] # "waiting"
        /\ StepsOf[pc'[e]] < StepsOf[pc[e]]
        /\ pc[e] = "waiting" => Takes(e)
        /\ pc[e] = "waiting" /\ pc'[e] # "settled" => row[e] = NoRow
        /\ row' = row \/ (/\ pc'[e] = "settled"
                          /\ InFlight(e) \/ row[e] = NoRow
                          /\ \A f \in Envs \ {e} : row'[f] = row[f])
<1> USE DEF TypeOK, Thread, KeepMain, Becomes, Writes, StepsOf, InFlight
<1>1. CASE SkipMeasured(e) \/ RecordUnrebuilt(e) \/ Start(e)
    BY <1>1 DEF SkipMeasured, RecordUnrebuilt, Start, Takes
<1>2. CASE BuildOk(e) \/ BuildFails(e) \/ BuildOverruns(e)
    BY <1>2 DEF BuildOk, BuildFails, BuildOverruns
<1>3. CASE SetupUnlocated(e) \/ (\E ok \in BOOLEAN : SetupBuilds(e, ok)) \/ SetupRemoved(e)
    BY <1>3 DEF SetupUnlocated, SetupBuilds, SetupRemoved
<1>4. CASE Raises(e) \/ ClearName(e) \/ RunContainer(e) \/ RunRefused(e)
    BY <1>4 DEF Raises, ClearName, RunContainer, RunRefused
<1>5. CASE \E verdict \in Probed : Probe(e, verdict)
    BY <1>5 DEF Probe
<1>6. CASE \E b \in BOOLEAN : Gate(e, b)
    BY <1>6 DEF Gate
<1>7. CASE \E b \in BOOLEAN : RunTests(e, b) \/ ReadReport(e, b)
    BY <1>7 DEF RunTests, ReadReport
<1>8. CASE RemoveContainer(e) \/ RemoveImageAndWrite(e) \/ Hangs(e)
    BY <1>8 DEF RemoveContainer, RemoveImageAndWrite, Hangs
<1> QED
    BY <1>1, <1>2, <1>3, <1>4, <1>5, <1>6, <1>7, <1>8 DEF Works

(* Every other step leaves the rows, and moves nobody but all at once. *)
LEMMA OtherStep ==
    ASSUME TypeOK, Joined, [Next]_vars, \A e \in Envs : ~(Works(e) \/ Hangs(e))
    PROVE  /\ row' = row
           /\ \/ pc' = pc
              \/ /\ phase # "measuring" \/ phase' # "measuring"
                 /\ \A e \in Envs : ~InFlight(e)'
                 /\ (\A e \in Envs : pc'[e] = "waiting") \/ \A e \in Envs : pc'[e] = "settled"
<1>1. CASE \E e \in Envs : LateBuildLands(e)
    BY <1>1 DEF LateBuildLands
<1>2. CASE \E s \in Slugs : Dies(s)
    BY <1>2 DEF Dies
<1>3. CASE Main
    BY <1>3 DEF Main, RejectDelta, OpenMetrics, WriteMetrics, MetricsFail,
        OpenErrors, WriteErrors, ClassifyFails, Aggregates
<1>4. CASE Kill
    <2>1. row' = row /\ phase' # "measuring" /\ pc' = [e \in Envs |-> "settled"]
        BY <1>4 DEF Kill
    <2> QED BY <2>1 DEF InFlight
<1>5. ASSUME NEW b \in BOOLEAN, Restart(b)
      PROVE  /\ row' = row
             /\ phase # "measuring"
             /\ \A e \in Envs : ~InFlight(e)'
             /\ (\A e \in Envs : pc'[e] = "waiting") \/ \A e \in Envs : pc'[e] = "settled"
    <2>1. row' = row /\ phase = "down"
          /\ pc' = [e \in Envs |-> IF b THEN "settled" ELSE "waiting"]
        BY <1>5 DEF Restart
    <2>2. CASE b
        BY <2>1, <2>2 DEF InFlight
    <2>3. CASE ~b
        BY <2>1, <2>3 DEF InFlight
    <2> QED BY <2>1, <2>2, <2>3
<1>6. CASE UNCHANGED vars
    BY <1>6 DEF vars
<1> QED
    BY <1>1, <1>2, <1>3, <1>4, <1>5, <1>6 DEF Next

LEMMA RowOpenStep == TypeOK /\ Joined /\ RowOpen /\ [Next]_vars => RowOpen'
<1> SUFFICES ASSUME TypeOK, Joined, RowOpen, [Next]_vars, NEW f \in Envs, InFlight(f)'
             PROVE  row'[f] = NoRow
    BY DEF RowOpen
<1>1. ASSUME NEW e \in Envs, Works(e) \/ Hangs(e) PROVE row'[f] = NoRow
    <2>1. CASE f = e
        <3>1. pc'[e] # "settled" /\ row' = row
            BY <1>1, <2>1, ThreadStep DEF InFlight
        <3>2. CASE pc[e] = "waiting"
            BY <1>1, <2>1, <3>1, <3>2, ThreadStep
        <3>3. CASE pc[e] # "waiting"
            <4>1. pc[e] # "settled"
                <5>1. StepsOf[pc'[e]] < StepsOf[pc[e]] /\ StepsOf[pc'[e]] \in Nat
                    <6>1. pc'[e] \in {"waiting", "settled", "building", "setup", "setupbuilt",
                              "built", "cleared", "running", "probed", "testing",
                              "reporting", "removing", "untagging", "hung"}
                        BY TypeStep DEF TypeOK
                    <6> QED BY <1>1, <6>1, ThreadStep DEF StepsOf
                <5> QED BY <5>1 DEF StepsOf
            <4> QED BY <2>1, <3>1, <3>3, <4>1 DEF RowOpen, InFlight
        <3> QED BY <3>2, <3>3
    <2>2. CASE f # e
        <3>1. pc'[f] = pc[f]
            BY <1>1, <2>2, Elsewhere
        <3>2. row'[f] = row[f]
            BY <1>1, <2>2, ThreadStep
        <3> QED BY <3>1, <3>2 DEF RowOpen, InFlight
    <2> QED BY <2>1, <2>2
<1>2. CASE \A e \in Envs : ~(Works(e) \/ Hangs(e))
    <2>1. row' = row /\ pc' = pc
        BY <1>2, OtherStep
    <2> QED BY <2>1 DEF RowOpen, InFlight
<1> QED BY <1>1, <1>2

LEMMA PoolStep == TypeOK /\ Joined /\ PoolInv /\ [Next]_vars => PoolInv'
<1> SUFFICES ASSUME TypeOK, Joined, PoolInv, [Next]_vars PROVE PoolInv'
    OBVIOUS
<1> USE EnvAssumption, RunsAssumption
<1>1. ASSUME NEW e \in Envs, Works(e) \/ Hangs(e) PROVE PoolInv'
    <2>1. \A f \in Envs \ {e} : pc'[f] = pc[f]
        BY <1>1, Elsewhere
    <2>2. Flying' \subseteq Flying \cup {e}
        BY <2>1 DEF Flying, InFlight
    <2>3. IsFiniteSet(Flying') /\ Cardinality(Flying') <= Concurrency
        <3>1. CASE pc[e] = "waiting"
            <4>1. e \notin Flying /\ Cardinality(Flying) < Concurrency
                BY <1>1, <3>1, ThreadStep DEF Flying, InFlight, Takes, Busy
            <4>2. IsFiniteSet(Flying \cup {e}) /\ Cardinality(Flying) \in Nat
                  /\ Cardinality(Flying \cup {e}) = Cardinality(Flying) + 1
                BY <4>1, FS_AddElement, FS_CardinalityType DEF PoolInv
            <4>3. IsFiniteSet(Flying') /\ Cardinality(Flying') <= Cardinality(Flying \cup {e})
                  /\ Cardinality(Flying') \in Nat
                BY <2>2, <4>2, FS_Subset, FS_CardinalityType
            <4> QED BY <4>1, <4>2, <4>3
        <3>2. CASE pc[e] = "settled"
            <4>1. e \notin Flying'
                <5>1. StepsOf[pc'[e]] < 0
                    BY <1>1, <3>2, ThreadStep DEF StepsOf
                <5>2. pc'[e] \in DOMAIN StepsOf
                    BY TypeStep DEF TypeOK, StepsOf
                <5> QED BY <5>1, <5>2 DEF StepsOf
            <4>2. Flying' \subseteq Flying
                BY <2>2, <4>1
            <4> QED BY <4>2, FS_Subset, FS_CardinalityType DEF PoolInv
        <3>3. CASE InFlight(e)
            <4>1. Flying' \subseteq Flying
                BY <2>2, <3>3 DEF Flying
            <4>2. IsFiniteSet(Flying') /\ Cardinality(Flying') <= Cardinality(Flying)
                  /\ Cardinality(Flying') \in Nat /\ Cardinality(Flying) \in Nat
                BY <4>1, FS_Subset, FS_CardinalityType DEF PoolInv
            <4> QED BY <4>2 DEF PoolInv
        <3> QED BY <3>1, <3>2, <3>3 DEF InFlight
    <2>4. ASSUME NEW g \in Envs, NEW f \in Envs, f < g, pc'[f] = "waiting"
          PROVE  pc'[g] = "waiting"
        <3>1. pc'[e] # "waiting"
            BY <1>1, ThreadStep
        <3>2. f # e /\ pc[f] = "waiting"
            BY <2>1, <2>4, <3>1
        <3>3. pc[g] = "waiting"
            BY <2>4, <3>2 DEF PoolInv
        <3>4. g # e
            <4> SUFFICES ASSUME g = e PROVE FALSE
                OBVIOUS
            <4>1. e <= f
                BY <1>1, <3>2, <3>3, ThreadStep DEF Takes
            <4> QED BY <2>4, <4>1
        <3> QED BY <2>1, <3>3, <3>4
    <2> QED BY <2>3, <2>4 DEF PoolInv
<1>2. CASE \A e \in Envs : ~(Works(e) \/ Hangs(e))
    <2>1. CASE pc' = pc
        BY <2>1 DEF PoolInv, Flying, InFlight
    <2>2. CASE pc' # pc
        <3>1. Flying' = {}
            BY <1>2, <2>2, OtherStep DEF Flying
        <3>2. \A e, f \in Envs : f < e /\ pc'[f] = "waiting" => pc'[e] = "waiting"
            BY <1>2, <2>2, OtherStep
        <3> QED BY <3>1, <3>2, FS_EmptySet DEF PoolInv
    <2> QED BY <2>1, <2>2
<1> QED BY <1>1, <1>2

(* Each container has somebody in flight who removes it, no two of them the same. *)
LEMMA BoxesOfFlying ==
    ASSUME TypeOK, OwnedInv, PoolInv, ~cut
    PROVE  IsFiniteSet(Boxed) /\ Cardinality(Boxed) <= Cardinality(Flying)
<1> DEFINE Owner(s) == CHOOSE e \in Envs : Slug[e] = s /\ pc[e] \in Runs
           owner == [s \in Boxed |-> Owner(s)]
<1>1. ASSUME NEW s \in Boxed PROVE Owner(s) \in Flying /\ Slug[Owner(s)] = s
    <2>1. \E e \in Envs : Slug[e] = s /\ pc[e] \in Runs
        BY <1>1 DEF OwnedInv, Owned, Boxed
    <2>2. Owner(s) \in Envs /\ Slug[Owner(s)] = s /\ pc[Owner(s)] \in Runs
        BY <2>1
    <2> QED BY <2>2 DEF Runs, Flying, InFlight
<1>2. owner \in [Boxed -> Flying]
    BY <1>1
<1>3. \A s, t \in Boxed : owner[s] = owner[t] => s = t
    BY <1>1
<1>4. owner \in Injection(Boxed, Flying)
    <2> HIDE DEF owner
    <2> QED BY <1>2, <1>3 DEF Injection, IsInjective
<1> QED
    <2> HIDE DEF owner
    <2> QED BY <1>4, FS_Injection DEF PoolInv

LEMMA AlwaysPool == Spec => [](IInv /\ RowOpen /\ PoolInv)
<1>1. Init => RowOpen /\ PoolInv
    <2> SUFFICES ASSUME Init PROVE RowOpen /\ PoolInv
        OBVIOUS
    <2>1. Flying = {}
        BY DEF Init, Flying, InFlight
    <2>2. \A e, f \in Envs : f < e /\ pc[f] = "waiting" => pc[e] = "waiting"
        BY DEF Init
    <2> QED BY <2>1, <2>2, FS_EmptySet, RunsAssumption DEF PoolInv, RowOpen, Flying
<1>2. IInv /\ RowOpen /\ PoolInv /\ [Next]_vars => RowOpen' /\ PoolInv'
    BY RowOpenStep, PoolStep DEF IInv
<1> QED
    BY <1>1, <1>2, AlwaysInv, PTL DEF Spec

(* At most --concurrency environments are measured at a time, in the order of the *)
(* list, and without a kill no more containers than that are on the machine.      *)
THEOREM PoolIsBounded == Spec => []AtMostConcurrencyMeasured
<1>1. IInv /\ PoolInv => AtMostConcurrencyMeasured
    <2> SUFFICES ASSUME IInv, PoolInv PROVE AtMostConcurrencyMeasured
        OBVIOUS
    <2>1. Busy <= Concurrency /\ Busy = Cardinality(Flying) /\ Busy \in Nat
        BY FS_CardinalityType DEF PoolInv, Busy, Flying
    <2>2. ~cut => Cardinality(Boxed) <= Concurrency
        <3> SUFFICES ASSUME ~cut PROVE Cardinality(Boxed) <= Concurrency
            OBVIOUS
        <3>1. Cardinality(Boxed) <= Cardinality(Flying) /\ Cardinality(Boxed) \in Nat
            BY BoxesOfFlying, FS_CardinalityType DEF IInv
        <3> QED BY <2>1, <3>1, RunsAssumption
    <2> QED BY <2>1, <2>2 DEF AtMostConcurrencyMeasured, PoolInv
<1> QED
    BY <1>1, AlwaysPool, PTL

(* A row is written once, however often the measure stage is killed and resumed. *)
THEOREM MeasuredOnce == Spec => RowIsFinal
<1>1. IInv /\ RowOpen /\ [Next]_vars
          => [\A e \in Envs : row[e] # NoRow => row'[e] = row[e]]_vars
    <2> SUFFICES ASSUME IInv, RowOpen, [Next]_vars, NEW f \in Envs, row[f] # NoRow
                 PROVE  row'[f] = row[f]
        OBVIOUS
    <2> USE DEF IInv
    <2>1. ASSUME NEW e \in Envs, Works(e) \/ Hangs(e) PROVE row'[f] = row[f]
        <3>1. ~InFlight(f)
            BY DEF RowOpen
        <3> QED BY <2>1, <3>1, ThreadStep
    <2>2. CASE \A e \in Envs : ~(Works(e) \/ Hangs(e))
        BY <2>2, OtherStep
    <2> QED BY <2>1, <2>2
<1> QED
    BY <1>1, AlwaysPool, PTL DEF Spec, RowIsFinal

(* Within a run each step of a thread counts down, for any number of environments *)
(* and threads: the safety half of PoolEnds.                                      *)
THEOREM NoCircles == Spec => NeverBack
<1>1. IInv /\ [Next]_vars
          => [phase = "measuring" /\ phase' = "measuring" /\ pc' # pc =>
                  \E e \in Envs : /\ StepsOf[pc'[e]] < StepsOf[pc[e]]
                                  /\ \A f \in Envs \ {e} : pc'[f] = pc[f]]_vars
    <2> SUFFICES ASSUME IInv, [Next]_vars, phase = "measuring", phase' = "measuring", pc' # pc
                 PROVE  \E e \in Envs : /\ StepsOf[pc'[e]] < StepsOf[pc[e]]
                                        /\ \A f \in Envs \ {e} : pc'[f] = pc[f]
        OBVIOUS
    <2> USE DEF IInv
    <2>1. PICK e \in Envs : Works(e) \/ Hangs(e)
        BY OtherStep
    <2> QED BY <2>1, ThreadStep, Elsewhere
<1> QED
    BY <1>1, AlwaysInv, PTL DEF Spec, NeverBack
=============================================================================
