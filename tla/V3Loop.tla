------------------------------- MODULE V3Loop -------------------------------
(***************************************************************************)
(* run_v3, the loop of the john-planner-v3 agent                            *)
(* (docker_agents/john-planner-v3/src/envstate/orchestrator.py): every      *)
(* cycle certifies the dependency graph, replays the whole install script   *)
(* from the base image, lets the graph scheduler decide, samples the test   *)
(* gate, and repairs one obligation or runs the gate as a discover task.    *)
(* The environment decides which checks pass in a replayed container, how   *)
(* a test run ends, what a failure is diagnosed as and what the LLM         *)
(* proposes.                                                                *)
(*                                                                          *)
(* Nodes of the graph are packages, shared libraries and tools, and         *)
(* Services that carry a setup recipe.  A step of the loop may raise: the   *)
(* container is then closed and no artifact written                         *)
(* (scripts/run_v3_e2e.py).                                                 *)
(***************************************************************************)
EXTENDS Integers, FiniteSets, Sequences

CONSTANTS
    Node, Services,    \* requirements, those of type SERVICE with a setup recipe among them
    Packages, Libs,    \* those of type PACKAGE and of type SYSTEM_LIB; the rest are tools
    Static, Predicted, \* those construction finds, and libraries it may predict (RESOLVER)
    Recipes,           \* those of both that have an install recipe then (_is_reciped)
    Requires,          \* hard "requires" edges, as pairs: there as soon as both ends are
    Wheels,            \* packages known to be installed from a wheel
    Conflicted,        \* packages a conflicts_with edge touches
    AptFile,           \* those whose check passes once apt-file and all it needs is installed
    AllowServices,     \* DOCKERAGENT_ENABLE_SERVICE_PROVISION
    FailSig,           \* signatures of failing test runs
    None, Script,      \* no node; an id of the script that is no requirement (block, project)
    MaxCycles, AttemptCap, MaxRepairs, NoProgressCycles, ResidualCycles

ASSUME NodeAssumption ==
    /\ IsFiniteSet(Node)
    /\ Services \subseteq Node /\ Static \subseteq Node /\ AptFile \subseteq Node
    /\ Packages \subseteq Node \ Services /\ Libs \subseteq Node \ (Services \cup Packages)
    /\ Predicted \subseteq Libs
    /\ Recipes \subseteq (Static \cup Predicted) \ Services
    /\ Requires \subseteq Node \X Node
    /\ Wheels \subseteq Packages /\ Conflicted \subseteq Packages
    /\ AllowServices \in BOOLEAN
    /\ None \notin Node /\ Script \notin Node /\ None # Script
    /\ {None, "discover", "done"} \cap Node = {} /\ None \notin {"discover", "done"}
    /\ {"pass", "hollow", "none"} \cap FailSig = {}
ASSUME BoundAssumption ==
    {MaxCycles, AttemptCap, MaxRepairs, NoProgressCycles, ResidualCycles} \subseteq Nat \ {0}

VARIABLES
    pc, cycle,
    hasGraph,    \* did construction build a graph? (it may fail, and the loop then runs without)
    node,        \* state of each node, "absent" when the graph has none
    fails,       \* certify_fail_count of each service, up to 3
    recipes,     \* nodes with an install recipe: an apt chosen_fix, a version if a package
    blocks,      \* nodes some manual block targets
    predicted,   \* libraries whose discovered_by is still RESOLVER
    up,          \* the nodes whose check passes in the container as it is
    replay,      \* _last_replay_result
    script,      \* history: what the last replay installed
    ingested,    \* history: what an ingest has changed since: states, recipes, passing checks
    memo,        \* VerifyTestCache: its result, and whether its token is that of _container_gen
    lost,        \* is the container the baseline one Sandbox.execute restored, not the replayed?
    handed, residual,          \* _handed, _residual_ids
    hadResidual, hadRepair,    \* _cycle_had_residual, _cycle_had_env_repair
    resStall, stuck, lastNodes, prevSig, stall,
    unread,      \* the ledger has a failed event past _rt_mark
    turns, budgetOut,          \* _repair_turns, _budget_exhausted
    decision,    \* of the scheduler: a node, "discover" or "done"
    call,        \* the run_structured_repair in progress
    report,      \* is the report of this cycle a verified test pass?
    stop,
    ran,         \* history: how the tests last ran in the container as it is
    samples      \* history: the last gate samples, one a cycle

graphVars == <<node, fails, recipes, blocks, predicted>>
tested    == <<memo, ran, up, lost>>
replayed  == <<replay, script, ingested>>
container == <<replayed, tested>>
cycleVars == <<hadResidual, hadRepair, report>>
counters  == <<resStall, stuck, lastNodes, prevSig, stall, samples>>
budget    == <<turns, budgetOut>>
sched     == <<handed, residual, decision>>
vars == <<pc, cycle, hasGraph, graphVars, container, cycleVars, counters, budget, sched,
          unread, call, stop>>

Outcome == {"pass", "hollow"} \cup FailSig
RawOk   == {"pass", "hollow"}
Success == {"planner_done", "done_flag"}
Reason  == Success \cup {"giveup_replay", "giveup_budget", "giveup_residual", "giveup_stuck",
                         "giveup_no_progress", "max_cycles", "raised"}
NoCall  == [site |-> "none", id |-> None, attempt |-> 0, spent |-> 0]

GraphTypeOK ==
    /\ node \in [Node -> {"absent", "unknown", "missing", "sat"}]
    /\ fails \in [Services -> 0..3]
    /\ recipes \subseteq Node \ Services
    /\ blocks \subseteq Node
    /\ predicted \subseteq Libs
    /\ up \subseteq Node

GateTypeOK ==
    /\ replay \in {"none", "ok", "failed"}
    /\ memo \in [result : Outcome \cup {"none"}, current : BOOLEAN]
    /\ ran \in Outcome \cup {"none"}
    /\ lost \in BOOLEAN
    /\ script \in [install : SUBSET Node, blocks : SUBSET Node]
    /\ ingested \subseteq Node
    /\ prevSig \in Outcome \cup {"none"}
    /\ stall \in 0..NoProgressCycles
    /\ samples \in Seq(Outcome) /\ Len(samples) <= NoProgressCycles

SchedulerTypeOK ==
    /\ handed \in [Node -> 0..AttemptCap]
    /\ residual \subseteq Node
    /\ decision \in Node \cup {"discover", "done", None}
    /\ stuck \in 0..2
    /\ lastNodes \in -1..Cardinality(Node)

ControlTypeOK ==
    /\ pc \in {"emit", "repair", "recert", "ingest", "giveup", "decide", "gate", "task", "wrap",
               "stopped"}
    /\ cycle \in 1..MaxCycles
    /\ stop \in Reason \cup {"none"}
    /\ hasGraph \in BOOLEAN /\ unread \in BOOLEAN /\ report \in BOOLEAN
    /\ hadResidual \in BOOLEAN /\ hadRepair \in BOOLEAN
    /\ resStall \in 0..ResidualCycles

BudgetTypeOK ==
    /\ turns \in -1..MaxCycles
    /\ budgetOut \in BOOLEAN
    /\ call \in [site : {"none", "emit", "task"}, id : Node \cup {None, Script},
                 attempt : 0..MaxRepairs, spent : 0..(MaxCycles + 1)]

TypeOK == GraphTypeOK /\ GateTypeOK /\ SchedulerTypeOK /\ ControlTypeOK /\ BudgetTypeOK

Init ==
    /\ pc = "emit"
    /\ cycle = 1
    /\ hasGraph \in BOOLEAN
    /\ predicted \in IF hasGraph THEN SUBSET Predicted ELSE {{}}
    /\ node = [n \in Node |-> IF hasGraph /\ n \in Static \cup predicted THEN "unknown"
                              ELSE "absent"]
    /\ fails = [s \in Services |-> 0]
    /\ recipes = {n \in Recipes : node[n] # "absent"}
    /\ blocks = {}
    /\ up = {}
    /\ replay = "none"
    /\ memo = [result |-> "none", current |-> FALSE]
    /\ handed = [n \in Node |-> 0]
    /\ residual = {}
    /\ hadResidual = FALSE /\ hadRepair = FALSE /\ report = FALSE
    /\ resStall = 0 /\ stuck = 0 /\ lastNodes = -1 /\ prevSig = "none" /\ stall = 0
    /\ samples = <<>>
    /\ unread = FALSE
    /\ turns = MaxCycles /\ budgetOut = FALSE
    /\ decision = None
    /\ call = NoCall
    /\ stop = "none"
    /\ ran = "none" /\ lost = FALSE
    /\ script = [install |-> {}, blocks |-> {}] /\ ingested = {}

-----------------------------------------------------------------------------
(* VERIFY_TEST_CMD in Sandbox.execute.  If the container cannot be reached, or is *)
(* unhealthy after a failure, the baseline snapshot is restored under the loop:   *)
(* nothing of the script is left, and the token of the memo stays as it is.       *)
RunTests(o) ==
    /\ o \in Outcome
    /\ memo' = [result |-> o, current |-> TRUE]
    /\ ran' = o
    /\ \/ UNCHANGED <<up, lost>>
       \/ o \in FailSig /\ up' = {} /\ lost' = TRUE

(* Mutant: the memo is served whatever container it is of. *)
VerifyIgnoresGeneration(o) ==
    IF memo.result # "none" THEN o = memo.result /\ UNCHANGED tested ELSE RunTests(o)

(* The test gate.  VerifyTestCache serves its result while its token is that of *)
(* the container generation, and runs the tests otherwise; o is what it returns.*)
Verify(o) ==
    IF memo.current THEN o = memo.result /\ UNCHANGED tested ELSE RunTests(o)

(* _finish(): both gates are evaluated once more on the way out *)
Finish(reason) ==
    /\ pc' = "stopped"
    /\ stop' = reason
    /\ \E o \in Outcome : Verify(o)

(* _finalize_if_replayed(): success only over a green replay *)
FinalizeIfReplayed(reason) ==
    Finish(IF replay = "ok" THEN reason ELSE "giveup_replay")

Pending ==
    {s \in Services : AllowServices /\ node[s] \notin {"absent", "sat"} /\ fails[s] < 3}

-----------------------------------------------------------------------------
(* The graph.  A check certifies a node either way; services only on their arm. *)
HostChecked(n) == n \in Services => AllowServices

Certified(g, u) ==
    [n \in Node |-> IF g[n] = "absent" \/ ~HostChecked(n) THEN g[n]
                    ELSE IF n \in u THEN "sat" ELSE "missing"]

(* certify_fail_count: a failed check counts, a passed one clears *)
Counted(f, g, u) ==
    [s \in Services |-> IF g[s] = "absent" \/ ~AllowServices THEN f[s]
                        ELSE IF s \in u THEN 0
                        ELSE IF f[s] < 3 THEN f[s] + 1 ELSE 3]

(* with_edge() refuses an edge to a node that is not there, so none dangles. *)
Edges(g) == {e \in Requires : g[e[1]] # "absent" /\ g[e[2]] # "absent"}

DependenciesSatisfied(g, n) == \A m \in Node : <<n, m>> \in Edges(g) => g[m] = "sat"

Tools == Node \ (Packages \cup Libs \cup Services)

(* What a package waits for: its libraries, and its tools if it may be built. *)
ToolchainReady(g, n) ==
    \A m \in Node : <<n, m>> \in Edges(g) /\ g[m] # "sat"
                    => m \notin Libs /\ (m \in Tools => n \in Wheels)

Emittable(g, R, n) ==
    /\ g[n] = "missing" /\ n \in R
    /\ n \notin Conflicted
    /\ n \in Packages => ToolchainReady(g, n)

(* Mutant: soft and hard edges alike are only hints. *)
FrontierIgnoresEdges(g, R) ==
    {n \in Node : g[n] = "missing" /\ HostChecked(n) /\ ~Emittable(g, R, n)}

(* scheduler_frontier(): obligations the script has no recipe for *)
Frontier(g, R) ==
    {n \in Node : /\ g[n] = "missing"
                  /\ HostChecked(n)
                  /\ DependenciesSatisfied(g, n)
                  /\ ~Emittable(g, R, n)}

(* render_build_script(): the nodes with a recipe, whatever their state, and the blocks *)
Installed(g, R) == {n \in R : g[n] # "absent"}
Rendered(g, R, B) == [install |-> Installed(g, R), blocks |-> B]

(* Reset to base and replay s: any set of checks may pass in what comes out. *)
Replay(rc, u, s) ==
    /\ replay' = rc
    /\ script' = s /\ ingested' = {}
    /\ up' = u
    /\ memo' = [memo EXCEPT !.current = FALSE]
    /\ ran' = "none" /\ lost' = FALSE

(* What the replay of the script of graph g and recipes R reports as failing. *)
FailingIds(rc, g, R) ==
    LET installed == Installed(g, R)
        unsat     == {n \in installed : g[n] # "sat"}
        first     == IF unsat = {} THEN {None} ELSE unsat
    IN  IF rc = "failed" THEN installed \cup {Script} \cup first ELSE first

After(site) == IF site = "emit" THEN "recert" ELSE "wrap"

(* _repair_or_route(): a failure with output is diagnosed first. *)
Route(site, id, hasOutput) ==
    \/ /\ hasOutput                                       \* Mode.RESIDUAL
       /\ residual' = residual \cup ({id} \cap Node)
       /\ hadResidual' = TRUE
       /\ pc' = After(site)
       /\ UNCHANGED <<hadRepair, call>>
    \/ /\ hasOutput                                       \* REPO_INTERNAL_REF, INVALID_ATTEMPT
       /\ pc' = After(site)
       /\ UNCHANGED <<residual, hadResidual, hadRepair, call>>
    \/ /\ hadRepair' = TRUE                               \* ENVIRONMENT, AMBIGUOUS, no output
       /\ call' = [site |-> site, id |-> id, attempt |-> 0, spent |-> 0]
       /\ pc' = "repair"
       /\ UNCHANGED <<residual, hadResidual>>

-----------------------------------------------------------------------------
(* _dep_emit_phase(): certify, replay, certify; then a failed node is repaired, *)
(* and outstanding work certified once more.                                    *)
DepEmit ==
    /\ pc = "emit" /\ hasGraph
    /\ \E rc \in {"ok", "failed"}, u \in SUBSET Node :
          LET before == Certified(node, up)
              after  == Certified(before, u)
          IN  /\ Replay(rc, u, Rendered(node, recipes, blocks))
              /\ node' = after
              /\ fails' = Counted(Counted(fails, node, up), before, u)
              /\ \E id \in FailingIds(rc, after, recipes) :
                    IF id # None
                    THEN Route("emit", id, rc = "failed")
                    ELSE /\ pc' = IF \A n \in Node \ Services : before[n] # "missing"
                                  THEN "ingest" ELSE "recert"
                         /\ UNCHANGED <<residual, hadResidual, hadRepair, call>>
    /\ UNCHANGED <<cycle, hasGraph, recipes, blocks, predicted, report, counters, budget, handed,
                   decision, unread, stop>>

(* Without a graph there is nothing to emit, nor to ingest. *)
NoGraphToEmit ==
    /\ pc = "emit" /\ ~hasGraph
    /\ pc' = "decide"
    /\ UNCHANGED <<cycle, hasGraph, graphVars, container, cycleVars, counters, budget, sched,
                   unread, call, stop>>

Recertify ==
    /\ pc = "recert"
    /\ node' = Certified(node, up)
    /\ fails' = Counted(fails, node, up)
    /\ IF budgetOut
       THEN Finish("giveup_budget") /\ UNCHANGED replayed
       ELSE pc' = "ingest" /\ UNCHANGED <<container, stop>>
    /\ UNCHANGED <<cycle, hasGraph, recipes, blocks, predicted, cycleVars, counters, budget,
                   sched, unread, call>>

-----------------------------------------------------------------------------
(* run_structured_repair(): propose, admit, emit, until nothing fails. *)
EndRepair(spent, exhausted) ==
    /\ turns' = turns - spent
    /\ budgetOut' = (budgetOut \/ exhausted \/ turns' <= 0)
    /\ call' = NoCall
    /\ pc' = After(call.site)

(* The turn budget or the attempts are used up, or the command that fails is the *)
(* one that failed before the last attempt.                                      *)
RepairStops ==
    /\ pc = "repair"
    /\ \/ call.attempt = MaxRepairs /\ EndRepair(call.spent, FALSE)
       \/ call.attempt < MaxRepairs /\ call.spent >= turns /\ EndRepair(call.spent, TRUE)
       \/ call.attempt \in 1..(MaxRepairs - 1) /\ call.spent < turns
          /\ EndRepair(call.spent, FALSE)
    /\ UNCHANGED <<cycle, hasGraph, graphVars, container, cycleVars, counters, sched, unread,
                   stop>>

Proposing == pc = "repair" /\ call.attempt < MaxRepairs /\ call.spent < turns

(* apply_proposal(), one edit a proposal (a bound: several come in several): a   *)
(* requirement, an apt provider, an overriding one that is not, a script patch,  *)
(* or nothing this model tells apart.  A package gets no version that way.       *)
Edits ==
    LET known == {n \in Node : node[n] # "absent"}
    IN  {<<node, recipes, blocks>>}
        \cup {<<[node EXCEPT ![n] = "missing"], recipes, blocks>> : n \in Node \ known}
        \cup {<<node, recipes \cup {n}, blocks>> : n \in known \cap (Libs \cup Tools)}
        \cup {<<node, recipes \ {n}, blocks>> : n \in recipes \ Packages}
        \cup {<<node, recipes, blocks \cup {n}>> : n \in known}

(* Mutant: what a rejected proposal would have edited is kept. *)
RepairRejectedKept ==
    /\ Proposing
    /\ EndRepair(call.spent + 2, FALSE)
    /\ \E edit \in Edits : node' = edit[1] /\ recipes' = edit[2] /\ blocks' = edit[3]
    /\ UNCHANGED <<cycle, hasGraph, fails, predicted, container, cycleVars, counters, sched,
                   unread, stop>>

(* No proposal, or one the gate rejects and then none or another it rejects. *)
RepairRejected ==
    /\ Proposing
    /\ \E proposals \in 1..2 : EndRepair(call.spent + proposals, FALSE)
    /\ UNCHANGED <<cycle, hasGraph, graphVars, container, cycleVars, counters, sched, unread,
                   stop>>

(* Mutant: an admitted proposal costs neither an attempt nor a turn. *)
RepairAdmittedUncounted ==
    /\ Proposing
    /\ \E edit \in Edits, rc \in {"ok", "failed"}, u \in SUBSET Node :
          /\ node' = Certified(edit[1], u)
          /\ fails' = Counted(fails, edit[1], u)
          /\ recipes' = edit[2]
          /\ blocks' = edit[3]
          /\ Replay(rc, u, Rendered(edit[1], edit[2], edit[3]))
          /\ \E id \in FailingIds(rc, node', recipes') :
                IF id = None THEN EndRepair(call.spent, FALSE)
                ELSE call' = [call EXCEPT !.id = id] /\ UNCHANGED <<pc, budget>>
    /\ UNCHANGED <<cycle, hasGraph, predicted, cycleVars, counters, sched, unread, stop>>

(* The first or the re-prompted proposal is admitted, and the script replayed. *)
RepairAdmitted ==
    /\ Proposing
    /\ \E proposals \in 1..2, edit \in Edits, rc \in {"ok", "failed"}, u \in SUBSET Node :
          /\ node' = Certified(edit[1], u)
          /\ fails' = Counted(fails, edit[1], u)
          /\ recipes' = edit[2]
          /\ blocks' = edit[3]
          /\ Replay(rc, u, Rendered(edit[1], edit[2], edit[3]))
          /\ \E id \in FailingIds(rc, node', recipes') :
                \/ /\ id = None \/ (call.site = "emit" /\ (id # call.id \/ id = Script))
                   /\ EndRepair(call.spent + proposals, FALSE)
                \/ /\ id # None /\ (call.site = "task" \/ id = call.id)
                   /\ call' = [call EXCEPT !.id = id, !.attempt = @ + 1,
                                           !.spent = @ + proposals]
                   /\ UNCHANGED <<pc, budget>>
    /\ UNCHANGED <<cycle, hasGraph, predicted, cycleVars, counters, sched, unread, stop>>

(* The LLM cannot be reached, the container cannot be reset, or a proposal left  *)
(* a recipe without a check; or the baseline cannot be restored under the tests, *)
(* those of _finish included: the exception ends the run, and its container.     *)
Raises ==
    /\ \/ pc \in {"emit", "repair", "task"} /\ hasGraph
       \/ pc \in {"recert", "ingest", "giveup", "decide", "gate", "task", "wrap"} /\ ~memo.current
    /\ pc' = "stopped"
    /\ stop' = "raised"
    /\ UNCHANGED <<cycle, hasGraph, graphVars, container, cycleVars, counters, budget, sched,
                   unread, call>>

-----------------------------------------------------------------------------
(* _runtime_ingest_phase(): failed test runs of earlier cycles become nodes.  An *)
(* ingest that raises leaves them unread; one that finds nothing drops them, and *)
(* the libraries they name.  To look one up may have installed apt-file.         *)
NothingToIngest ==
    /\ pc = "ingest"
    /\ pc' = "decide"
    /\ unread' \in {FALSE, unread}
    /\ \E more \in {{}, IF unread THEN AptFile ELSE {}} :
          up' = up \cup more /\ ingested' = ingested \cup (more \ up)
    /\ UNCHANGED <<cycle, hasGraph, graphVars, replay, script, memo, ran, lost, cycleVars,
                   counters, budget, sched, call, stop>>

(* What a run is found to lack is annotated if the graph holds it (its state and  *)
(* recipe stay), and added otherwise, unchecked.  Then test_gate_soname_refresh() *)
(* takes the libraries its output names: one that is only predicted keeps its     *)
(* state and may gain a recipe, any other is made anew, missing, with the recipe  *)
(* that could be resolved or none, in place of what the graph held.  A finding    *)
(* outside Node (found = {}) has them kept too.  If something found was satisfied *)
(* and nothing is left to do, the run gives up.                                   *)
Ingest ==
    /\ pc = "ingest" /\ unread
    /\ unread' = FALSE
    /\ \E found \in SUBSET {n \in Node : n \in Services => node[n] # "absent"},
          seen \in SUBSET Libs, more \in {{}, AptFile} :
       \E resolved \in SUBSET seen :
          LET anew == seen \ (predicted \ found)
          IN  /\ seen = {} => more = {}
              /\ node' = [n \in Node |-> IF n \in anew THEN "missing"
                                         ELSE IF n \in found /\ node[n] = "absent" THEN "unknown"
                                         ELSE node[n]]
              /\ recipes' = (recipes \ anew) \cup resolved
              /\ predicted' = predicted \ found
              /\ up' = up \cup more
              /\ ingested' = ingested \cup (more \ up)
                             \cup {n \in Node : node'[n] # node[n]}
                             \cup (recipes \ recipes') \cup (recipes' \ recipes)
              /\ pc' = IF /\ \E n \in found : node[n] = "sat"
                          /\ Frontier(node', recipes') = {}
                          /\ \A n \in Node : ~Emittable(node', recipes', n)
                       THEN "giveup" ELSE "decide"
    /\ UNCHANGED <<cycle, hasGraph, fails, blocks, replay, script, memo, ran, lost, cycleVars,
                   counters, budget, sched, call, stop>>

GiveUpResidual ==
    /\ pc = "giveup"
    /\ Finish("giveup_residual")
    /\ UNCHANGED <<cycle, hasGraph, graphVars, replayed, cycleVars, counters, budget, sched,
                   unread, call>>

-----------------------------------------------------------------------------
(* Mutant: no cap on the hand-outs. *)
EligibleUncapped == Frontier(node, recipes) \ residual

(* next_decision().  Any eligible node stands for the first in its order. *)
Eligible ==
    {n \in Frontier(node, recipes) : handed[n] < AttemptCap /\ n \notin residual}

HandOut ==
    /\ pc = "decide"
    /\ \E n \in Eligible : decision' = n /\ handed' = [handed EXCEPT ![n] = @ + 1]
    /\ stuck' = 0
    /\ pc' = "gate"
    /\ UNCHANGED <<cycle, hasGraph, graphVars, container, cycleVars, resStall, lastNodes,
                   prevSig, stall, samples, budget, residual, unread, call, stop>>

SchedulerDone ==
    /\ pc = "decide" /\ Eligible = {}
    /\ Verify("pass") /\ Pending = {}
    /\ decision' = "done"
    /\ pc' = "gate"
    /\ UNCHANGED <<cycle, hasGraph, graphVars, replayed, cycleVars, counters, budget, handed,
                   residual, unread, call, stop>>

(* Mutant: nothing eligible, so discover, without a look at the tests. *)
DiscoverUntested ==
    /\ pc = "decide" /\ Eligible = {}
    /\ decision' = "discover"
    /\ LET n == Cardinality({m \in Node : node[m] # "absent"})
       IN  /\ stuck' = IF n <= lastNodes THEN stuck + 1 ELSE 0
           /\ lastNodes' = n
    /\ IF stuck' >= 2 THEN Finish("giveup_stuck")
       ELSE pc' = "gate" /\ UNCHANGED <<tested, stop>>
    /\ UNCHANGED <<cycle, hasGraph, graphVars, replayed, cycleVars, resStall, prevSig, stall,
                   samples, budget, handed, residual, unread, call>>

(* A discover task; the third in a row that brought no new node stops the run. *)
Discover ==
    /\ pc = "decide" /\ Eligible = {}
    /\ \E o \in Outcome : Verify(o) /\ (o = "pass" => Pending # {})
    /\ decision' = "discover"
    /\ LET n == Cardinality({m \in Node : node[m] # "absent"})
       IN  /\ stuck' = IF n <= lastNodes THEN stuck + 1 ELSE 0
           /\ lastNodes' = n
    /\ IF stuck' >= 2 THEN Finish("giveup_stuck")
       ELSE pc' = "gate" /\ UNCHANGED stop
    /\ UNCHANGED <<cycle, hasGraph, graphVars, replayed, cycleVars, resStall, prevSig, stall,
                   samples, budget, handed, residual, unread, call>>

-----------------------------------------------------------------------------
(* Mutant: the first sight of a failure does not count. *)
NextStallFromZero(prev, sig, n) ==
    IF sig = "pass" THEN 0 ELSE IF sig = prev THEN n + 1 ELSE 0

(* next_stall(): consecutive cycles with one failing signature *)
NextStall(prev, sig, n) ==
    IF sig = "pass" THEN 0 ELSE IF sig = prev THEN n + 1 ELSE 1

LastOf(s) == IF Len(s) > NoProgressCycles
             THEN SubSeq(s, Len(s) - NoProgressCycles + 1, Len(s)) ELSE s

(* One gate sample a cycle, then the doors in their order: a verified pass ends   *)
(* the run unless services are pending, a stalled signature ends it, and so does *)
(* the scheduler's done.                                                          *)
SampleGate ==
    /\ pc = "gate"
    /\ \E sig \in Outcome :
          /\ Verify(sig)
          /\ stall' = NextStall(prevSig, sig, stall)
          /\ prevSig' = sig
          /\ samples' = LastOf(Append(samples, sig))
          /\ IF sig = "pass" /\ decision # "done" /\ Pending = {}
             THEN FinalizeIfReplayed("planner_done")
             ELSE IF stall' >= NoProgressCycles THEN Finish("giveup_no_progress")
             ELSE IF decision = "done" THEN FinalizeIfReplayed("planner_done")
             ELSE pc' = "task" /\ UNCHANGED stop
    /\ UNCHANGED <<cycle, hasGraph, graphVars, replayed, cycleVars, resStall, stuck,
                   lastNodes, budget, sched, unread, call>>

-----------------------------------------------------------------------------
(* The discover gate: the outcome goes to the ledger and into the report. *)
DiscoverGate ==
    /\ pc = "task" /\ decision = "discover"
    /\ \E o \in Outcome :
          /\ Verify(o)
          /\ unread' = (unread \/ o \notin RawOk)
          /\ report' = (o = "pass")
    /\ pc' = "wrap"
    /\ UNCHANGED <<cycle, hasGraph, graphVars, replayed, hadResidual, hadRepair, counters,
                   budget, sched, call, stop>>

(* An obligation no manual block targets is repaired, with the output of the gate *)
(* if it failed (and had any).                                                    *)
RepairObligation ==
    /\ pc = "task" /\ decision \in Node \ blocks
    /\ \E hasOutput \in {FALSE, prevSig # "pass"} : Route("task", decision, hasOutput)
    /\ report' = FALSE
    /\ UNCHANGED <<cycle, hasGraph, graphVars, container, counters, budget, handed, decision,
                   unread, stop>>

(* One that a block targets is replayed first. *)
ReplayObligation ==
    /\ pc = "task" /\ decision \in blocks
    /\ \E rc \in {"ok", "failed"}, u \in SUBSET Node :
          /\ node' = Certified(node, u)
          /\ fails' = Counted(fails, node, u)
          /\ Replay(rc, u, Rendered(node, recipes, blocks))
          /\ \E id \in FailingIds(rc, node', recipes) :
                IF id # None THEN Route("task", id, rc = "failed")
                ELSE pc' = "wrap" /\ UNCHANGED <<residual, hadResidual, hadRepair, call>>
    /\ report' = FALSE
    /\ UNCHANGED <<cycle, hasGraph, recipes, blocks, predicted, counters, budget, handed,
                   decision, unread, stop>>

-----------------------------------------------------------------------------
(* The end of a cycle: the residual churn and the turn budget may end the run,    *)
(* the maintainer sets done_flag over a verified pass, the cycles may be used up. *)
WrapUp ==
    /\ pc = "wrap"
    /\ resStall' = IF hadRepair THEN 0 ELSE IF hadResidual THEN resStall + 1 ELSE resStall
    /\ IF ~hadRepair /\ hadResidual /\ resStall' >= ResidualCycles
       THEN Finish("giveup_residual") /\ UNCHANGED <<cycle, hadResidual, hadRepair>>
       ELSE IF budgetOut \/ turns <= 0
       THEN Finish("giveup_budget") /\ UNCHANGED <<cycle, hadResidual, hadRepair>>
       ELSE IF report
       THEN FinalizeIfReplayed("done_flag") /\ UNCHANGED <<cycle, hadResidual, hadRepair>>
       ELSE IF cycle = MaxCycles
       THEN Finish("max_cycles") /\ UNCHANGED <<cycle, hadResidual, hadRepair>>
       ELSE /\ pc' = "emit"
            /\ cycle' = cycle + 1
            /\ hadResidual' = FALSE /\ hadRepair' = FALSE
            /\ UNCHANGED <<tested, stop>>
    /\ UNCHANGED <<hasGraph, graphVars, replayed, report, stuck, lastNodes, prevSig, stall,
                   samples, budget, sched, unread, call>>

Stopped == pc = "stopped" /\ UNCHANGED vars

-----------------------------------------------------------------------------
Emit   == DepEmit \/ NoGraphToEmit \/ Recertify
Repair == RepairStops \/ RepairRejected \/ RepairAdmitted
Feed   == NothingToIngest \/ Ingest \/ GiveUpResidual
Decide == HandOut \/ SchedulerDone \/ Discover
Task   == DiscoverGate \/ RepairObligation \/ ReplayObligation

Loop == Emit \/ Repair \/ Feed \/ Decide \/ SampleGate \/ Task \/ WrapUp
Next == Loop \/ Raises \/ Stopped

Spec == Init /\ [][Next]_vars

(* One thread runs the loop, and every call it makes has a time limit. *)
FairSpec == Spec /\ WF_vars(Loop)

-----------------------------------------------------------------------------
(* No success is reported unless the tests really ran to a verified pass in the  *)
(* container as it was left, over a replay that returned 0, whatever the memo    *)
(* served (orchestrator.py:455-463, 616-628).                                    *)
SuccessIsVerified == stop \in Success => ran = "pass" /\ replay = "ok"

(* A node state describes the container as it is, also between a repair and the  *)
(* next cycle, unless the baseline was restored under a test run since the last  *)
(* replay: every replay is followed by a certification.  (The second one of      *)
(* _dep_emit_phase may be left out, orchestrator.py:903-914.)  Only an ingest     *)
(* calls missing what passes: what it has made anew, or apt-file has brought      *)
(* along, since that replay.  It calls nothing satisfied that is not.             *)
GraphDescribesContainer ==
    \A n \in Node : HostChecked(n) /\ ~lost =>
        /\ node[n] = "sat" => n \in up
        /\ node[n] = "missing" => n \notin up \/ n \in ingested

(* The no-progress giveup strikes exactly when the last NoProgressCycles samples *)
(* of the gate are one and the same failure (gate_signature.py).                 *)
Alike == /\ Len(samples) = NoProgressCycles
         /\ samples[1] # "pass"
         /\ \A i \in 1..NoProgressCycles : samples[i] = samples[1]
NoProgressExactly ==
    /\ Alike => stop = "giveup_no_progress"
    /\ stop = "giveup_no_progress" => Alike

(* The two doors that give up for want of progress never close on a suite that    *)
(* verifiably passes, unless a service it needs is pending (orchestrator.py:1b,1c).*)
PassIsNotGivenUp ==
    stop \in {"giveup_stuck", "giveup_no_progress"} => ran # "pass" \/ Pending # {}

(* The scheduler's done door and the fast termination honour pending services      *)
(* (graph_scheduler.py:90-98).                                                     *)
DoneHonoursServices == stop = "planner_done" => Pending = {}

(* A re-prompt may spend one turn more than is left, and never more than one       *)
(* (repair_loop.py:39, 57-60).                                                     *)
TurnsOverdrawnByOne == turns >= -1

(* How many steps the loop can still take: a cycle goes from its emit over a repair *)
(* with all its attempts, the gate and one more such repair to its end.             *)
CycleSteps == 2 * MaxRepairs + 9
LeftOfCycle ==
    LET attemptsLeft == MaxRepairs - call.attempt
    IN  CASE pc = "emit"   -> CycleSteps
          [] pc = "repair" -> attemptsLeft + (IF call.site = "emit" THEN MaxRepairs + 8 ELSE 2)
          [] pc = "recert" -> MaxRepairs + 7
          [] pc = "ingest" -> MaxRepairs + 6
          [] pc = "giveup" -> 1
          [] pc = "decide" -> MaxRepairs + 5
          [] pc = "gate"   -> MaxRepairs + 4
          [] pc = "task"   -> MaxRepairs + 3
          [] pc = "wrap"   -> 1
          [] OTHER         -> 0
StepsLeft ==
    IF pc = "stopped" THEN 0 ELSE (MaxCycles - cycle) * CycleSteps + LeftOfCycle

(* The loop never goes in circles: whatever is proposed, diagnosed and handed out,  *)
(* every step uses up a step of the bound, whose attempts and cycles are the only   *)
(* ones the code counts (repair_loop.py:37, orchestrator.py:1095).                  *)
NeverInCircles == [][pc # "stopped" => StepsLeft' \in 0..(StepsLeft - 1)]_vars

(* An obligation is handed out only if its check fails in the very container the   *)
(* scheduler looks at, whatever a test run of an earlier cycle did to its          *)
(* container, or if an ingest of this cycle wrote its node or changed that         *)
(* container; the checks of all it requires pass there, and its repair was never   *)
(* diagnosed residual.                                                             *)
HandOutIsReal ==
    [][\A n \in Node : handed'[n] > handed[n] =>
          /\ n \notin up \/ n \in ingested
          /\ n \notin residual
          /\ \A m \in Node : <<n, m>> \in Edges(node) => m \in up]_vars

(* The script the driver writes at the end, whichever end it is, is the one the    *)
(* last replay ran, but for nodes an ingest has written since: one it resolved is  *)
(* installed unreplayed, one it made anew and could not resolve is left out.  No   *)
(* block is added or lost.                                                         *)
UnreplayedIsIngested ==
    /\ script.blocks = blocks
    /\ replay # "none" =>
          \A n \in Node \ ingested : n \in Installed(node, recipes) <=> n \in script.install

(* The loop ends, whatever the proposals, the replays and the tests do. *)
LoopEnds == <>(pc = "stopped")

(* "when the in-image service the tests need is not up ... it still blocks success" *)
(* (graph_scheduler.py:93-97, orchestrator.py:1c); the done_flag door does not ask. *)
ServicesBlockSuccess == stop \in Success => Pending = {}
=============================================================================
