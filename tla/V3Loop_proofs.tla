---------------------------- MODULE V3Loop_proofs ----------------------------
(* The loop of run_v3 for every graph, every budget and all outcomes. *)
EXTENDS V3Loop, FiniteSetTheorems, TLAPS

(* The states of a node, "absent" for one the graph does not hold. *)
States == {"absent", "unknown", "missing", "sat"}

-----------------------------------------------------------------------------
(* A certification leaves a graph of node states that agrees with the container *)
(* on every node the host checks.                                               *)
LEMMA CertifiedAgrees ==
    ASSUME NEW g \in [Node -> States], NEW u
    PROVE  /\ Certified(g, u) \in [Node -> States]
           /\ \A n \in Node :
                 HostChecked(n) /\ Certified(g, u)[n] \in {"missing", "sat"}
                    => (Certified(g, u)[n] = "sat" <=> n \in u)
           /\ (\A n \in Node : g[n] = "sat" => HostChecked(n))
                 => \A n \in Node : Certified(g, u)[n] = "sat" => HostChecked(n)
BY DEF Certified, States

(* The fail count of a service stays within its three strikes. *)
LEMMA CountedInRange ==
    ASSUME NEW f \in [Services -> 0..3], NEW g, NEW u
    PROVE  Counted(f, g, u) \in [Services -> 0..3]
BY DEF Counted

(* Every edit a proposal makes leaves a graph, recipes and blocks. *)
LEMMA EditsTyped ==
    ASSUME GraphTypeOK, NEW edit \in Edits
    PROVE  /\ edit[1] \in [Node -> States]
           /\ edit[2] \subseteq Node \ Services
           /\ edit[3] \subseteq Node
           /\ \A n \in Node : edit[1][n] = "sat" => node[n] = "sat"
BY NodeAssumption DEF NodeAssumption, GraphTypeOK, Edits, Tools, States

(* A container is kept, or it is the baseline with no check passing. *)
SameOrBaseline == \/ up' = up /\ lost' = lost
                  \/ up' = {} /\ lost' = TRUE

(* The test gate keeps the container or leaves the baseline. *)
LEMMA VerifyKeeps ==
    ASSUME NEW o, Verify(o)
    PROVE  SameOrBaseline
BY DEF Verify, RunTests, SameOrBaseline, tested

LEMMA FinishKeeps ==
    ASSUME NEW reason, Finish(reason)
    PROVE  SameOrBaseline
BY VerifyKeeps DEF Finish

(* A node state is typed and current, and what the host does not check is never *)
(* taken for satisfied.                                                         *)
GraphInv ==
    /\ GraphTypeOK /\ lost \in BOOLEAN
    /\ GraphDescribesContainer
    /\ \A n \in Node : node[n] = "sat" => HostChecked(n)

(* Every step that replays the container certifies the graph against it. *)
LEMMA GraphStep == GraphInv /\ [Next]_vars => GraphInv'
<1> SUFFICES ASSUME GraphInv, [Next]_vars PROVE GraphInv'
    OBVIOUS
<1> USE DEF GraphInv
<1>0. /\ node \in [Node -> States] /\ fails \in [Services -> 0..3]
      /\ recipes \subseteq Node \ Services /\ blocks \subseteq Node /\ up \subseteq Node
      /\ predicted \subseteq Libs
    BY DEF GraphTypeOK, States
<1>1. CASE DepEmit
    <2>1. PICK u \in SUBSET Node :
             /\ up' = u /\ lost' = FALSE
             /\ node' = Certified(Certified(node, up), u)
             /\ fails' = Counted(Counted(fails, node, up), Certified(node, up), u)
        BY <1>1 DEF DepEmit, Replay
    <2>2. /\ Certified(node, up) \in [Node -> States]
          /\ \A n \in Node : Certified(node, up)[n] = "sat" => HostChecked(n)
        BY <1>0, CertifiedAgrees
    <2>3. /\ node' \in [Node -> States]
          /\ \A n \in Node : HostChecked(n) /\ node'[n] \in {"missing", "sat"}
                             => (node'[n] = "sat" <=> n \in up')
          /\ \A n \in Node : node'[n] = "sat" => HostChecked(n)
        BY <2>1, <2>2, CertifiedAgrees
    <2>4. fails' \in [Services -> 0..3]
        BY <1>0, <2>1, CountedInRange
    <2>5. recipes' = recipes /\ blocks' = blocks /\ predicted' = predicted
        BY <1>1 DEF DepEmit
    <2> QED
        BY <1>0, <2>1, <2>3, <2>4, <2>5
        DEF GraphTypeOK, GraphDescribesContainer, States, HostChecked
<1>2. CASE Recertify
    <2>1. /\ SameOrBaseline /\ recipes' = recipes /\ blocks' = blocks /\ predicted' = predicted
          /\ node' = Certified(node, up) /\ fails' = Counted(fails, node, up)
        BY <1>2, FinishKeeps DEF Recertify, container, replayed, tested, SameOrBaseline
    <2>2. /\ node' \in [Node -> States]
          /\ \A n \in Node : HostChecked(n) /\ node'[n] \in {"missing", "sat"}
                             => (node'[n] = "sat" <=> n \in up)
          /\ \A n \in Node : node'[n] = "sat" => HostChecked(n)
        BY <1>0, <2>1, CertifiedAgrees
    <2>3. fails' \in [Services -> 0..3]
        BY <1>0, <2>1, CountedInRange
    <2> QED
        BY <1>0, <2>1, <2>2, <2>3
        DEF GraphTypeOK, GraphDescribesContainer, States, HostChecked, SameOrBaseline
<1>3. CASE RepairAdmitted
    <2>1. PICK edit \in Edits, u \in SUBSET Node :
             /\ up' = u /\ lost' = FALSE
             /\ node' = Certified(edit[1], u)
             /\ fails' = Counted(fails, edit[1], u)
             /\ recipes' = edit[2] /\ blocks' = edit[3] /\ predicted' = predicted
        BY <1>3 DEF RepairAdmitted, Replay
    <2>2. /\ edit[1] \in [Node -> States]
          /\ edit[2] \subseteq Node \ Services /\ edit[3] \subseteq Node
          /\ \A n \in Node : edit[1][n] = "sat" => HostChecked(n)
        BY EditsTyped
    <2>3. /\ node' \in [Node -> States]
          /\ \A n \in Node : HostChecked(n) /\ node'[n] \in {"missing", "sat"}
                             => (node'[n] = "sat" <=> n \in up')
          /\ \A n \in Node : node'[n] = "sat" => HostChecked(n)
        BY <2>1, <2>2, CertifiedAgrees
    <2>4. fails' \in [Services -> 0..3]
        BY <1>0, <2>1, CountedInRange
    <2> QED
        BY <1>0, <2>1, <2>2, <2>3, <2>4
        DEF GraphTypeOK, GraphDescribesContainer, States, HostChecked
<1>4. CASE Ingest
    <2>1. PICK found \in SUBSET Node, seen \in SUBSET Libs, more \in {{}, AptFile} :
             \E resolved \in SUBSET seen :
             LET anew == seen \ (predicted \ found)
             IN  /\ node' = [n \in Node |-> IF n \in anew THEN "missing"
                                            ELSE IF n \in found /\ node[n] = "absent"
                                            THEN "unknown" ELSE node[n]]
                 /\ recipes' = (recipes \ anew) \cup resolved
                 /\ predicted' = predicted \ found
                 /\ up' = up \cup more
                 /\ ingested' = ingested \cup (more \ up)
                                \cup {n \in Node : node'[n] # node[n]}
                                \cup (recipes \ recipes') \cup (recipes' \ recipes)
        BY <1>4 DEF Ingest
    <2>2. lost' = lost /\ fails' = fails /\ blocks' = blocks
        BY <1>4 DEF Ingest
    <2>3. seen \subseteq Node \ Services /\ more \subseteq Node
        BY NodeAssumption DEF NodeAssumption
    <2>4. GraphTypeOK'
        BY <1>0, <2>1, <2>2, <2>3 DEF GraphTypeOK, States
    <2>5. ASSUME NEW n \in Node PROVE node'[n] = "sat" => node[n] = "sat"
        BY <1>0, <2>1
    <2>6. ASSUME NEW n \in Node, HostChecked(n), ~lost, node'[n] = "missing"
          PROVE  n \notin up' \/ n \in ingested'
        <3>1. CASE node[n] = "missing"
            BY <2>1, <2>6, <3>1 DEF GraphDescribesContainer
        <3>2. CASE node[n] # "missing"
            BY <2>1, <2>6, <3>2
        <3> QED
            BY <3>1, <3>2
    <2>7. up \subseteq up' /\ (lost' = lost)
        BY <2>1, <2>2
    <2>8. GraphDescribesContainer'
        BY <2>5, <2>6, <2>7 DEF GraphDescribesContainer, HostChecked
    <2>9. \A n \in Node : node'[n] = "sat" => HostChecked(n)
        BY <2>5
    <2> QED
        BY <2>2, <2>4, <2>8, <2>9 DEF HostChecked
<1>5. CASE ReplayObligation
    <2>1. PICK u \in SUBSET Node :
             /\ up' = u /\ lost' = FALSE
             /\ node' = Certified(node, u) /\ fails' = Counted(fails, node, u)
        BY <1>5 DEF ReplayObligation, Replay
    <2>2. /\ node' \in [Node -> States]
          /\ \A n \in Node : HostChecked(n) /\ node'[n] \in {"missing", "sat"}
                             => (node'[n] = "sat" <=> n \in up')
          /\ \A n \in Node : node'[n] = "sat" => HostChecked(n)
        BY <1>0, <2>1, CertifiedAgrees
    <2>3. /\ fails' \in [Services -> 0..3] /\ recipes' = recipes /\ blocks' = blocks
          /\ predicted' = predicted
        BY <1>0, <1>5, <2>1, CountedInRange DEF ReplayObligation
    <2> QED
        BY <1>0, <2>1, <2>2, <2>3 DEF GraphTypeOK, GraphDescribesContainer, States, HostChecked
<1>6. ASSUME UNCHANGED <<graphVars, ingested>>, SameOrBaseline PROVE GraphInv'
    BY <1>6 DEF graphVars, GraphTypeOK, GraphDescribesContainer, HostChecked, SameOrBaseline
<1>7. CASE NoGraphToEmit \/ RepairStops \/ RepairRejected \/ Raises \/ Stopped
    BY <1>6, <1>7 DEF NoGraphToEmit, RepairStops, RepairRejected, Raises, Stopped,
                      container, replayed, tested, vars, SameOrBaseline
<1>8. CASE HandOut \/ RepairObligation
    BY <1>6, <1>8 DEF HandOut, RepairObligation, container, replayed, tested, SameOrBaseline
<1>9. CASE SchedulerDone \/ Discover \/ SampleGate \/ DiscoverGate
    <2>1. SameOrBaseline
        BY <1>9, VerifyKeeps DEF SchedulerDone, Discover, SampleGate, DiscoverGate
    <2> QED
        BY <1>6, <1>9, <2>1 DEF SchedulerDone, Discover, SampleGate, DiscoverGate, replayed
<1>10. CASE WrapUp \/ GiveUpResidual
    <2>1. SameOrBaseline
        BY <1>10, FinishKeeps
        DEF WrapUp, GiveUpResidual, FinalizeIfReplayed, tested, SameOrBaseline
    <2> QED
        BY <1>6, <1>10, <2>1 DEF WrapUp, GiveUpResidual, replayed
<1>11. CASE NothingToIngest
    <2>1. PICK more \in {{}, AptFile} :
             up' = up \cup more /\ ingested' = ingested \cup (more \ up)
        BY <1>11 DEF NothingToIngest
    <2>2. more \subseteq Node
        BY NodeAssumption DEF NodeAssumption
    <2>3. lost' = lost /\ UNCHANGED graphVars
        BY <1>11 DEF NothingToIngest
    <2> QED
        BY <2>1, <2>2, <2>3 DEF graphVars, GraphTypeOK, GraphDescribesContainer, HostChecked
<1>12. CASE UNCHANGED vars
    BY <1>6, <1>12 DEF vars, container, replayed, tested, SameOrBaseline
<1> QED
    BY <1>1, <1>2, <1>3, <1>4, <1>5, <1>7, <1>8, <1>9, <1>10, <1>11, <1>12
    DEF Next, Loop, Emit, Repair, Feed, Decide, Task

(* The graph of construction is typed, and claims nothing of any container. *)
LEMMA GraphInit == Init => GraphInv
<1> SUFFICES ASSUME Init PROVE GraphInv
    OBVIOUS
<1>1. /\ lost = FALSE /\ up = {} /\ blocks = {} /\ recipes \subseteq Recipes
      /\ node \in [Node -> {"absent", "unknown"}] /\ fails \in [Services -> 0..3]
      /\ predicted \subseteq Predicted
    BY DEF Init
<1>2. GraphTypeOK /\ lost \in BOOLEAN
    BY <1>1, NodeAssumption DEF GraphTypeOK, NodeAssumption
<1> QED
    BY <1>1, <1>2 DEF GraphInv, GraphDescribesContainer

(* The node states the scheduler decides by describe the container as it is, in   *)
(* every state of the loop: certify_all follows every replay (certify.py,         *)
(* orchestrator.py:_dep_emit_phase, _binding_emit).                               *)
THEOREM GraphDescribes == Spec => []GraphDescribesContainer
<1>1. GraphInv => GraphDescribesContainer
    BY DEF GraphInv
<1> QED
    BY <1>1, GraphInit, GraphStep, PTL DEF Spec

-----------------------------------------------------------------------------
(* Where the container may be a restored baseline: not between a replay and the  *)
(* next test run, so never where the scheduler hands out.  Without a graph there *)
(* is nothing to hand out.                                                       *)
LostInv ==
    /\ pc \in {"recert", "ingest", "repair"} => hasGraph
    /\ pc \in {"recert", "ingest", "decide"} /\ hasGraph => ~lost
    /\ pc = "repair" /\ call.site = "emit" => ~lost
    /\ ~hasGraph => \A n \in Node : node[n] = "absent"
    /\ decision \in Node => hasGraph

LEMMA LostInit == Init => LostInv
BY NodeAssumption DEF Init, LostInv, NodeAssumption

(* A graph that is there stays, and one that is not is never filled. *)
LEMMA LostStep == blocks \subseteq Node /\ LostInv /\ [Next]_vars => LostInv'
<1> SUFFICES ASSUME blocks \subseteq Node, LostInv, [Next]_vars PROVE LostInv'
    OBVIOUS
<1> USE DEF LostInv
<1>1. CASE DepEmit
    <2>1. lost' = FALSE /\ hasGraph /\ hasGraph' = hasGraph
        BY <1>1 DEF DepEmit, Replay
    <2>2. pc' \in {"recert", "ingest", "repair"}
        BY <1>1 DEF DepEmit, Route, After
    <2> QED
        BY <2>1, <2>2
<1>2. CASE RepairAdmitted \/ ReplayObligation
    <2>1. hasGraph /\ hasGraph' = hasGraph
        BY <1>2 DEF RepairAdmitted, ReplayObligation, Proposing
    <2>2. lost' = FALSE
        BY <1>2 DEF RepairAdmitted, ReplayObligation, Replay
    <2> QED
        BY <2>1, <2>2
<1>3. CASE NoGraphToEmit \/ NothingToIngest
    <2>1. /\ pc' = "decide" /\ hasGraph' = hasGraph /\ lost' = lost /\ node' = node
          /\ decision' = decision
        BY <1>3 DEF NoGraphToEmit, NothingToIngest, graphVars, container, replayed, tested, sched
    <2>2. pc = "ingest" \/ ~hasGraph
        BY <1>3 DEF NoGraphToEmit, NothingToIngest
    <2> QED
        BY <2>1, <2>2
<1>4. CASE Recertify \/ Ingest
    <2>1. hasGraph /\ hasGraph' = hasGraph /\ ~lost
        BY <1>4 DEF Recertify, Ingest
    <2>2. pc' \in {"stopped", "giveup"} \/ (pc' \in {"ingest", "decide"} /\ lost' = lost)
        BY <1>4 DEF Recertify, Ingest, Finish, container, replayed, tested
    <2> QED
        BY <2>1, <2>2
<1>5. CASE RepairStops \/ RepairRejected
    BY <1>5 DEF RepairStops, RepairRejected, EndRepair, After, Proposing, graphVars, container,
                tested, sched
<1>6. CASE Raises \/ Stopped \/ UNCHANGED vars
    BY <1>6 DEF Raises, Stopped, vars, graphVars, container, replayed, tested, sched
<1>7. CASE HandOut
    <2>1. PICK n \in Eligible : decision' = n
        BY <1>7 DEF HandOut
    <2>2. n \in Node /\ node[n] = "missing"
        BY DEF Eligible, Frontier
    <2> QED
        BY <1>7, <2>1, <2>2 DEF HandOut, graphVars
<1>8. CASE SchedulerDone \/ Discover
    <2>1. pc' \in {"gate", "stopped"} /\ hasGraph' = hasGraph /\ node' = node
          /\ decision' \in {"done", "discover"}
        BY <1>8 DEF SchedulerDone, Discover, Finish, graphVars
    <2> QED
        BY <2>1, NodeAssumption DEF NodeAssumption
<1>9. CASE SampleGate \/ DiscoverGate \/ WrapUp \/ GiveUpResidual
    <2>1. pc' \in {"task", "wrap", "emit", "stopped"} /\ hasGraph' = hasGraph /\ node' = node
          /\ decision' = decision
        BY <1>9 DEF SampleGate, DiscoverGate, WrapUp, GiveUpResidual, FinalizeIfReplayed, Finish,
                    graphVars, sched
    <2> QED
        BY <2>1
<1>10. CASE RepairObligation
    <2>1. hasGraph /\ hasGraph' = hasGraph /\ decision' = decision
        BY <1>10 DEF RepairObligation
    <2>2. \/ pc' = "wrap"
          \/ pc' = "repair" /\ call'.site = "task"
        BY <1>10 DEF RepairObligation, Route, After
    <2> QED
        BY <2>1, <2>2
<1> QED
    BY <1>1, <1>2, <1>3, <1>4, <1>5, <1>6, <1>7, <1>8, <1>9, <1>10
    DEF Next, Loop, Emit, Repair, Feed, Decide, Task

(* An obligation handed out fails its check in the very container the agent       *)
(* diagnoses, or was written by the ingest of this cycle; the checks of all it    *)
(* requires pass there, and no repair of it was diagnosed residual                *)
(* (graph_scheduler.py:next_decision, schedule.py, probe.py:_make_syslib_node).   *)
THEOREM HandOutsAreReal == Spec => HandOutIsReal
<1> DEFINE Real == \A n \in Node : handed'[n] > handed[n] =>
                      /\ n \notin up \/ n \in ingested
                      /\ n \notin residual
                      /\ \A m \in Node : <<n, m>> \in Edges(node) => m \in up
           HandedInv == GraphInv /\ LostInv /\ handed \in [Node -> Nat]
<1>1. Init => HandedInv
    BY GraphInit, LostInit DEF Init
<1>2. ASSUME HandedInv, [Next]_vars PROVE HandedInv' /\ [Real]_vars
    <2>1. GraphInv' /\ LostInv'
        BY <1>2, GraphStep, LostStep DEF GraphInv, GraphTypeOK
    <2>2. CASE HandOut
        <3>1. PICK k \in Eligible : handed' = [handed EXCEPT ![k] = @ + 1]
            BY <2>2 DEF HandOut
        <3>2. /\ k \in Node /\ node[k] = "missing" /\ HostChecked(k)
              /\ DependenciesSatisfied(node, k) /\ k \notin residual
            BY DEF Eligible, Frontier
        <3>3. handed' \in [Node -> Nat] /\ \A n \in Node : handed'[n] > handed[n] => n = k
            BY <1>2, <3>1, <3>2
        <3>4. ~lost
            BY <1>2, <2>2, <3>2 DEF HandOut, LostInv
        <3>5. k \notin up \/ k \in ingested
            BY <1>2, <3>2, <3>4 DEF GraphInv, GraphDescribesContainer
        <3>6. \A m \in Node : <<k, m>> \in Edges(node) => m \in up
            BY <1>2, <3>2, <3>4 DEF DependenciesSatisfied, GraphInv, GraphDescribesContainer
        <3> QED
            BY <2>1, <3>2, <3>3, <3>5, <3>6
    <2>3. ASSUME handed' = handed PROVE HandedInv' /\ [Real]_vars
        BY <1>2, <2>1, <2>3
    <2>4. CASE Emit \/ Raises \/ Stopped \/ UNCHANGED vars
        BY <2>3, <2>4 DEF Emit, DepEmit, NoGraphToEmit, Recertify, Raises, Stopped, vars, sched
    <2>5. CASE Repair \/ Feed
        BY <2>3, <2>5 DEF Repair, RepairStops, RepairRejected, RepairAdmitted,
                          Feed, NothingToIngest, Ingest, GiveUpResidual, sched
    <2>6. CASE SchedulerDone \/ Discover \/ SampleGate \/ WrapUp \/ Task
        BY <2>3, <2>6 DEF SchedulerDone, Discover, SampleGate, WrapUp,
                          Task, DiscoverGate, RepairObligation, ReplayObligation, sched
    <2> QED
        BY <1>2, <2>2, <2>4, <2>5, <2>6 DEF Next, Loop, Decide
<1> QED
    BY <1>1, <1>2, PTL DEF Spec, HandOutIsReal

-----------------------------------------------------------------------------
(* What is rendered is what was replayed, but for what an ingest has written      *)
(* since.  On the way to a certification of what a replay left, it is all of it.  *)
Exact == script = Rendered(node, recipes, blocks)

ScriptInv ==
    /\ node \in [Node -> States] /\ recipes \subseteq Node
    /\ script \in [install : SUBSET Node, blocks : SUBSET Node]
    /\ ingested \subseteq Node
    /\ UnreplayedIsIngested
    /\ pc = "recert" => Exact
    /\ pc = "repair" /\ call.site = "emit" => Exact

(* A replay of what is rendered leaves nothing unreplayed, and a certification    *)
(* takes no node away.                                                            *)
LEMMA ReplayedIsRendered ==
    ASSUME NEW g \in [Node -> States], NEW R \in SUBSET Node, NEW B \in SUBSET Node,
           script' = Rendered(g, R, B), recipes' = R, blocks' = B, ingested' \subseteq Node,
           node' \in [Node -> States], \A n \in Node : node'[n] = "absent" <=> g[n] = "absent"
    PROVE  ScriptInv'
<1>1. Installed(node', R) = Installed(g, R)
    BY DEF Installed
<1>2. script' = [install |-> Installed(g, R), blocks |-> B] /\ Installed(g, R) \subseteq Node
    BY DEF Rendered, Installed
<1> QED
    BY <1>1, <1>2 DEF ScriptInv, UnreplayedIsIngested, Exact, Rendered

(* A certification neither adds a node nor takes one away. *)
LEMMA CertifiedHolds ==
    ASSUME NEW g \in [Node -> States], NEW u
    PROVE  /\ Certified(g, u) \in [Node -> States]
           /\ \A n \in Node : Certified(g, u)[n] = "absent" <=> g[n] = "absent"
BY DEF Certified, States

LEMMA ScriptInit == Init => ScriptInv
<1> SUFFICES ASSUME Init PROVE ScriptInv
    OBVIOUS
<1>1. /\ node \in [Node -> {"absent", "unknown"}]
      /\ recipes \subseteq Recipes /\ Recipes \subseteq Node
      /\ blocks = {} /\ script = [install |-> {}, blocks |-> {}] /\ ingested = {}
    BY NodeAssumption DEF Init, NodeAssumption
<1>2. UnreplayedIsIngested
    BY <1>1 DEF Init, UnreplayedIsIngested
<1>3. script \in [install : SUBSET Node, blocks : SUBSET Node]
    BY <1>1
<1>4. pc = "emit" /\ node \in [Node -> States]
    BY <1>1 DEF Init, States
<1> QED
    BY <1>1, <1>2, <1>3, <1>4 DEF ScriptInv

(* Only a replay changes what was replayed, and only an ingest renders more than it. *)
LEMMA ScriptStep == GraphInv /\ ScriptInv /\ [Next]_vars => ScriptInv'
<1> SUFFICES ASSUME GraphInv, ScriptInv, [Next]_vars PROVE ScriptInv'
    OBVIOUS
<1>0. /\ node \in [Node -> States] /\ recipes \in SUBSET Node /\ blocks \in SUBSET Node
    BY DEF ScriptInv, GraphInv, GraphTypeOK
<1>1. CASE DepEmit
    <2>1. PICK u \in SUBSET Node :
             /\ script' = Rendered(node, recipes, blocks) /\ ingested' = {}
             /\ node' = Certified(Certified(node, up), u)
        BY <1>1 DEF DepEmit, Replay
    <2>2. /\ Certified(node, up) \in [Node -> States]
          /\ \A n \in Node : Certified(node, up)[n] = "absent" <=> node[n] = "absent"
        BY <1>0, CertifiedHolds
    <2>3. /\ node' \in [Node -> States]
          /\ \A n \in Node : node'[n] = "absent" <=> Certified(node, up)[n] = "absent"
        BY <2>1, <2>2, CertifiedHolds
    <2>4. recipes' = recipes /\ blocks' = blocks
        BY <1>1 DEF DepEmit
    <2> QED
        BY <1>0, <2>1, <2>2, <2>3, <2>4, ReplayedIsRendered
<1>2. CASE RepairAdmitted
    <2>1. PICK edit \in Edits, u \in SUBSET Node :
             /\ script' = Rendered(edit[1], edit[2], edit[3]) /\ ingested' = {}
             /\ node' = Certified(edit[1], u)
             /\ recipes' = edit[2] /\ blocks' = edit[3]
        BY <1>2 DEF RepairAdmitted, Replay
    <2>2. edit[1] \in [Node -> States] /\ edit[2] \in SUBSET Node /\ edit[3] \in SUBSET Node
        BY EditsTyped DEF GraphInv
    <2>3. /\ node' \in [Node -> States]
          /\ \A n \in Node : node'[n] = "absent" <=> edit[1][n] = "absent"
        BY <2>1, <2>2, CertifiedHolds
    <2> QED
        BY <2>1, <2>2, <2>3, ReplayedIsRendered
<1>3. CASE ReplayObligation
    <2>1. PICK u \in SUBSET Node :
             /\ script' = Rendered(node, recipes, blocks) /\ ingested' = {}
             /\ node' = Certified(node, u)
        BY <1>3 DEF ReplayObligation, Replay
    <2>2. /\ node' \in [Node -> States]
          /\ \A n \in Node : node'[n] = "absent" <=> node[n] = "absent"
        BY <1>0, <2>1, CertifiedHolds
    <2>3. recipes' = recipes /\ blocks' = blocks
        BY <1>3 DEF ReplayObligation
    <2> QED
        BY <1>0, <2>1, <2>2, <2>3, ReplayedIsRendered
<1>4. CASE Recertify
    <2>1. /\ script' = script /\ recipes' = recipes /\ blocks' = blocks
          /\ ingested' = ingested
          /\ node' = Certified(node, up) /\ pc = "recert"
        BY <1>4 DEF Recertify, container, replayed
    <2>2. script = Rendered(node, recipes, blocks) /\ ingested' \subseteq Node
        BY <2>1 DEF ScriptInv, Exact
    <2>3. /\ node' \in [Node -> States]
          /\ \A n \in Node : node'[n] = "absent" <=> node[n] = "absent"
        BY <1>0, <2>1, CertifiedHolds
    <2> QED
        BY <1>0, <2>1, <2>2, <2>3, ReplayedIsRendered
<1>5. CASE Ingest
    <2>1. PICK found \in SUBSET {n \in Node : n \in Services => node[n] # "absent"},
               seen \in SUBSET Libs, more \in {{}, AptFile} :
             \E resolved \in SUBSET seen :
               LET anew == seen \ (predicted \ found)
               IN  /\ node' = [n \in Node |-> IF n \in anew THEN "missing"
                                              ELSE IF n \in found /\ node[n] = "absent"
                                              THEN "unknown" ELSE node[n]]
                   /\ recipes' = (recipes \ anew) \cup resolved
                   /\ ingested' = ingested \cup (more \ up)
                                  \cup {n \in Node : node'[n] # node[n]}
                                  \cup (recipes \ recipes') \cup (recipes' \ recipes)
        BY <1>5 DEF Ingest
    <2>2. UNCHANGED <<script, blocks, replay>> /\ pc' \in {"decide", "giveup"}
        BY <1>5 DEF Ingest
    <2>3. Libs \subseteq Node /\ AptFile \subseteq Node /\ ingested \subseteq Node
        BY NodeAssumption DEF NodeAssumption, ScriptInv
    <2>4. node' \in [Node -> States] /\ recipes' \subseteq Node
        BY <1>0, <2>1, <2>3 DEF States
    <2>5. ingested \subseteq ingested' /\ ingested' \subseteq Node
        BY <1>0, <2>1, <2>3, <2>4
    <2>6. \A n \in Node \ ingested' : node'[n] = node[n] /\ (n \in recipes' <=> n \in recipes)
        BY <2>1
    <2>7. \A n \in Node \ ingested' :
             n \in Installed(node', recipes') <=> n \in Installed(node, recipes)
        BY <2>6 DEF Installed
    <2>8. UnreplayedIsIngested'
        BY <2>2, <2>5, <2>7 DEF ScriptInv, UnreplayedIsIngested
    <2> QED
        BY <2>2, <2>4, <2>5, <2>8 DEF ScriptInv
<1>6. ASSUME UNCHANGED <<node, recipes, blocks, script, ingested, replay>>,
             pc' = "recert" => Exact, pc' = "repair" /\ call'.site = "emit" => Exact
      PROVE  ScriptInv'
    BY <1>6 DEF ScriptInv, UnreplayedIsIngested, Installed, Exact, Rendered
<1>7. CASE RepairStops \/ RepairRejected
    <2>1. /\ UNCHANGED <<node, recipes, blocks, script, ingested, replay>> /\ pc = "repair"
          /\ pc' = After(call.site) /\ call' = NoCall
        BY <1>7 DEF RepairStops, RepairRejected, Proposing, EndRepair, graphVars, container,
                    replayed
    <2>2. pc' # "repair" /\ (pc' = "recert" => call.site = "emit")
        BY <2>1 DEF After
    <2>3. pc' = "recert" => Exact
        BY <2>1, <2>2 DEF ScriptInv
    <2> QED
        BY <1>6, <2>1, <2>2, <2>3
<1>8. CASE NoGraphToEmit \/ HandOut \/ SchedulerDone \/ Discover
    <2>1. pc' \in {"decide", "gate", "stopped"}
        BY <1>8 DEF NoGraphToEmit, HandOut, SchedulerDone, Discover, Finish
    <2> QED
        BY <1>6, <1>8, <2>1 DEF NoGraphToEmit, HandOut, SchedulerDone, Discover,
                                graphVars, container, replayed
<1>12. CASE NothingToIngest
    <2>1. /\ UNCHANGED <<node, recipes, blocks, script, replay>> /\ pc' = "decide"
          /\ ingested \subseteq ingested' /\ ingested' \subseteq ingested \cup AptFile
        BY <1>12 DEF NothingToIngest, graphVars
    <2>2. AptFile \subseteq Node
        BY NodeAssumption DEF NodeAssumption
    <2> QED
        BY <2>1, <2>2 DEF ScriptInv, UnreplayedIsIngested, Installed
<1>9. CASE SampleGate \/ DiscoverGate \/ WrapUp \/ Raises \/ GiveUpResidual
    <2>1. pc' \in {"task", "wrap", "emit", "stopped"}
        BY <1>9 DEF SampleGate, DiscoverGate, WrapUp, Raises, GiveUpResidual,
                    FinalizeIfReplayed, Finish
    <2> QED
        BY <1>6, <1>9, <2>1 DEF SampleGate, DiscoverGate, WrapUp, Raises, GiveUpResidual,
                                graphVars, container, replayed
<1>10. CASE RepairObligation
    <2>1. pc' = "wrap" \/ (pc' = "repair" /\ call'.site = "task")
        BY <1>10 DEF RepairObligation, Route, After
    <2> QED
        BY <1>6, <1>10, <2>1 DEF RepairObligation, graphVars, container, replayed
<1>11. CASE UNCHANGED vars \/ Stopped
    BY <1>6, <1>11 DEF Stopped, vars, graphVars, container, replayed, ScriptInv
<1> QED
    BY <1>1, <1>2, <1>3, <1>4, <1>5, <1>7, <1>8, <1>9, <1>10, <1>11, <1>12
    DEF Next, Loop, Emit, Repair, Feed, Decide, Task

(* In every state the script the driver would write is the one last replayed, but *)
(* for nodes an ingest has written since: those it resolved are installed, those   *)
(* it made anew without a recipe are not (build_script.py:render_build_script,     *)
(* orchestrator.py:_binding_emit, probe.py:_make_syslib_node).                     *)
THEOREM UnreplayedIngested == Spec => []UnreplayedIsIngested
<1>1. Init => GraphInv /\ ScriptInv
    BY GraphInit, ScriptInit
<1>2. GraphInv /\ ScriptInv /\ [Next]_vars => (GraphInv /\ ScriptInv)'
    BY GraphStep, ScriptStep
<1>3. ScriptInv => UnreplayedIsIngested
    BY DEF ScriptInv
<1> QED
    BY <1>1, <1>2, <1>3, PTL DEF Spec

-----------------------------------------------------------------------------
(* A memo that is current is the outcome of the container as it is. *)
MemoInv ==
    /\ memo \in [result : Outcome \cup {"none"}, current : BOOLEAN]
    /\ memo.current => memo.result = ran

(* Whatever the test gate returns is how the tests ran in this very container. *)
LEMMA VerifyServes ==
    ASSUME MemoInv, NEW o \in Outcome, Verify(o)
    PROVE  MemoInv' /\ memo'.current /\ ran' = o
<1>1. CASE memo.current
    BY <1>1 DEF MemoInv, Verify, RunTests, tested
<1>2. CASE ~memo.current
    <2>1. memo' = [result |-> o, current |-> TRUE] /\ ran' = o
        BY <1>2 DEF Verify, RunTests, tested
    <2> QED
        BY <2>1 DEF MemoInv
<1> QED
    BY <1>1, <1>2

(* A replay leaves a memo that is of another container. *)
LEMMA ReplayForgets ==
    ASSUME MemoInv, NEW rc, NEW u, NEW s, Replay(rc, u, s)
    PROVE  MemoInv' /\ ~memo'.current
BY DEF MemoInv, Replay

(* The doors out of the loop: what holds where one is about to close, and what   *)
(* the report of a cycle rests on.                                               *)
DoorInv ==
    /\ MemoInv
    /\ pc = "gate" /\ decision = "done" => memo.current /\ ran = "pass" /\ Pending = {}
    /\ report => pc \in {"wrap", "stopped"}
    /\ pc = "wrap" /\ report => memo.current /\ ran = "pass"
    /\ stop # "none" => pc = "stopped"

DoorProperties == SuccessIsVerified /\ DoneHonoursServices /\ PassIsNotGivenUp

(* A run that has not ended satisfies them, and a giveup of another kind does. *)
LEMMA OtherGiveups ==
    ASSUME stop' \in {"none", "raised", "giveup_replay", "giveup_budget", "giveup_residual",
                      "max_cycles"}
    PROVE  DoorProperties'
BY DEF DoorProperties, SuccessIsVerified, DoneHonoursServices, PassIsNotGivenUp, Success

(* Finish() runs the gates once more, in the container it is given. *)
LEMMA FinishKeepsDoors ==
    ASSUME DoorInv, pc # "stopped", NEW reason, Finish(reason), UNCHANGED report
    PROVE  DoorInv' /\ stop' = reason
<1>1. PICK o \in Outcome : Verify(o)
    BY DEF Finish
<1> QED
    BY <1>1, VerifyServes DEF DoorInv, Finish

(* Every step keeps the doors guarded, and one that closes does so with reason. *)
LEMMA DoorStep == DoorInv /\ DoorProperties /\ BoundAssumption /\ [Next]_vars
                     => DoorInv' /\ DoorProperties'
<1> SUFFICES ASSUME DoorInv, DoorProperties, BoundAssumption, [Next]_vars
             PROVE  DoorInv' /\ DoorProperties'
    OBVIOUS
<1>0. /\ MemoInv
      /\ pc # "stopped" => stop = "none"
      /\ pc \notin {"wrap", "stopped"} => ~report
    BY DEF DoorInv
<1>1. CASE DepEmit
    <2>1. MemoInv' /\ pc' \in {"recert", "repair", "ingest"} /\ report' = report /\ stop' = stop
        BY <1>0, <1>1, ReplayForgets DEF DepEmit, Route, After
    <2> QED
        BY <1>0, <1>1, <2>1, OtherGiveups DEF DepEmit, DoorInv
<1>2. CASE NoGraphToEmit
    <2>1. MemoInv' /\ pc' = "decide" /\ report' = report /\ stop' = stop
        BY <1>0, <1>2 DEF NoGraphToEmit, container, replayed, tested, cycleVars, MemoInv
    <2> QED
        BY <1>0, <1>2, <2>1, OtherGiveups DEF NoGraphToEmit, DoorInv
<1>3. CASE Recertify
    <2>1. pc = "recert" /\ report' = report
        BY <1>3 DEF Recertify, cycleVars
    <2>2. CASE budgetOut
        BY <1>3, <2>1, <2>2, FinishKeepsDoors, OtherGiveups DEF Recertify
    <2>3. CASE ~budgetOut
        <3>1. MemoInv' /\ pc' = "ingest" /\ stop' = stop
            BY <1>0, <1>3, <2>3 DEF Recertify, container, replayed, tested, MemoInv
        <3> QED
            BY <1>0, <2>1, <3>1, OtherGiveups DEF DoorInv
    <2> QED
        BY <2>2, <2>3
<1>4. CASE RepairStops \/ RepairRejected
    <2>1. /\ pc = "repair" /\ pc' \in {"recert", "wrap"} /\ report' = report /\ stop' = stop
          /\ MemoInv'
        BY <1>0, <1>4
        DEF RepairStops, RepairRejected, Proposing, EndRepair, After, container, replayed, tested, cycleVars, MemoInv
    <2> QED
        BY <1>0, <2>1, OtherGiveups DEF DoorInv
<1>5. CASE RepairAdmitted
    <2>1. pc = "repair" /\ report' = report /\ stop' = stop
        BY <1>5 DEF RepairAdmitted, Proposing, cycleVars
    <2>2. MemoInv'
        BY <1>0, <1>5, ReplayForgets DEF RepairAdmitted
    <2>3. pc' \in {"recert", "wrap", "repair"}
        BY <1>5, <2>1 DEF RepairAdmitted, EndRepair, After
    <2> QED
        BY <1>0, <2>1, <2>2, <2>3, OtherGiveups DEF DoorInv
<1>6. CASE Raises
    <2>1. MemoInv' /\ pc' = "stopped" /\ stop' = "raised"
        BY <1>0, <1>6 DEF Raises, container, replayed, tested, MemoInv
    <2> QED
        BY <2>1, OtherGiveups DEF DoorInv
<1>7. CASE NothingToIngest
    <2>1. MemoInv' /\ pc = "ingest" /\ pc' = "decide" /\ report' = report /\ stop' = stop
        BY <1>0, <1>7 DEF NothingToIngest, cycleVars, MemoInv
    <2> QED
        BY <1>0, <2>1, OtherGiveups DEF DoorInv
<1>8. CASE Ingest
    <2>1. pc = "ingest" /\ report' = report /\ stop' = stop
        BY <1>8 DEF Ingest, cycleVars
    <2>2. MemoInv'
        BY <1>0, <1>8 DEF Ingest, MemoInv
    <2>3. pc' \in {"decide", "giveup"}
        BY <1>8 DEF Ingest
    <2> QED
        BY <1>0, <2>1, <2>2, <2>3, OtherGiveups DEF DoorInv
<1>18. CASE GiveUpResidual
    <2>1. pc = "giveup" /\ report' = report /\ Finish("giveup_residual")
        BY <1>18 DEF GiveUpResidual, cycleVars
    <2> QED
        BY <2>1, FinishKeepsDoors, OtherGiveups
<1>9. CASE HandOut
    <2>1. MemoInv' /\ pc = "decide" /\ pc' = "gate" /\ report' = report /\ stop' = stop
        BY <1>0, <1>9 DEF HandOut, container, replayed, tested, cycleVars, MemoInv
    <2>2. decision' \in Node
        BY <1>9 DEF HandOut, Eligible, Frontier
    <2>3. decision' # "done"
        BY <2>2, NodeAssumption DEF NodeAssumption
    <2> QED
        BY <1>0, <2>1, <2>3, OtherGiveups DEF DoorInv
<1>10. CASE SchedulerDone
    <2>1. MemoInv' /\ memo'.current /\ ran' = "pass"
        BY <1>0, <1>10, VerifyServes DEF SchedulerDone, Outcome
    <2>2. /\ pc = "decide" /\ pc' = "gate" /\ report' = report /\ stop' = stop
          /\ Pending' = {}
        BY <1>10 DEF SchedulerDone, cycleVars, graphVars, Pending
    <2> QED
        BY <1>0, <2>1, <2>2, OtherGiveups DEF DoorInv
<1>11. CASE Discover
    <2>1. PICK o \in Outcome : Verify(o) /\ (o = "pass" => Pending # {})
        BY <1>11 DEF Discover
    <2>2. MemoInv' /\ memo'.current /\ ran' = o
        BY <1>0, <2>1, VerifyServes
    <2>3. /\ pc = "decide" /\ report' = report /\ Pending' = Pending
          /\ decision' = "discover"
          /\ \/ pc' = "stopped" /\ stop' = "giveup_stuck"
             \/ pc' = "gate" /\ stop' = stop
        BY <1>11 DEF Discover, Finish, cycleVars, graphVars, Pending
    <2>4. DoorInv'
        BY <1>0, <2>2, <2>3 DEF DoorInv
    <2>5. DoorProperties'
        BY <1>0, <2>1, <2>2, <2>3
        DEF DoorProperties, SuccessIsVerified, DoneHonoursServices, PassIsNotGivenUp, Success
    <2> QED
        BY <2>4, <2>5
<1>12. CASE SampleGate
    <2>1. PICK sig \in Outcome :
             /\ Verify(sig)
             /\ stall' = NextStall(prevSig, sig, stall)
             /\ IF sig = "pass" /\ decision # "done" /\ Pending = {}
                THEN FinalizeIfReplayed("planner_done")
                ELSE IF stall' >= NoProgressCycles THEN Finish("giveup_no_progress")
                ELSE IF decision = "done" THEN FinalizeIfReplayed("planner_done")
                ELSE pc' = "task" /\ UNCHANGED stop
        BY <1>12 DEF SampleGate
    <2>2. MemoInv' /\ memo'.current /\ ran' = sig
        BY <1>0, <2>1, VerifyServes
    <2>3. /\ pc = "gate" /\ report' = report /\ Pending' = Pending /\ replay' = replay
        BY <1>12 DEF SampleGate, cycleVars, graphVars, Pending, replayed
    <2>4. decision = "done" => sig = "pass" /\ Pending = {}
        BY <2>1, <2>2, <2>3 DEF DoorInv, MemoInv, Verify, RunTests, tested
    <2>5. sig = "pass" => stall' = 0 /\ ~(stall' >= NoProgressCycles)
        BY <2>1 DEF NextStall, BoundAssumption
    <2>6. \/ /\ pc' = "stopped" /\ stop' \in {"planner_done", "giveup_replay"}
             /\ stop' = "planner_done" => replay = "ok"
             /\ sig = "pass" /\ Pending = {}
          \/ pc' = "stopped" /\ stop' = "giveup_no_progress" /\ sig # "pass"
          \/ pc' = "task" /\ stop' = stop
        BY <2>1, <2>4, <2>5 DEF FinalizeIfReplayed, Finish
    <2>7. DoorInv'
        BY <1>0, <2>2, <2>3, <2>6 DEF DoorInv
    <2>8. DoorProperties'
        BY <1>0, <2>2, <2>3, <2>6
        DEF DoorProperties, SuccessIsVerified, DoneHonoursServices, PassIsNotGivenUp, Success
    <2> QED
        BY <2>7, <2>8
<1>13. CASE DiscoverGate
    <2>1. PICK o \in Outcome : Verify(o) /\ report' = (o = "pass")
        BY <1>13 DEF DiscoverGate
    <2>2. MemoInv' /\ memo'.current /\ ran' = o
        BY <1>0, <2>1, VerifyServes
    <2>3. pc = "task" /\ pc' = "wrap" /\ stop' = stop
        BY <1>13 DEF DiscoverGate
    <2> QED
        BY <1>0, <2>1, <2>2, <2>3, OtherGiveups DEF DoorInv
<1>14. CASE RepairObligation
    <2>1. MemoInv' /\ pc = "task" /\ pc' \in {"wrap", "repair"} /\ ~report' /\ stop' = stop
        BY <1>0, <1>14 DEF RepairObligation, Route, After, container, replayed, tested, MemoInv
    <2> QED
        BY <1>0, <2>1, OtherGiveups DEF DoorInv
<1>15. CASE ReplayObligation
    <2>1. MemoInv' /\ pc = "task" /\ pc' \in {"wrap", "repair"} /\ ~report' /\ stop' = stop
        BY <1>0, <1>15, ReplayForgets DEF ReplayObligation, Route, After
    <2> QED
        BY <1>0, <2>1, OtherGiveups DEF DoorInv
<1>16. CASE WrapUp
    <2>1. pc = "wrap" /\ report' = report /\ replay' = replay
        BY <1>16 DEF WrapUp, replayed
    <2>2. CASE Finish("giveup_residual") \/ Finish("giveup_budget") \/ Finish("max_cycles")
        BY <2>1, <2>2, FinishKeepsDoors, OtherGiveups
    <2>3. CASE report /\ FinalizeIfReplayed("done_flag")
        <3>1. DoorInv' /\ stop' = (IF replay = "ok" THEN "done_flag" ELSE "giveup_replay")
            BY <2>1, <2>3, FinishKeepsDoors DEF FinalizeIfReplayed
        <3>2. ran = "pass" /\ ran' = ran
            BY <2>1, <2>3 DEF DoorInv, FinalizeIfReplayed, Finish, Verify, RunTests, tested
        <3> QED
            BY <2>1, <3>1, <3>2
            DEF DoorProperties, SuccessIsVerified, DoneHonoursServices, PassIsNotGivenUp, Success
    <2>4. CASE ~report /\ pc' = "emit" /\ UNCHANGED <<tested, stop>>
        <3>1. MemoInv'
            BY <1>0, <2>4 DEF MemoInv, tested
        <3> QED
            BY <1>0, <2>1, <2>4, <3>1, OtherGiveups DEF DoorInv
    <2> QED
        BY <1>16, <2>2, <2>3, <2>4 DEF WrapUp
<1>17. CASE UNCHANGED vars \/ Stopped
    BY <1>17 DEF Stopped, vars, container, replayed, tested, cycleVars, graphVars, sched, DoorInv, MemoInv, Pending,
              DoorProperties, SuccessIsVerified, DoneHonoursServices, PassIsNotGivenUp
<1> QED
    BY <1>1, <1>2, <1>3, <1>4, <1>5, <1>6, <1>7, <1>8, <1>9, <1>10, <1>11, <1>12, <1>13,
       <1>14, <1>15, <1>16, <1>17, <1>18
    DEF Next, Loop, Emit, Repair, Feed, Decide, Task

(* A loop that starts has no report and no reason to end. *)
LEMMA DoorInit == Init => DoorInv /\ DoorProperties
BY DEF Init, DoorInv, MemoInv, DoorProperties, SuccessIsVerified, DoneHonoursServices,
       PassIsNotGivenUp, Success

(* What the doors rest on holds at first, and so it always does. *)
THEOREM DoorsAreGuarded == Spec => [](DoorInv /\ DoorProperties)
BY DoorInit, DoorStep, BoundAssumption, PTL DEF Spec

(* No success without a green replay and a test run of that container that passed, *)
(* however long the memo has served (orchestrator.py:_finalize_if_replayed).       *)
THEOREM SuccessVerified == Spec => []SuccessIsVerified
BY DoorsAreGuarded, PTL DEF DoorProperties

(* The scheduler's done and the fast termination honour pending services           *)
(* (graph_scheduler.py:next_decision, orchestrator.py:1b).                         *)
THEOREM DoneHonours == Spec => []DoneHonoursServices
BY DoorsAreGuarded, PTL DEF DoorProperties

(* Want of progress never ends a run whose suite verifiably passes, but for        *)
(* services (orchestrator.py, the order of the doors 1b and 1c).                   *)
THEOREM PassNotGivenUp == Spec => []PassIsNotGivenUp
BY DoorsAreGuarded, PTL DEF DoorProperties

-----------------------------------------------------------------------------
(* Every id a replay reports as failing is one of the script, or none. *)
LEMMA FailingTyped ==
    ASSUME NEW rc, NEW g, NEW R \in SUBSET Node, NEW id \in FailingIds(rc, g, R)
    PROVE  id \in Node \cup {None, Script}
BY DEF FailingIds, Installed

(* How many nodes the graph holds is a number of at most all of them. *)
LEMMA NodesCounted ==
    ASSUME NEW g
    PROVE  Cardinality({m \in Node : g[m] # "absent"}) \in 0..Cardinality(Node)
<1> DEFINE Held == {m \in Node : g[m] # "absent"}
<1>1. IsFiniteSet(Node) /\ Held \subseteq Node
    BY NodeAssumption DEF NodeAssumption
<1>2. IsFiniteSet(Held) /\ Cardinality(Held) <= Cardinality(Node)
    BY <1>1, FS_Subset
<1>3. Cardinality(Held) \in Nat /\ Cardinality(Node) \in Nat
    BY <1>1, <1>2, FS_CardinalityType
<1> QED
    BY <1>2, <1>3

(* A loop that has not stopped can still be stopped by one more idle discover. *)
SchedulerInv == SchedulerTypeOK /\ (pc # "stopped" => stuck < 2)

(* Hand-outs stop at their cap, and the second idle discover stops the run. *)
LEMMA SchedulerStep == SchedulerInv /\ [Next]_vars => SchedulerInv'
<1> SUFFICES ASSUME SchedulerInv, [Next]_vars PROVE SchedulerInv'
    OBVIOUS
<1>0. /\ handed \in [Node -> 0..AttemptCap] /\ residual \subseteq Node
      /\ decision \in Node \cup {"discover", "done", None}
      /\ stuck \in 0..2 /\ lastNodes \in -1..Cardinality(Node)
      /\ AttemptCap \in Nat
    BY BoundAssumption DEF SchedulerInv, SchedulerTypeOK, BoundAssumption
<1>1. ASSUME NEW id, residual' = residual \cup ({id} \cap Node) \/ residual' = residual,
             pc # "stopped", handed' = handed, decision' = decision, stuck' = stuck,
             lastNodes' = lastNodes
      PROVE  SchedulerInv'
    BY <1>0, <1>1 DEF SchedulerInv, SchedulerTypeOK
<1>2. CASE DepEmit
    <2>1. PICK id : residual' = residual \cup ({id} \cap Node) \/ residual' = residual
        BY <1>2 DEF DepEmit, Route
    <2> QED
        BY <1>1, <1>2, <2>1 DEF DepEmit, counters
<1>3. CASE RepairObligation \/ ReplayObligation
    <2>1. PICK id : residual' = residual \cup ({id} \cap Node) \/ residual' = residual
        BY <1>3 DEF RepairObligation, ReplayObligation, Route
    <2> QED
        BY <1>1, <1>3, <2>1 DEF RepairObligation, ReplayObligation, counters
<1>4. CASE NoGraphToEmit \/ Recertify \/ Raises \/ Feed
    BY <1>1, <1>4 DEF NoGraphToEmit, Recertify, Raises, Feed, NothingToIngest, Ingest,
                      GiveUpResidual, counters, sched
<1>5. CASE Repair
    BY <1>1, <1>5 DEF Repair, RepairStops, RepairRejected, RepairAdmitted, Proposing, counters,
                      sched
<1>6. CASE HandOut
    <2>1. PICK n \in Eligible : decision' = n /\ handed' = [handed EXCEPT ![n] = @ + 1]
        BY <1>6 DEF HandOut
    <2>2. n \in Node /\ handed[n] < AttemptCap
        BY DEF Eligible, Frontier
    <2>3. handed' \in [Node -> 0..AttemptCap]
        BY <1>0, <2>1, <2>2
    <2> QED
        BY <1>0, <1>6, <2>1, <2>2, <2>3 DEF HandOut, SchedulerInv, SchedulerTypeOK
<1>7. CASE SchedulerDone
    BY <1>0, <1>7 DEF SchedulerDone, counters, SchedulerInv, SchedulerTypeOK
<1>8. CASE Discover
    <2>1. lastNodes' \in -1..Cardinality(Node)
        BY <1>8, NodesCounted DEF Discover
    <2>2. /\ stuck' \in {0, stuck + 1} /\ decision' = "discover" /\ pc = "decide"
          /\ handed' = handed /\ residual' = residual
          /\ stuck' >= 2 \/ pc' = "gate"
          /\ stuck' >= 2 => pc' = "stopped"
        BY <1>8 DEF Discover, Finish
    <2> QED
        BY <1>0, <2>1, <2>2 DEF SchedulerInv, SchedulerTypeOK
<1>9. CASE SampleGate \/ DiscoverGate \/ WrapUp
    BY <1>1, <1>9 DEF SampleGate, DiscoverGate, WrapUp, counters, sched
<1>10. CASE UNCHANGED vars \/ Stopped
    BY <1>0, <1>10 DEF Stopped, vars, counters, sched, SchedulerInv, SchedulerTypeOK
<1> QED
    BY <1>2, <1>3, <1>4, <1>5, <1>6, <1>7, <1>8, <1>9, <1>10 DEF Next, Loop, Emit, Decide, Task

(* The residual churn is below its cap as long as the loop runs. *)
ControlInv == ControlTypeOK /\ (pc # "stopped" => resStall < ResidualCycles)

(* A cycle follows only while there are cycles left. *)
LEMMA ControlStep == ControlInv /\ [Next]_vars => ControlInv'
<1> SUFFICES ASSUME ControlInv, [Next]_vars PROVE ControlInv'
    OBVIOUS
<1> USE BoundAssumption DEF BoundAssumption
<1>0. /\ cycle \in 1..MaxCycles /\ resStall \in 0..ResidualCycles
      /\ stop \in Reason \cup {"none"}
      /\ hasGraph \in BOOLEAN /\ unread \in BOOLEAN /\ report \in BOOLEAN
      /\ hadResidual \in BOOLEAN /\ hadRepair \in BOOLEAN
      /\ pc # "stopped" => resStall < ResidualCycles
    BY DEF ControlInv, ControlTypeOK
<1>1. ASSUME pc # "stopped", cycle' = cycle, resStall' = resStall, hasGraph' = hasGraph,
             unread' \in {FALSE, unread}, report' \in {FALSE, report},
             hadResidual' \in {TRUE, hadResidual}, hadRepair' \in {TRUE, hadRepair},
             stop' \in Reason \cup {stop},
             pc' \in {"emit", "repair", "recert", "ingest", "giveup", "decide", "gate", "task",
                      "wrap", "stopped"}
      PROVE  ControlInv'
    BY <1>0, <1>1 DEF ControlInv, ControlTypeOK
<1>2. CASE DepEmit
    BY <1>1, <1>2 DEF DepEmit, Route, After, counters
<1>3. CASE NoGraphToEmit \/ Recertify \/ Raises \/ NothingToIngest \/ Ingest \/ GiveUpResidual
    BY <1>1, <1>3 DEF NoGraphToEmit, Recertify, Raises, NothingToIngest, Ingest, GiveUpResidual,
                      Finish, Reason, counters, cycleVars
<1>4. CASE RepairStops \/ RepairRejected
    BY <1>1, <1>4 DEF RepairStops, RepairRejected, EndRepair, Proposing, After, counters,
                      cycleVars
<1>5. CASE RepairAdmitted
    BY <1>1, <1>5 DEF RepairAdmitted, EndRepair, Proposing, After, counters, cycleVars
<1>6. CASE HandOut \/ SchedulerDone \/ Discover
    BY <1>1, <1>6 DEF HandOut, SchedulerDone, Discover, Finish, Reason, counters, cycleVars
<1>7. CASE SampleGate
    <2>1. /\ stop' \in Reason \cup {stop} /\ pc' \in {"task", "stopped"}
        BY <1>7 DEF SampleGate, FinalizeIfReplayed, Finish, Reason, Success
    <2> QED
        BY <1>1, <1>7, <2>1 DEF SampleGate, cycleVars
<1>8. CASE DiscoverGate
    <2>1. /\ pc = "task" /\ pc' = "wrap" /\ unread' \in BOOLEAN /\ report' \in BOOLEAN
          /\ UNCHANGED <<cycle, hasGraph, hadResidual, hadRepair, resStall, stop>>
        BY <1>0, <1>8 DEF DiscoverGate, counters
    <2> QED
        BY <1>0, <2>1 DEF ControlInv, ControlTypeOK
<1>9. CASE RepairObligation \/ ReplayObligation
    BY <1>1, <1>9 DEF RepairObligation, ReplayObligation, Route, After, counters
<1>10. CASE WrapUp
    <2>1. /\ pc = "wrap" /\ unread' = unread /\ report' = report /\ hasGraph' = hasGraph
          /\ resStall' = IF hadRepair THEN 0 ELSE IF hadResidual THEN resStall + 1 ELSE resStall
        BY <1>10 DEF WrapUp
    <2>2. resStall' \in 0..ResidualCycles
        BY <1>0, <2>1
    <2>3. ASSUME pc' = "stopped", stop' \in Reason, UNCHANGED <<cycle, hadResidual, hadRepair>>
          PROVE  ControlInv'
        BY <1>0, <2>1, <2>2, <2>3 DEF ControlInv, ControlTypeOK
    <2>4. ASSUME pc' = "emit", cycle # MaxCycles, cycle' = cycle + 1, stop' = stop,
                 hadResidual' = FALSE, hadRepair' = FALSE, resStall' < ResidualCycles
          PROVE  ControlInv'
        <3>1. cycle' \in 1..MaxCycles
            BY <1>0, <2>4
        <3> QED
            BY <1>0, <2>1, <2>2, <2>4, <3>1 DEF ControlInv, ControlTypeOK
    <2>5. (hadRepair \/ ~hadResidual \/ ~(resStall' >= ResidualCycles))
             => resStall' < ResidualCycles
        BY <1>0, <2>1
    <2>6. \/ /\ pc' = "stopped" /\ stop' \in Reason
             /\ UNCHANGED <<cycle, hadResidual, hadRepair>>
          \/ /\ pc' = "emit" /\ cycle # MaxCycles /\ cycle' = cycle + 1 /\ stop' = stop
             /\ hadResidual' = FALSE /\ hadRepair' = FALSE
             /\ (hadRepair \/ ~hadResidual \/ ~(resStall' >= ResidualCycles))
        BY <1>10 DEF WrapUp, FinalizeIfReplayed, Finish, Reason, Success
    <2> QED
        BY <2>3, <2>4, <2>5, <2>6
<1>11. CASE UNCHANGED vars \/ Stopped
    BY <1>0, <1>11 DEF Stopped, vars, counters, cycleVars, ControlInv, ControlTypeOK
<1> QED
    BY <1>2, <1>3, <1>4, <1>5, <1>6, <1>7, <1>8, <1>9, <1>10, <1>11
    DEF Next, Loop, Emit, Repair, Feed, Decide, Task

-----------------------------------------------------------------------------
(* Wherever a call may start a turn is left; what it has spent is at most one     *)
(* more than that.                                                                *)
BudgetInv ==
    /\ BudgetTypeOK
    /\ pc = "repair" => call.site # "none" /\ call.spent <= turns + 1
    /\ pc \notin {"recert", "wrap", "stopped"} => turns >= 1
    /\ pc = "recert" /\ ~budgetOut => turns >= 1

(* The repairs that may be in progress. *)
Calls == [site : {"none", "emit", "task"}, id : Node \cup {None, Script},
          attempt : 0..MaxRepairs, spent : 0..(MaxCycles + 1)]

(* Both bounds on a repair are positive, and no call is one. *)
LEMMA RepairBounds == MaxCycles \in Nat \ {0} /\ MaxRepairs \in Nat \ {0} /\ NoCall \in Calls
<1>1. MaxCycles \in Nat \ {0} /\ MaxRepairs \in Nat \ {0}
    BY BoundAssumption DEF BoundAssumption
<1> QED
    BY <1>1 DEF NoCall, Calls

(* What the budget invariant says, field by field. *)
LEMMA BudgetFacts ==
    ASSUME BudgetInv
    PROVE  /\ turns \in -1..MaxCycles /\ budgetOut \in BOOLEAN /\ call \in Calls
           /\ call.attempt \in 0..MaxRepairs /\ call.spent \in 0..(MaxCycles + 1)
<1>1. turns \in -1..MaxCycles /\ budgetOut \in BOOLEAN /\ call \in Calls
    BY DEF BudgetInv, BudgetTypeOK, Calls
<1>2. call.attempt \in 0..MaxRepairs /\ call.spent \in 0..(MaxCycles + 1)
    BY <1>1 DEF Calls
<1> QED
    BY <1>1, <1>2

(* A repair that is over takes what it spent from the budget. *)
LEMMA EndRepairStep ==
    ASSUME BudgetInv, pc = "repair", NEW spent \in 0..(turns + 1), NEW exhausted \in BOOLEAN,
           EndRepair(spent, exhausted)
    PROVE  BudgetInv'
<1>1. turns \in 1..MaxCycles /\ budgetOut \in BOOLEAN /\ MaxCycles \in Nat
    BY BudgetFacts, RepairBounds DEF BudgetInv
<1>2. turns' \in -1..MaxCycles /\ (~(turns' <= 0) => turns' >= 1)
    BY <1>1 DEF EndRepair
<1>3. budgetOut' \in BOOLEAN /\ (~budgetOut' => ~(turns' <= 0))
    BY <1>1 DEF EndRepair
<1>4. pc' \in {"recert", "wrap"} /\ call' = NoCall
    BY DEF EndRepair, After
<1> QED
    BY <1>2, <1>3, <1>4, RepairBounds DEF BudgetInv, BudgetTypeOK, Calls

(* A diagnosis starts a repair with nothing spent, or leaves the budget alone. *)
LEMMA RouteStep ==
    ASSUME BudgetInv, turns >= 1, NEW site \in {"emit", "task"}, NEW id \in Node \cup {Script},
           NEW hasOutput, Route(site, id, hasOutput), UNCHANGED budget
    PROVE  BudgetInv'
<1> USE DEF BudgetInv, BudgetTypeOK, budget
<1>1. CASE call' = call /\ pc' \in {"recert", "wrap"}
    BY <1>1
<1>2. CASE pc' = "repair" /\ call' = [site |-> site, id |-> id, attempt |-> 0, spent |-> 0]
    <2>1. call' \in Calls
        BY <1>2, RepairBounds DEF Calls
    <2>2. call'.site # "none" /\ call'.spent = 0
        BY <1>2
    <2> QED
        BY <1>2, <2>1, <2>2 DEF Calls
<1> QED
    BY <1>1, <1>2 DEF Route, After

(* Only a repair spends turns, and only a cycle with turns left starts one. *)
LEMMA BudgetStep == GraphTypeOK /\ GraphTypeOK' /\ BudgetInv /\ [Next]_vars => BudgetInv'
<1> SUFFICES ASSUME GraphTypeOK, GraphTypeOK', BudgetInv, [Next]_vars PROVE BudgetInv'
    OBVIOUS
<1>0. /\ turns \in -1..MaxCycles /\ budgetOut \in BOOLEAN /\ call \in Calls
      /\ call.attempt \in 0..MaxRepairs /\ call.spent \in 0..(MaxCycles + 1)
      /\ MaxCycles \in Nat /\ MaxRepairs \in Nat
      /\ recipes \in SUBSET Node /\ recipes' \in SUBSET Node
    BY BudgetFacts, RepairBounds DEF GraphTypeOK
<1>1. ASSUME UNCHANGED <<budget, call>>, turns >= 1, pc' # "repair" PROVE BudgetInv'
    BY <1>1 DEF BudgetInv, BudgetTypeOK, budget
<1>2. ASSUME UNCHANGED <<budget, call>>, pc' \in {"wrap", "stopped"} PROVE BudgetInv'
    BY <1>2 DEF BudgetInv, BudgetTypeOK, budget
<1>3. CASE DepEmit
    <2>1. turns >= 1 /\ UNCHANGED budget
        BY <1>3 DEF DepEmit, BudgetInv
    <2>2. PICK rc, g, id :
             id \in FailingIds(rc, g, recipes) /\
             \/ id # None /\ Route("emit", id, rc = "failed")
             \/ pc' \in {"ingest", "recert"} /\ call' = call
        BY <1>3 DEF DepEmit
    <2>3. CASE id # None /\ Route("emit", id, rc = "failed")
        <3>1. id \in Node \cup {Script}
            BY <1>0, <2>2, <2>3, FailingTyped
        <3> QED
            BY <2>1, <2>3, <3>1, RouteStep
    <2> QED
        BY <1>1, <2>1, <2>2, <2>3
<1>4. CASE NoGraphToEmit \/ NothingToIngest
    BY <1>1, <1>4 DEF NoGraphToEmit, NothingToIngest, sched, BudgetInv
<1>5. CASE Recertify
    <2>1. UNCHANGED <<budget, call>> /\ (budgetOut => pc' = "stopped") /\ (~budgetOut => pc' = "ingest")
        BY <1>5 DEF Recertify, Finish
    <2> QED
        BY <1>0, <1>1, <1>2, <1>5, <2>1 DEF Recertify, BudgetInv
<1>6. CASE RepairStops
    <2>1. pc = "repair" /\ \E exhausted \in BOOLEAN : EndRepair(call.spent, exhausted)
        BY <1>6 DEF RepairStops
    <2>2. call.spent \in 0..(turns + 1)
        BY <1>0, <2>1 DEF BudgetInv
    <2> QED
        BY <2>1, <2>2, EndRepairStep
<1>7. CASE RepairRejected
    <2>1. PICK proposals \in 1..2 : EndRepair(call.spent + proposals, FALSE)
        BY <1>7 DEF RepairRejected
    <2>2. pc = "repair" /\ call.spent + proposals \in 0..(turns + 1)
        BY <1>0, <1>7 DEF RepairRejected, Proposing
    <2> QED
        BY <2>1, <2>2, EndRepairStep
<1>8. CASE RepairAdmitted
    <2>1. PICK proposals, rc, id :
             proposals \in 1..2 /\ id \in FailingIds(rc, node', recipes') /\
             \/ EndRepair(call.spent + proposals, FALSE)
             \/ /\ call' = [call EXCEPT !.id = id, !.attempt = @ + 1, !.spent = @ + proposals]
                /\ UNCHANGED <<pc, budget>>
        BY <1>8 DEF RepairAdmitted
    <2>2. Proposing
        BY <1>8 DEF RepairAdmitted
    <2>3. pc = "repair" /\ call.spent + proposals \in 0..(turns + 1) /\ call.attempt < MaxRepairs
        BY <1>0, <2>1, <2>2 DEF Proposing
    <2>4. CASE EndRepair(call.spent + proposals, FALSE)
        BY <2>3, <2>4, EndRepairStep
    <2>5. CASE /\ call' = [call EXCEPT !.id = id, !.attempt = @ + 1, !.spent = @ + proposals]
               /\ UNCHANGED <<pc, budget>>
        <3>1. id \in Node \cup {None, Script}
            BY <1>0, <2>1, FailingTyped
        <3>2. call.attempt + 1 \in 0..MaxRepairs /\ call.spent + proposals \in 0..(MaxCycles + 1)
            BY <1>0, <2>1, <2>3
        <3>3. /\ call' \in Calls
              /\ call'.site = call.site /\ call'.spent = call.spent + proposals
            BY <1>0, <2>5, <3>1, <3>2 DEF Calls
        <3> QED
            BY <1>0, <2>3, <2>5, <3>3 DEF BudgetInv, BudgetTypeOK, Calls, budget
    <2> QED
        BY <2>1, <2>4, <2>5
<1>9. CASE Raises
    BY <1>2, <1>9 DEF Raises
<1>10. CASE Ingest
    <2>1. UNCHANGED <<budget, call>> /\ turns >= 1 /\ pc' \in {"decide", "giveup"}
        BY <1>10 DEF Ingest, BudgetInv
    <2> QED
        BY <1>1, <2>1
<1>18. CASE GiveUpResidual
    BY <1>2, <1>18 DEF GiveUpResidual, Finish
<1>11. CASE Decide
    <2>1. UNCHANGED <<budget, call>> /\ turns >= 1 /\ pc' \in {"gate", "stopped"}
        BY <1>11 DEF Decide, HandOut, SchedulerDone, Discover, Finish, BudgetInv
    <2> QED
        BY <1>1, <2>1
<1>12. CASE SampleGate
    <2>1. UNCHANGED <<budget, call>> /\ turns >= 1 /\ pc' \in {"task", "stopped"}
        BY <1>12 DEF SampleGate, FinalizeIfReplayed, Finish, BudgetInv
    <2> QED
        BY <1>1, <2>1
<1>13. CASE DiscoverGate
    BY <1>2, <1>13 DEF DiscoverGate
<1>14. CASE RepairObligation
    <2>1. pc = "task" /\ turns >= 1 /\ UNCHANGED budget
        BY <1>14 DEF RepairObligation, BudgetInv
    <2>2. decision \in Node \cup {Script} /\ \E hasOutput : Route("task", decision, hasOutput)
        BY <1>14 DEF RepairObligation
    <2> QED
        BY <2>1, <2>2, RouteStep
<1>15. CASE ReplayObligation
    <2>1. pc = "task" /\ turns >= 1 /\ UNCHANGED budget
        BY <1>15 DEF ReplayObligation, BudgetInv
    <2>2. PICK rc, id :
             id \in FailingIds(rc, node', recipes) /\
             \/ id # None /\ Route("task", id, rc = "failed")
             \/ pc' = "wrap" /\ call' = call
        BY <1>15 DEF ReplayObligation
    <2>3. CASE id # None /\ Route("task", id, rc = "failed")
        <3>1. id \in Node \cup {Script}
            BY <1>0, <2>2, <2>3, FailingTyped
        <3> QED
            BY <2>1, <2>3, <3>1, RouteStep
    <2> QED
        BY <1>1, <2>1, <2>2, <2>3
<1>16. CASE WrapUp
    <2>1. UNCHANGED <<budget, call>> /\ (pc' = "stopped" \/ (pc' = "emit" /\ ~(turns <= 0)))
        BY <1>16 DEF WrapUp, FinalizeIfReplayed, Finish
    <2> QED
        BY <1>0, <1>1, <1>2, <2>1
<1>17. CASE UNCHANGED vars \/ Stopped
    BY <1>17 DEF Stopped, vars, budget, BudgetInv, BudgetTypeOK
<1> QED
    BY <1>3, <1>4, <1>5, <1>6, <1>7, <1>8, <1>9, <1>10, <1>11, <1>12, <1>13, <1>14, <1>15,
       <1>16, <1>17, <1>18 DEF Next, Loop, Emit, Repair, Feed, Task

(* The budget is as many turns as cycles. *)
LEMMA BudgetInit == Init => BudgetInv
<1> SUFFICES ASSUME Init PROVE BudgetInv
    OBVIOUS
<1>1. call \in Calls
    BY RepairBounds DEF Init
<1>2. turns = MaxCycles /\ budgetOut = FALSE /\ pc = "emit"
    BY DEF Init
<1>3. turns \in -1..MaxCycles /\ turns >= 1
    BY <1>2, RepairBounds
<1> QED
    BY <1>1, <1>2, <1>3 DEF BudgetInv, BudgetTypeOK, Calls

(* The turns of the LLM overdraw their budget by one at most, however the calls    *)
(* are divided over the cycles (repair_loop.py:run_structured_repair,              *)
(* orchestrator.py:_repair_or_route).                                              *)
THEOREM Overdrawn == Spec => []TurnsOverdrawnByOne
<1>1. Init => GraphInv /\ BudgetInv
    BY GraphInit, BudgetInit
<1>2. GraphInv /\ BudgetInv /\ [Next]_vars => (GraphInv /\ BudgetInv)'
    BY GraphStep, BudgetStep DEF GraphInv
<1>3. BudgetInv => TurnsOverdrawnByOne
    BY BoundAssumption DEF BudgetInv, BudgetTypeOK, TurnsOverdrawnByOne, BoundAssumption
<1> QED
    BY <1>1, <1>2, <1>3, PTL DEF Spec

-----------------------------------------------------------------------------
(* The last samples after one more: it comes last, and one at most falls out. *)
LEMMA OneMoreSample ==
    ASSUME NEW s \in Seq(Outcome), Len(s) <= NoProgressCycles, NEW x \in Outcome
    PROVE  LET r == LastOf(Append(s, x))
               d == Len(s) + 1 - Len(r)
           IN  /\ r \in Seq(Outcome)
               /\ Len(r) = IF Len(s) < NoProgressCycles THEN Len(s) + 1 ELSE NoProgressCycles
               /\ r[Len(r)] = x
               /\ \A i \in 1..(Len(r) - 1) : r[i] = s[i + d]
<1> DEFINE a == Append(s, x)
<1>1. NoProgressCycles \in Nat \ {0} /\ Len(s) \in Nat
    BY BoundAssumption DEF BoundAssumption
<1>2. /\ a \in Seq(Outcome) /\ Len(a) = Len(s) + 1 /\ a[Len(s) + 1] = x
      /\ \A i \in 1..Len(s) : a[i] = s[i]
    OBVIOUS
<1>3. CASE Len(s) < NoProgressCycles
    <2>1. LastOf(a) = a
        BY <1>1, <1>2, <1>3 DEF LastOf
    <2> QED
        BY <1>1, <1>2, <1>3, <2>1
<1>4. CASE Len(s) = NoProgressCycles
    <2>1. LastOf(a) = SubSeq(a, 2, Len(s) + 1)
        BY <1>1, <1>2, <1>4 DEF LastOf
    <2>2. /\ LastOf(a) \in Seq(Outcome) /\ Len(LastOf(a)) = Len(s)
          /\ \A i \in 1..Len(s) : LastOf(a)[i] = a[i + 1]
        BY <1>1, <1>2, <1>4, <2>1
    <2> QED
        BY <1>1, <1>2, <1>4, <2>2
<1> QED
    BY <1>1, <1>3, <1>4

(* The counter is the length of the run of the last signature at the end of the   *)
(* samples, when that signature is a failure.                                     *)
StallInv ==
    /\ samples \in Seq(Outcome) /\ Len(samples) <= NoProgressCycles
    /\ prevSig \in Outcome \cup {"none"} /\ (prevSig = "none" => samples = <<>>)
    /\ samples # <<>> => samples[Len(samples)] = prevSig
    /\ stall \in Nat /\ stall <= Len(samples)
    /\ stall = 0 <=> prevSig \in {"none", "pass"}
    /\ \A i \in 1..Len(samples) : i > Len(samples) - stall => samples[i] = prevSig
    /\ 0 < stall /\ stall < Len(samples) => samples[Len(samples) - stall] # prevSig

(* next_stall() keeps it so. *)
LEMMA StallCounts ==
    ASSUME StallInv, stall < NoProgressCycles, NEW sig \in Outcome, prevSig' = sig,
           stall' = NextStall(prevSig, sig, stall), samples' = LastOf(Append(samples, sig))
    PROVE  StallInv'
<1> DEFINE L == Len(samples)
           M == Len(samples')
           d == L + 1 - M
<1>1. NoProgressCycles \in Nat \ {0} /\ "none" \notin Outcome
    BY BoundAssumption, NodeAssumption DEF BoundAssumption, NodeAssumption, Outcome
<1>2. /\ samples \in Seq(Outcome) /\ L \in Nat /\ L <= NoProgressCycles
      /\ stall \in Nat /\ stall <= L
    BY DEF StallInv
<1>3. /\ samples' \in Seq(Outcome) /\ M = IF L < NoProgressCycles THEN L + 1 ELSE NoProgressCycles
      /\ samples'[M] = sig /\ \A i \in 1..(M - 1) : samples'[i] = samples[i + d]
    BY <1>2, OneMoreSample
<1>4. M \in Nat /\ M >= 1 /\ M <= NoProgressCycles /\ d \in {0, 1} /\ samples' # <<>>
    BY <1>1, <1>2, <1>3
<1>5. CASE sig = "pass"
    <2>1. stall' = 0
        BY <1>5 DEF NextStall
    <2> QED
        BY <1>1, <1>3, <1>4, <1>5, <2>1 DEF StallInv
<1>6. CASE sig # "pass" /\ sig = prevSig
    <2>1. stall' = stall + 1 /\ stall >= 1
        BY <1>1, <1>2, <1>6 DEF NextStall, StallInv
    <2>2. stall' \in Nat /\ stall' <= M
        BY <1>2, <1>3, <1>4, <2>1
    <2>3. ASSUME NEW i \in 1..M, i > M - stall' PROVE samples'[i] = sig
        <3>1. CASE i = M
            BY <1>3, <3>1
        <3>2. CASE i # M
            <4>1. i \in 1..(M - 1) /\ i + d \in 1..L /\ i + d > L - stall
                BY <1>2, <1>4, <2>1, <2>3, <3>2
            <4> QED
                BY <1>3, <1>6, <4>1 DEF StallInv
        <3> QED
            BY <3>1, <3>2
    <2>4. ASSUME stall' < M PROVE samples'[M - stall'] # sig
        <3>1. M - stall' \in 1..(M - 1) /\ (M - stall') + d = L - stall /\ stall < L
            BY <1>2, <1>4, <2>1, <2>4
        <3> QED
            BY <1>2, <1>3, <1>6, <2>1, <3>1 DEF StallInv
    <2> QED
        BY <1>1, <1>3, <1>4, <1>6, <2>1, <2>2, <2>3, <2>4 DEF StallInv
<1>7. CASE sig # "pass" /\ sig # prevSig
    <2>1. stall' = 1
        BY <1>7 DEF NextStall
    <2>2. ASSUME stall' < M PROVE samples'[M - stall'] # sig
        <3>1. M - 1 \in 1..(M - 1) /\ (M - 1) + d = L /\ samples # <<>>
            BY <1>2, <1>4, <2>1, <2>2
        <3> QED
            BY <1>3, <1>7, <2>1, <3>1 DEF StallInv
    <2>3. ASSUME NEW i \in 1..M, i > M - stall' PROVE samples'[i] = sig
        BY <1>3, <1>4, <2>1, <2>3
    <2> QED
        BY <1>1, <1>3, <1>4, <1>7, <2>1, <2>2, <2>3 DEF StallInv
<1> QED
    BY <1>5, <1>6, <1>7

(* At its limit, and only there, the last samples are one and the same failure. *)
LEMMA StallIsAlike == StallInv => (Alike <=> stall >= NoProgressCycles)
<1> SUFFICES ASSUME StallInv PROVE Alike <=> stall >= NoProgressCycles
    OBVIOUS
<1>1. NoProgressCycles \in Nat \ {0} /\ "none" \notin Outcome
    BY BoundAssumption, NodeAssumption DEF BoundAssumption, NodeAssumption, Outcome
<1>2. /\ samples \in Seq(Outcome) /\ Len(samples) \in Nat /\ Len(samples) <= NoProgressCycles
      /\ stall \in Nat /\ stall <= Len(samples)
    BY DEF StallInv
<1>3. ASSUME Alike PROVE stall >= NoProgressCycles
    <2>1. samples # <<>> /\ Len(samples) = NoProgressCycles
        BY <1>1, <1>2, <1>3 DEF Alike
    <2>2. samples[Len(samples)] = prevSig /\ samples[Len(samples)] = samples[1]
        BY <1>1, <1>3, <2>1 DEF Alike, StallInv
    <2>3. prevSig # "pass" /\ prevSig # "none" /\ stall > 0
        BY <1>1, <1>2, <1>3, <2>1, <2>2 DEF Alike, StallInv
    <2>4. ASSUME stall < NoProgressCycles PROVE FALSE
        <3>1. Len(samples) - stall \in 1..NoProgressCycles
            BY <1>1, <1>2, <2>1, <2>3, <2>4
        <3> QED
            BY <1>3, <2>1, <2>2, <2>3, <2>4, <3>1 DEF Alike, StallInv
    <2> QED
        BY <1>1, <1>2, <2>4
<1>4. ASSUME stall >= NoProgressCycles PROVE Alike
    <2>1. Len(samples) = NoProgressCycles /\ stall = NoProgressCycles
        BY <1>1, <1>2, <1>4
    <2>2. \A i \in 1..NoProgressCycles : samples[i] = prevSig
        BY <1>1, <2>1 DEF StallInv
    <2>3. prevSig # "pass"
        BY <1>1, <2>1 DEF StallInv
    <2> QED
        BY <1>1, <2>1, <2>2, <2>3 DEF Alike
<1> QED
    BY <1>3, <1>4

(* The counter reaches its limit in the step that gives up, and in no other. *)
GateInv ==
    /\ StallInv
    /\ replay \in {"none", "ok", "failed"} /\ ran \in Outcome \cup {"none"}
    /\ pc # "stopped" => stall < NoProgressCycles
    /\ stop = "giveup_no_progress" <=> stall >= NoProgressCycles

(* One sample of the gate a cycle moves the counter, and nothing else does. *)
LEMMA GateStep == DoorInv /\ GateInv /\ [Next]_vars => GateInv'
<1> SUFFICES ASSUME DoorInv, GateInv, [Next]_vars PROVE GateInv'
    OBVIOUS
<1>0. pc # "stopped" => stop = "none"
    BY DEF DoorInv
<1>1. ASSUME UNCHANGED <<prevSig, stall, samples>>, pc # "stopped",
             replay' \in {replay, "ok", "failed"}, ran' \in Outcome \cup {ran, "none"},
             stop' # "giveup_no_progress"
      PROVE  GateInv'
    <2>1. stall < NoProgressCycles /\ stall \in Nat /\ NoProgressCycles \in Nat
        BY <1>1, BoundAssumption DEF GateInv, StallInv, BoundAssumption
    <2>2. StallInv'
        BY <1>1 DEF GateInv, StallInv
    <2>3. ~(stall' >= NoProgressCycles) /\ stall' < NoProgressCycles
        BY <1>1, <2>1
    <2> QED
        BY <1>1, <2>2, <2>3 DEF GateInv
<1>2. CASE DepEmit \/ ReplayObligation
    <2>1. replay' \in {"ok", "failed"} /\ ran' = "none" /\ stop' = stop /\ pc # "stopped"
        BY <1>2 DEF DepEmit, ReplayObligation, Replay
    <2> QED
        BY <1>0, <1>1, <1>2, <2>1 DEF DepEmit, ReplayObligation, counters
<1>3. CASE NoGraphToEmit \/ RepairStops \/ RepairRejected \/ NothingToIngest \/ Ingest
    <2>1. ran' = ran /\ replay' = replay
        BY <1>3 DEF NoGraphToEmit, RepairStops, RepairRejected, NothingToIngest, Ingest,
                    container, replayed, tested
    <2>2. UNCHANGED <<prevSig, stall, samples, stop>> /\ pc # "stopped"
        BY <1>3 DEF NoGraphToEmit, RepairStops, RepairRejected, Proposing, NothingToIngest,
                    Ingest, counters
    <2> QED
        BY <1>0, <1>1, <2>1, <2>2
<1>4. CASE RepairAdmitted
    <2>1. replay' \in {"ok", "failed"} /\ ran' = "none" /\ stop' = stop /\ pc # "stopped"
        BY <1>4 DEF RepairAdmitted, Replay, Proposing
    <2> QED
        BY <1>0, <1>1, <1>4, <2>1 DEF RepairAdmitted, counters
<1>5. CASE Recertify \/ GiveUpResidual
    <2>1. ran' \in Outcome \cup {ran} /\ replay' = replay /\ pc # "stopped"
        BY <1>5 DEF Recertify, GiveUpResidual, Finish, Verify, RunTests, container, replayed,
                    tested
    <2>2. stop' # "giveup_no_progress"
        BY <1>0, <1>5 DEF Recertify, GiveUpResidual, Finish
    <2> QED
        BY <1>1, <1>5, <2>1, <2>2 DEF Recertify, GiveUpResidual, counters
<1>6. CASE Raises
    BY <1>1, <1>6 DEF Raises, counters, container, replayed, tested
<1>7. CASE HandOut \/ RepairObligation
    BY <1>0, <1>1, <1>7 DEF HandOut, RepairObligation, counters, container, replayed, tested
<1>8. CASE SchedulerDone \/ DiscoverGate
    <2>1. ran' \in Outcome \cup {ran}
        BY <1>8 DEF SchedulerDone, DiscoverGate, Verify, RunTests, tested, Outcome
    <2> QED
        BY <1>0, <1>1, <1>8, <2>1 DEF SchedulerDone, DiscoverGate, counters, replayed
<1>9. CASE Discover
    <2>1. ran' \in Outcome \cup {ran}
        BY <1>9 DEF Discover, Verify, RunTests, tested
    <2>2. stop' # "giveup_no_progress"
        BY <1>0, <1>9 DEF Discover, Finish
    <2> QED
        BY <1>1, <1>9, <2>1, <2>2 DEF Discover, replayed
<1>10. CASE SampleGate
    <2>1. PICK sig \in Outcome :
             /\ Verify(sig)
             /\ stall' = NextStall(prevSig, sig, stall)
             /\ prevSig' = sig /\ samples' = LastOf(Append(samples, sig))
             /\ IF sig = "pass" /\ decision # "done" /\ Pending = {}
                THEN FinalizeIfReplayed("planner_done")
                ELSE IF stall' >= NoProgressCycles THEN Finish("giveup_no_progress")
                ELSE IF decision = "done" THEN FinalizeIfReplayed("planner_done")
                ELSE pc' = "task" /\ UNCHANGED stop
        BY <1>10 DEF SampleGate
    <2>2. pc = "gate" /\ replay' = replay /\ stall < NoProgressCycles
        BY <1>10 DEF SampleGate, GateInv, replayed
    <2>3. StallInv'
        BY <2>1, <2>2, StallCounts DEF GateInv
    <2>4. ran' \in Outcome \cup {ran}
        BY <2>1 DEF Verify, RunTests, tested
    <2>5. sig = "pass" => ~(stall' >= NoProgressCycles)
        BY <2>1, BoundAssumption DEF NextStall, BoundAssumption
    <2>6. /\ stop' = "giveup_no_progress" <=> stall' >= NoProgressCycles
          /\ stall' >= NoProgressCycles => pc' = "stopped"
        BY <1>0, <2>1, <2>2, <2>5 DEF FinalizeIfReplayed, Finish
    <2>7. stall' \in Nat /\ (~(stall' >= NoProgressCycles) => stall' < NoProgressCycles)
        BY <2>3, BoundAssumption DEF StallInv, BoundAssumption
    <2> QED
        BY <2>2, <2>3, <2>4, <2>6, <2>7 DEF GateInv
<1>11. CASE WrapUp
    <2>1. ran' \in Outcome \cup {ran} /\ replay' = replay
        BY <1>11 DEF WrapUp, FinalizeIfReplayed, Finish, Verify, RunTests, replayed, tested
    <2>2. stop' # "giveup_no_progress" /\ pc # "stopped"
        BY <1>0, <1>11 DEF WrapUp, FinalizeIfReplayed, Finish
    <2> QED
        BY <1>1, <1>11, <2>1, <2>2 DEF WrapUp
<1>12. CASE UNCHANGED vars \/ Stopped
    BY <1>12 DEF Stopped, vars, counters, container, replayed, tested, GateInv, StallInv
<1> QED
    BY <1>2, <1>3, <1>4, <1>5, <1>6, <1>7, <1>8, <1>9, <1>10, <1>11, <1>12
    DEF Next, Loop, Emit, Repair, Feed, Decide, Task

(* No sample has been taken yet. *)
LEMMA GateInit == Init => GateInv
<1> SUFFICES ASSUME Init PROVE GateInv
    OBVIOUS
<1>1. samples = <<>> /\ stall = 0 /\ prevSig = "none" /\ 0 < NoProgressCycles
    BY BoundAssumption DEF Init, BoundAssumption
<1>2. StallInv
    BY <1>1, BoundAssumption DEF StallInv, BoundAssumption
<1> QED
    BY <1>1, <1>2, BoundAssumption DEF Init, GateInv, BoundAssumption

(* The no-progress door strikes exactly when the last samples of the gate are one *)
(* and the same failure, and then at once (gate_signature.py:next_stall,           *)
(* orchestrator.py:1c).                                                            *)
THEOREM NoProgress == Spec => []NoProgressExactly
<1>1. Init => DoorInv /\ DoorProperties /\ GateInv
    BY DoorInit, GateInit
<1>2. DoorInv /\ DoorProperties /\ GateInv /\ [Next]_vars
         => (DoorInv /\ DoorProperties /\ GateInv)'
    BY DoorStep, GateStep, BoundAssumption
<1>3. GateInv => NoProgressExactly
    BY StallIsAlike DEF GateInv, NoProgressExactly
<1> QED
    BY <1>1, <1>2, <1>3, PTL DEF Spec

-----------------------------------------------------------------------------
(* Every counter starts below its cap. *)
LEMMA ControlInit == Init => SchedulerInv /\ ControlInv
<1> SUFFICES ASSUME Init PROVE SchedulerInv /\ ControlInv
    OBVIOUS
<1>1. /\ MaxCycles \in Nat \ {0} /\ AttemptCap \in Nat \ {0} /\ ResidualCycles \in Nat \ {0}
      /\ Cardinality(Node) \in Nat
    BY NodeAssumption, BoundAssumption, FS_CardinalityType DEF NodeAssumption, BoundAssumption
<1>2. SchedulerInv
    <2>1. /\ handed \in [Node -> 0..AttemptCap] /\ residual \subseteq Node /\ decision = None
          /\ stuck \in 0..2 /\ stuck < 2
        BY <1>1 DEF Init
    <2>2. lastNodes \in -1..Cardinality(Node)
        BY <1>1 DEF Init
    <2> QED
        BY <2>1, <2>2 DEF SchedulerInv, SchedulerTypeOK
<1>3. ControlInv
    <2>1. cycle \in 1..MaxCycles /\ resStall \in 0..ResidualCycles /\ resStall < ResidualCycles
        BY <1>1 DEF Init
    <2>2. /\ pc = "emit" /\ stop = "none"
          /\ hasGraph \in BOOLEAN /\ unread \in BOOLEAN /\ report \in BOOLEAN
          /\ hadResidual \in BOOLEAN /\ hadRepair \in BOOLEAN
        BY DEF Init
    <2> QED
        BY <2>1, <2>2 DEF ControlInv, ControlTypeOK
<1> QED
    BY <1>2, <1>3

(* Every variable of the loop keeps its type, the counters within the caps that   *)
(* stop the run.                                                                  *)
THEOREM TypeCorrect == Spec => []TypeOK
<1> DEFINE Inv == /\ GraphInv /\ ScriptInv /\ DoorInv /\ DoorProperties /\ GateInv
                  /\ SchedulerInv /\ ControlInv /\ BudgetInv
<1>1. Init => Inv
    BY DoorInit, GraphInit, ScriptInit, GateInit, ControlInit, BudgetInit
<1>2. Inv /\ [Next]_vars => Inv'
    BY GraphStep, ScriptStep, DoorStep, GateStep, SchedulerStep, ControlStep, BudgetStep,
       BoundAssumption
    DEF GraphInv
<1>3. Inv => TypeOK
    <2> SUFFICES ASSUME Inv PROVE TypeOK
        OBVIOUS
    <2>1. GateTypeOK
        BY BoundAssumption
        DEF GraphInv, ScriptInv, GateInv, StallInv, DoorInv, MemoInv, GateTypeOK, BoundAssumption
    <2> QED
        BY <2>1 DEF TypeOK, GraphInv, SchedulerInv, ControlInv, BudgetInv
<1> QED
    BY <1>1, <1>2, <1>3, PTL DEF Spec

-----------------------------------------------------------------------------
(* The steps left are a number: a cycle that is under way has not used up its own. *)
FuelFacts ==
    /\ pc \in {"emit", "repair", "recert", "ingest", "giveup", "decide", "gate", "task", "wrap",
               "stopped"}
    /\ cycle \in 1..MaxCycles
    /\ call \in Calls
    /\ pc = "repair" => call.site # "none"

LEMMA FuelTyped ==
    ASSUME ControlInv, BudgetInv
    PROVE  FuelFacts
<1>1. call \in Calls
    BY BudgetFacts
<1> QED
    BY <1>1 DEF FuelFacts, BudgetInv, ControlInv, ControlTypeOK

(* The call a repair is about. *)
LEMMA CallFacts ==
    ASSUME FuelFacts
    PROVE  /\ call.attempt \in 0..MaxRepairs
           /\ pc = "repair" => call.site \in {"emit", "task"}
BY DEF FuelFacts, Calls

(* What is left of a cycle is something, unless it is the last and over, and what   *)
(* is left of the run never less than that.                                         *)
FuelBounded ==
    /\ LeftOfCycle \in 0..CycleSteps
    /\ pc # "stopped" => LeftOfCycle >= 1
    /\ (MaxCycles - cycle) * CycleSteps \in Nat
    /\ StepsLeft \in Nat

LEMMA FuelBounds == FuelFacts => FuelBounded
<1> SUFFICES ASSUME FuelFacts PROVE FuelBounded
    OBVIOUS
<1>1. MaxCycles \in Nat \ {0} /\ MaxRepairs \in Nat \ {0}
    BY RepairBounds
<1>2. CycleSteps \in Nat /\ CycleSteps = 2 * MaxRepairs + 9
    BY <1>1 DEF CycleSteps
<1>3. call.attempt \in 0..MaxRepairs /\ MaxRepairs - call.attempt \in 0..MaxRepairs
    BY <1>1, CallFacts
<1>4. LeftOfCycle \in 0..CycleSteps /\ (pc # "stopped" => LeftOfCycle >= 1)
    BY <1>1, <1>2, <1>3 DEF FuelFacts, LeftOfCycle
<1>5. cycle \in Nat /\ MaxCycles - cycle \in Nat
    BY <1>1 DEF FuelFacts
<1>6. (MaxCycles - cycle) * CycleSteps \in Nat
    BY <1>2, <1>5
<1> QED
    BY <1>1, <1>2, <1>4, <1>5, <1>6 DEF StepsLeft, FuelBounded

(* Within a cycle it is what is left of the cycle that shrinks. *)
LEMMA CycleShrinks ==
    ASSUME FuelFacts, FuelFacts', pc # "stopped", cycle' = cycle,
           LeftOfCycle' < LeftOfCycle
    PROVE  StepsLeft' \in 0..(StepsLeft - 1)
<1>1. /\ StepsLeft = (MaxCycles - cycle) * CycleSteps + LeftOfCycle
      /\ (MaxCycles - cycle) * CycleSteps \in Nat /\ LeftOfCycle \in Nat /\ StepsLeft \in Nat
    BY FuelBounds, RepairBounds DEF StepsLeft, FuelBounded, CycleSteps
<1>2. StepsLeft' \in Nat /\ LeftOfCycle' \in Nat
    <2>1. FuelBounded'
        BY FuelBounds, PTL
    <2> QED
        BY <2>1, RepairBounds DEF FuelBounded, CycleSteps
<1>3. StepsLeft' = 0 \/ StepsLeft' = (MaxCycles - cycle) * CycleSteps + LeftOfCycle'
    BY DEF StepsLeft, CycleSteps
<1>4. LeftOfCycle >= 1
    BY FuelBounds DEF FuelBounded
<1> QED
    BY <1>1, <1>2, <1>3, <1>4

(* What is left of a cycle, place by place. *)
LEMMA LeftAt ==
    /\ pc = "emit" => LeftOfCycle = 2 * MaxRepairs + 9
    /\ pc = "repair" /\ call.site = "emit"
          => LeftOfCycle = MaxRepairs - call.attempt + (MaxRepairs + 8)
    /\ pc = "repair" /\ call.site = "task" => LeftOfCycle = MaxRepairs - call.attempt + 2
    /\ pc = "recert" => LeftOfCycle = MaxRepairs + 7
    /\ pc = "ingest" => LeftOfCycle = MaxRepairs + 6
    /\ pc = "giveup" => LeftOfCycle = 1
    /\ pc = "decide" => LeftOfCycle = MaxRepairs + 5
    /\ pc = "gate" => LeftOfCycle = MaxRepairs + 4
    /\ pc = "task" => LeftOfCycle = MaxRepairs + 3
    /\ pc = "wrap" => LeftOfCycle = 1
    /\ pc = "stopped" => LeftOfCycle = 0
BY DEF LeftOfCycle, CycleSteps

(* A diagnosis leads to a repair with no attempt made yet, or back into the cycle. *)
LEMMA RouteLeads ==
    ASSUME NEW site, NEW id, NEW hasOutput, Route(site, id, hasOutput)
    PROVE  \/ pc' = After(site)
           \/ pc' = "repair" /\ call'.site = site /\ call'.attempt = 0
BY DEF Route

(* A repair that ends goes back to where it was called from. *)
LEMMA RepairEnds ==
    ASSUME FuelFacts, FuelFacts', pc = "repair", pc' = After(call.site)
    PROVE  LeftOfCycle' < LeftOfCycle
<1>1. MaxRepairs \in Nat /\ call.attempt \in 0..MaxRepairs /\ call.site \in {"emit", "task"}
    BY RepairBounds, CallFacts
<1>2. CASE call.site = "emit"
    <2>1. LeftOfCycle = MaxRepairs - call.attempt + (MaxRepairs + 8)
        BY <1>2, LeftAt
    <2>2. LeftOfCycle' = MaxRepairs + 7
        BY <1>2 DEF After, LeftOfCycle
    <2> QED
        BY <1>1, <2>1, <2>2
<1>3. CASE call.site = "task"
    <2>1. LeftOfCycle = MaxRepairs - call.attempt + 2
        BY <1>3, LeftAt
    <2>2. pc' = "wrap"
        BY <1>3 DEF After
    <2>3. LeftOfCycle' = 1
        BY <2>2 DEF LeftOfCycle
    <2> QED
        BY <1>1, <2>1, <2>3
<1> QED
    BY <1>1, <1>2, <1>3

(* An admitted proposal ends its repair or uses up one of its attempts. *)
LEMMA AdmittedEnds ==
    ASSUME FuelFacts, RepairAdmitted
    PROVE  \/ pc' = After(call.site)
           \/ pc' = pc /\ call'.site = call.site /\ call'.attempt = call.attempt + 1
<1>1. PICK proposals, rc, id :
         proposals \in 1..2 /\ id \in FailingIds(rc, node', recipes') /\
         \/ EndRepair(call.spent + proposals, FALSE)
         \/ /\ call' = [call EXCEPT !.id = id, !.attempt = @ + 1, !.spent = @ + proposals]
            /\ UNCHANGED <<pc, budget>>
    BY ZenonT(60) DEF RepairAdmitted
<1>2. CASE EndRepair(call.spent + proposals, FALSE)
    BY <1>2 DEF EndRepair
<1>3. CASE /\ call' = [call EXCEPT !.id = id, !.attempt = @ + 1, !.spent = @ + proposals]
           /\ UNCHANGED <<pc, budget>>
    BY <1>3 DEF FuelFacts, Calls
<1> QED
    BY <1>1, <1>2, <1>3

(* Every step of a run that has not ended leaves less to do: one action, one place. *)
LEMMA EveryStepShrinks ==
    ASSUME FuelFacts, FuelFacts', Next, pc # "stopped"
    PROVE  StepsLeft' \in 0..(StepsLeft - 1)
<1>0. /\ MaxRepairs \in Nat /\ MaxCycles \in Nat
      /\ call.attempt \in 0..MaxRepairs /\ call'.attempt \in 0..MaxRepairs
      /\ pc = "repair" => call.site \in {"emit", "task"}
    BY RepairBounds, CallFacts DEF FuelFacts, Calls
<1>1. /\ pc' = "repair" /\ call'.site = "emit"
            => LeftOfCycle' = MaxRepairs - call'.attempt + (MaxRepairs + 8)
      /\ pc' = "repair" /\ call'.site = "task" => LeftOfCycle' = MaxRepairs - call'.attempt + 2
      /\ pc' = "recert" => LeftOfCycle' = MaxRepairs + 7
      /\ pc' = "ingest" => LeftOfCycle' = MaxRepairs + 6
      /\ pc' = "giveup" => LeftOfCycle' = 1
      /\ pc' = "decide" => LeftOfCycle' = MaxRepairs + 5
      /\ pc' = "gate" => LeftOfCycle' = MaxRepairs + 4
      /\ pc' = "task" => LeftOfCycle' = MaxRepairs + 3
      /\ pc' = "wrap" => LeftOfCycle' = 1
    BY DEF LeftOfCycle
<1>2. ASSUME pc' = "stopped" PROVE StepsLeft' \in 0..(StepsLeft - 1)
    <2>1. StepsLeft' = 0
        BY <1>2 DEF StepsLeft
    <2>2. /\ StepsLeft = (MaxCycles - cycle) * CycleSteps + LeftOfCycle
          /\ (MaxCycles - cycle) * CycleSteps \in Nat
          /\ LeftOfCycle \in Nat /\ LeftOfCycle >= 1
        BY <1>0, FuelBounds DEF StepsLeft, FuelBounded, CycleSteps
    <2> QED
        BY <2>1, <2>2
<1>3. CASE DepEmit
    <2>1. pc = "emit" /\ cycle' = cycle
        BY <1>3 DEF DepEmit
    <2>2. \/ pc' \in {"ingest", "recert"}
          \/ pc' = "repair" /\ call'.site = "emit" /\ call'.attempt = 0
        <3>1. \/ pc' \in {"ingest", "recert"}
              \/ \E id, hasOutput : Route("emit", id, hasOutput)
            BY <1>3 DEF DepEmit
        <3> QED
            BY <3>1, RouteLeads DEF After
    <2>3. LeftOfCycle = 2 * MaxRepairs + 9
        BY <2>1, LeftAt
    <2>4. LeftOfCycle' < LeftOfCycle
        BY <1>0, <1>1, <2>2, <2>3
    <2> QED
        BY <2>1, <2>4, CycleShrinks
<1>4. CASE NoGraphToEmit
    BY <1>0, <1>1, <1>4, LeftAt, CycleShrinks DEF NoGraphToEmit
<1>5. CASE Recertify
    <2>1. pc = "recert" /\ cycle' = cycle /\ pc' \in {"ingest", "stopped"}
        BY <1>5 DEF Recertify, Finish
    <2> QED
        BY <1>0, <1>1, <1>2, <2>1, LeftAt, CycleShrinks
<1>6. CASE RepairStops \/ RepairRejected
    <2>1. pc = "repair" /\ cycle' = cycle /\ pc' = After(call.site)
        BY <1>6 DEF RepairStops, RepairRejected, Proposing, EndRepair
    <2> QED
        BY <2>1, RepairEnds, CycleShrinks
<1>7. CASE RepairAdmitted
    <2>1. pc = "repair" /\ cycle' = cycle /\ call.attempt < MaxRepairs
        BY <1>7 DEF RepairAdmitted, Proposing
    <2>2. CASE pc' = After(call.site)
        BY <2>1, <2>2, RepairEnds, CycleShrinks
    <2>3. CASE pc' = pc /\ call'.site = call.site /\ call'.attempt = call.attempt + 1
        <3>1. LeftOfCycle' < LeftOfCycle
            BY <1>0, <1>1, <2>1, <2>3, LeftAt
        <3> QED
            BY <2>1, <3>1, CycleShrinks
    <2> QED
        BY <1>7, <2>2, <2>3, AdmittedEnds
<1>8. CASE NothingToIngest
    BY <1>0, <1>1, <1>8, LeftAt, CycleShrinks DEF NothingToIngest
<1>9. CASE Ingest
    <2>1. pc = "ingest" /\ cycle' = cycle /\ pc' \in {"decide", "giveup"}
        BY <1>9 DEF Ingest
    <2> QED
        BY <1>0, <1>1, <1>2, <2>1, LeftAt, CycleShrinks
<1>10. CASE Decide
    <2>1. pc = "decide" /\ cycle' = cycle /\ pc' \in {"gate", "stopped"}
        BY <1>10 DEF Decide, HandOut, SchedulerDone, Discover, Finish
    <2> QED
        BY <1>0, <1>1, <1>2, <2>1, LeftAt, CycleShrinks
<1>11. CASE SampleGate
    <2>1. pc = "gate" /\ cycle' = cycle /\ pc' \in {"task", "stopped"}
        BY <1>11 DEF SampleGate, FinalizeIfReplayed, Finish
    <2> QED
        BY <1>0, <1>1, <1>2, <2>1, LeftAt, CycleShrinks
<1>12. CASE Task
    <2>1. pc = "task" /\ cycle' = cycle
        BY <1>12 DEF Task, DiscoverGate, RepairObligation, ReplayObligation
    <2>2. pc' = "wrap" \/ \E id, hasOutput : Route("task", id, hasOutput)
        BY <1>12 DEF Task, DiscoverGate, RepairObligation, ReplayObligation
    <2>3. \/ pc' = "wrap"
          \/ pc' = "repair" /\ call'.site = "task" /\ call'.attempt = 0
        BY <2>2, RouteLeads DEF After
    <2>4. LeftOfCycle' < LeftOfCycle
        BY <1>0, <1>1, <2>1, <2>3, LeftAt
    <2> QED
        BY <2>1, <2>4, CycleShrinks
<1>13. CASE WrapUp
    <2>1. pc = "wrap" /\ (pc' = "stopped" \/ (pc' = "emit" /\ cycle' = cycle + 1))
        BY <1>13 DEF WrapUp, FinalizeIfReplayed, Finish
    <2>2. CASE pc' = "emit" /\ cycle' = cycle + 1
        <3>1. StepsLeft = (MaxCycles - cycle) * CycleSteps + 1 /\ StepsLeft \in Nat
            BY <2>1, LeftAt, FuelBounds DEF StepsLeft, FuelBounded
        <3>2. StepsLeft' = (MaxCycles - (cycle + 1)) * CycleSteps + CycleSteps
            BY <2>2 DEF StepsLeft, LeftOfCycle, CycleSteps
        <3>3. /\ CycleSteps \in Nat /\ cycle \in Nat /\ cycle' \in 1..MaxCycles
              /\ StepsLeft' \in Nat
            <4>1. FuelBounded'
                BY FuelBounds, PTL
            <4> QED
                BY <1>0, <4>1 DEF FuelFacts, FuelBounded, CycleSteps
        <3>4. (MaxCycles - (cycle + 1)) * CycleSteps + CycleSteps = (MaxCycles - cycle) * CycleSteps
            BY <1>0, <3>3
        <3> QED
            BY <3>1, <3>2, <3>3, <3>4
    <2> QED
        BY <1>2, <2>1, <2>2
<1>14. CASE Raises \/ GiveUpResidual
    BY <1>2, <1>14 DEF Raises, GiveUpResidual, Finish
<1> QED
    BY <1>3, <1>4, <1>5, <1>6, <1>7, <1>8, <1>9, <1>10, <1>11, <1>12, <1>13, <1>14
    DEF Next, Loop, Emit, Repair, Feed, Stopped

(* No proposal, diagnosis or hand-out makes the loop go in circles: each step it    *)
(* takes uses up one of the at most MaxCycles * CycleSteps it starts with           *)
(* (orchestrator.py:run_v3, repair_loop.py:run_structured_repair).                  *)
THEOREM NoCircles == Spec => NeverInCircles
<1> DEFINE Inv == GraphInv /\ SchedulerInv /\ ControlInv /\ BudgetInv
           Shrinks == pc # "stopped" => StepsLeft' \in 0..(StepsLeft - 1)
<1>1. Init => Inv
    BY GraphInit, ControlInit, BudgetInit
<1>2. Inv /\ [Next]_vars => Inv'
    BY GraphStep, SchedulerStep, ControlStep, BudgetStep DEF GraphInv
<1>3. Inv => FuelFacts
    BY FuelTyped
<1>4. FuelFacts /\ FuelFacts' /\ [Next]_vars => [Shrinks]_vars
    BY EveryStepShrinks
<1> QED
    BY <1>1, <1>2, <1>3, <1>4, PTL DEF Spec, NeverInCircles

=============================================================================
