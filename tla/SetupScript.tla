----------------------------- MODULE SetupScript -----------------------------
(***************************************************************************)
(* The script run_v3 renders from its graph, replays and reads the failure   *)
(* of: render_build_script() with topo_order(), run_install_script() with    *)
(* its ERR trap, and localize_install_failure(), which says what is repaired. *)
(* One cycle over any graph.  V3Loop takes the outcome of all this as given. *)
(*                                                                          *)
(* The text of the script is a sequence of items, each with its header (the  *)
(* line that names a node or block) and the lines below.  Of their text only *)
(* which reports of the trap are found in it matters: Reports[i] is what the *)
(* trap may report when item i fails, Holds[i] what the search finds in the   *)
(* lines of item i.  Banner, section titles and #@need stubs have no header. *)
(*                                                                          *)
(* Bounds: none; the sets are the instance.                                 *)
(***************************************************************************)
EXTENDS Naturals, Sequences

CONSTANTS
    Node,       \* nodes with a recipe
    Package,    \* those of them that are packages: only these require others
    AptNode,    \* those whose fix is an apt package
    Block,      \* manual blocks
    Rank,       \* the name of a node, as its place in the alphabet; of a block its age
    Layers,     \* number of layers, in the order of the script
    Project,    \* the repository under test
    Preamble,   \* what comes before the first header: the shim of python, pytest
    Text,       \* what the trap may report
    Refresh,    \* of it, "apt-get update"
    Reports,
    Holds

Item == Node \cup Block \cup {Project, Preamble}

ASSUME ItemAssumption ==
    /\ Package \subseteq Node /\ AptNode \subseteq Node
    /\ Node \cap Block = {}
    /\ Project \notin Node \cup Block /\ Preamble \notin Node \cup Block
    /\ Project # Preamble
ASSUME RankAssumption ==
    /\ Rank \in [Node \cup Block -> Nat]
    /\ \A b, c \in Block : Rank[b] = Rank[c] => b = c
ASSUME LayersAssumption == Layers \in Nat
ASSUME TextAssumption ==
    /\ Refresh \in Text /\ "none" \notin Text
    /\ Reports \in [Item -> SUBSET Text] /\ Holds \in [Item -> SUBSET Text]

VARIABLES
    requires,   \* requires edges among the nodes, soft ones too
    layer,      \* layer of a node, wave of a block
    editable,   \* the project declares a build system
    stage,      \* "render", "replay", "certify", "end"
    level,      \* layer being rendered
    left,       \* nodes of this layer that topo_order has not placed
    waiting,    \* blocks of this layer that are not yet in the script
    script,     \* items, each with the apt-get update that may precede its header
    aptDone,    \* that update has been written
    pos,        \* item the replay is at
    failed,     \* history: the item whose line failed, and which of its lines
    report,     \* what the trap reported
    unsat,      \* nodes whose check fails after the replay
    blamed      \* the id that is handed to the repair

graph    == <<requires, layer, editable>>
walk     == <<level, left, waiting, script, aptDone>>
replay   == <<pos, failed, report>>
verdict  == <<unsat, blamed>>
vars == <<graph, stage, walk, replay, verdict>>

NoReport  == "none"
NoFailure == [at |-> 0, part |-> "none"]
Entry     == [id : Item, update : BOOLEAN]
Start     == <<[id |-> Preamble, update |-> FALSE]>>
NodesOf(k)  == {n \in Node : layer[n] = k}
BlocksOf(k) == {b \in Block : layer[b] = k}

TypeOK ==
    /\ requires \in [Node -> SUBSET Node]
    /\ layer \in [Node \cup Block -> 1..Layers]
    /\ editable \in BOOLEAN
    /\ stage \in {"render", "replay", "certify", "end"}
    /\ level \in 0..(Layers + 1)
    /\ left \subseteq Node /\ waiting \subseteq Block
    /\ script \in Seq(Entry)
    /\ aptDone \in BOOLEAN
    /\ pos \in Nat \ {0}
    /\ failed \in [at : Nat, part : {"none", "update", "body"}]
    /\ report \in Text \cup {NoReport}
    /\ unsat \subseteq Node
    /\ blamed \in Item

(* Any graph the edge rules admit, cycles among packages and edges of a package *)
(* to itself included; a proposal may put its node in any layer.               *)
Init ==
    /\ requires \in [Node -> SUBSET Node]
    /\ \A n \in Node \ Package : requires[n] = {}
    /\ layer \in [Node \cup Block -> 1..Layers]
    /\ editable \in BOOLEAN
    /\ stage = "render"
    /\ level = 0 /\ left = {} /\ waiting = {}
    /\ script = Start /\ aptDone = FALSE
    /\ pos = 1 /\ failed = NoFailure /\ report = NoReport
    /\ unsat = {} /\ blamed = Preamble

-----------------------------------------------------------------------------
(* render_build_script() *)

(* Mutant: the walk does not stop at the last layer. *)
NextLayerUnbounded ==
    /\ stage = "render" /\ left = {} /\ waiting = {}
    /\ level' = level + 1
    /\ left' = NodesOf(level + 1)
    /\ waiting' = BlocksOf(level + 1)
    /\ UNCHANGED <<graph, stage, script, aptDone, replay, verdict>>

(* _reciped_in_layer() and the blocks of the wave of the next layer *)
NextLayer ==
    /\ stage = "render" /\ left = {} /\ waiting = {} /\ level < Layers
    /\ level' = level + 1
    /\ left' = NodesOf(level + 1)
    /\ waiting' = BlocksOf(level + 1)
    /\ UNCHANGED <<graph, stage, script, aptDone, replay, verdict>>

(* _node_block(): the first apt node brings the update, above its own header *)
Write(i, apt) ==
    /\ script' = Append(script, [id |-> i, update |-> apt /\ ~aptDone])
    /\ aptDone' = (aptDone \/ apt)

(* One turn of topo_order(): the first of the candidates by name.  Equal names   *)
(* are told apart by the order of a set.                                        *)
Place(n, candidates) ==
    /\ n \in candidates
    /\ \A m \in candidates : Rank[n] <= Rank[m]
    /\ left' = left \ {n}
    /\ Write(n, n \in AptNode)
    /\ UNCHANGED <<graph, stage, level, waiting, replay, verdict>>

Ready == {n \in left : requires[n] \cap left = {}}

(* Mutant: what is required later in the layer is not looked at. *)
PlaceByName == stage = "render" /\ \E n \in left : Place(n, left)

PlaceReady == stage = "render" /\ \E n \in Ready : Place(n, Ready)

(* A cycle: any of the rest may come. *)
PlaceInCycle == stage = "render" /\ Ready = {} /\ \E n \in left : Place(n, left)

(* Manual blocks come after the nodes of their layer, in the order of admission. *)
PlaceBlock ==
    /\ stage = "render" /\ left = {}
    /\ \E b \in waiting :
          /\ \A c \in waiting : Rank[b] <= Rank[c]
          /\ waiting' = waiting \ {b}
          /\ Write(b, FALSE)
    /\ UNCHANGED <<graph, stage, level, left, replay, verdict>>

(* The editable install of the project is last. *)
Finish ==
    /\ stage = "render" /\ left = {} /\ waiting = {} /\ level = Layers
    /\ level' = Layers + 1
    /\ stage' = "replay"
    /\ IF editable THEN Write(Project, FALSE) ELSE UNCHANGED <<script, aptDone>>
    /\ UNCHANGED <<graph, left, waiting, replay, verdict>>

Render == NextLayer \/ PlaceReady \/ PlaceInCycle \/ PlaceBlock \/ Finish

-----------------------------------------------------------------------------
(* run_install_script(): set -e, with a trap that reports the command *)

RunsThrough ==
    /\ stage = "replay" /\ pos <= Len(script)
    /\ pos' = pos + 1
    /\ UNCHANGED <<graph, stage, walk, failed, report, verdict>>

Replayed ==
    /\ stage = "replay" /\ pos > Len(script)
    /\ stage' = "certify"
    /\ UNCHANGED <<graph, walk, replay, verdict>>

(* The trap reports the command, unless the output has no such line (the *)
(* container is gone, the command itself has exited the shell).          *)
Fails(part, reports) ==
    /\ stage = "replay" /\ pos <= Len(script)
    /\ failed' = [at |-> pos, part |-> part]
    /\ report' \in reports \cup {NoReport}
    /\ stage' = "certify"
    /\ UNCHANGED <<graph, walk, pos, verdict>>

UpdateFails == pos <= Len(script) /\ script[pos].update /\ Fails("update", {Refresh})
BodyFails   == pos <= Len(script) /\ Fails("body", Reports[script[pos].id])

Run == RunsThrough \/ Replayed \/ UpdateFails \/ BodyFails

-----------------------------------------------------------------------------
(* localize_install_failure(): the first line that contains the reported command, *)
(* and the header at or above it                                                 *)

Found(k, t) == \/ script[k].update /\ t = Refresh
               \/ t \in Holds[script[k].id]

(* The update stands above the header of its item. *)
HeaderAt(k, t) ==
    IF script[k].update /\ t = Refresh THEN script[k - 1].id ELSE script[k].id

Hits(t) == {k \in 1..Len(script) : Found(k, t)}

(* Mutant: the last such line. *)
LocalizedLast(t) ==
    IF Hits(t) = {} THEN Preamble
    ELSE HeaderAt(CHOOSE k \in Hits(t) : \A j \in Hits(t) : k >= j, t)

Localized(t) ==
    IF Hits(t) = {} THEN Preamble
    ELSE HeaderAt(CHOOSE k \in Hits(t) : \A j \in Hits(t) : k <= j, t)

(* _binding_emit(): certify_reciped_only(), any checks may fail; without a node or *)
(* block for the failure the first node that is unsatisfied, if any, is handed on. *)
Blame ==
    /\ stage = "certify"
    /\ stage' = "end"
    /\ unsat' \in SUBSET Node
    /\ LET found == IF failed = NoFailure THEN Preamble ELSE Localized(report)
       IN  IF found # Preamble THEN blamed' = found
           ELSE IF unsat' = {} THEN blamed' = Preamble
           ELSE blamed' \in unsat'
    /\ UNCHANGED <<graph, walk, replay>>

Next == Render \/ Run \/ Blame

Spec == Init /\ [][Next]_vars

-----------------------------------------------------------------------------
(* A set of nodes that leads into no cycle: it is closed under requires within S, *)
(* and each part of it has a member that requires nothing of that part.           *)
Grounded(D, S) ==
    /\ D \subseteq S
    /\ \A n \in D : requires[n] \cap S \subseteq D
    /\ \A T \in SUBSET D : T # {} => \E n \in T : requires[n] \cap T = {}

SoundlyPlaced(n) ==
    \E D \in SUBSET NodesOf(layer[n]) : n \in D /\ Grounded(D, NodesOf(layer[n]))

At(j, n) == script[j].id = n

(* What a node requires is installed above it, when that belongs to no later layer  *)
(* and, within its own, the node does not lead into a cycle: the arbitrary order    *)
(* topo_order() falls back to harms nobody but the nodes behind the cycle, even     *)
(* when names put them first.                                                     *)
DependenciesFirst ==
    \A j \in 1..Len(script) : \A n \in Node : At(j, n) =>
        \A d \in requires[n] :
            \/ layer[d] > layer[n]
            \/ layer[d] = layer[n] /\ ~SoundlyPlaced(n)
            \/ \E i \in 1..(j - 1) : At(i, d)

Installed(x) == \E k \in 1..Len(script) : At(k, x)

(* However layers, cycles and equal names shape the walk, it neither drops nor      *)
(* repeats anything: no item stands twice, and the script that is replayed has all *)
(* nodes and blocks, with the project iff that can be installed.                   *)
WholeGraphOnce ==
    /\ \A j, k \in 1..Len(script) : script[j].id = script[k].id => j = k
    /\ stage # "render" => \A x \in Item : Installed(x) <=> (x = Project => editable)

(* The package lists are refreshed once, at the first apt node, so above every    *)
(* apt node; a script without one does not refresh them.                         *)
RefreshedOnce ==
    /\ \A j, k \in 1..Len(script) : script[j].update /\ script[k].update => j = k
    /\ \A k \in 1..Len(script) : script[k].update => script[k].id \in AptNode
    /\ \A k \in 1..Len(script) : script[k].id \in AptNode =>
           \E j \in 1..k : script[j].update

(* Layers come in their order, whatever is required across them, and the blocks *)
(* of a layer after its nodes.                                                  *)
LayersInOrder ==
    \A k \in 1..Len(script) : \A j \in 1..(k - 1) : \A x, y \in Node \cup Block :
        At(j, x) /\ At(k, y) =>
            \/ layer[x] < layer[y]
            \/ layer[x] = layer[y] /\ (x \in Block => y \in Block)

(* The text the trap reported is in an earlier line, updates included. *)
SeenBefore ==
    \E k \in 1..failed.at :
        \/ script[k].update /\ report = Refresh
        \/ k < failed.at /\ report \in Holds[script[k].id]

(* The trap has named the command of a node, a block or the project. *)
CommandReported ==
    /\ stage = "end" /\ failed.part = "body"
    /\ script[failed.at].id # Preamble
    /\ report \in Holds[script[failed.at].id]

(* When the trap names a command of an item, that item is handed to the repair, *)
(* unless an earlier line of the script contains that text.                    *)
BlamedUnlessSeenBefore ==
    CommandReported /\ ~SeenBefore => blamed = script[failed.at].id

(* What is handed to the repair is in the script that was replayed (or is nothing, *)
(* which stands for the preamble): V3Loop counts on that when it takes a failing id. *)
BlamedIsInstalled == stage = "end" => Installed(blamed)

(* "Map the failing command to the most recent #@node/#@block id at/above it"         *)
(* (src/docker_agents/john-planner-v3/src/envstate/install_localizer.py:33): when the *)
(* trap names the command of an item, that item is the one repaired.                 *)
BlamesWhatFailed == CommandReported => blamed = script[failed.at].id
=============================================================================
