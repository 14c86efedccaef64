----------------------------- MODULE V3Artifact -----------------------------
(***************************************************************************)
(* How john-planner-v3 turns one repository into a Dockerfile, launch after *)
(* launch over one output directory: the worker that fetches the repository *)
(* and runs the driver under a timeout (MultiDockerEvalAdapter,             *)
(* multi_docker_eval_adapter.py; DockerAgentProducer, producers/            *)
(* dockeragent.py), the driver process (scripts/run_v3_e2e.py) and the      *)
(* container and snapshot it owns (Sandbox, src/sandbox.py).  What run_v3   *)
(* does between two replays is the module V3Loop; here it resets, recovers, *)
(* returns or raises.                                                       *)
(*                                                                          *)
(* Bounds: MaxLaunches launches, MaxReplays containers after the first, the *)
(* branch moves on to its commit MaxHead, MaxHarms faults of different kinds *)
(* or launches (the driver's timeout apart).                                 *)
(***************************************************************************)
EXTENDS Naturals, FiniteSets

CONSTANTS
    MaxHead,      \* commits the default branch of the remote goes through
    MaxLaunches,
    MaxReplays,
    MaxHarms

ASSUME BoundAssumption ==
    /\ MaxHead \in Nat \ {0}
    /\ MaxLaunches \in Nat \ {0}
    /\ MaxReplays \in Nat
    /\ MaxHarms \in Nat

VARIABLES
    launch,    \* launches of the producer so far
    head,      \* the commit at the tip of the remote's default branch
    pin,       \* the commit the dataset names, if it names one
    src,       \* v3_src: the commit checked out there and the launch that cloned it
    setup,     \* setup.sh: the launch that wrote it, from which reading, is it all there?
    linked,    \* launches whose open file is the one at that path
    worker,    \* launch -> where process_single_instance stands
    driver,    \* launch -> where run_v3_e2e stands
    read,      \* launch -> the checkouts its driver has read for what
    box,       \* launch -> the container its Sandbox has a handle on
    snap,      \* launch -> the baseline image of its Sandbox
    stray,     \* launch -> were containers of it left without a handle?
    replays,   \* launch -> containers made since the first
    packet,    \* launch -> what its producer handed over
    overlap,   \* history: launches that ran beside another one
    harm       \* history: launch -> what struck it

daemon  == <<box, snap, stray, replays>>
outside == <<launch, head, pin, overlap>>
vars == <<outside, src, setup, linked, worker, driver, read, daemon, packet, harm>>

Launches  == 1..MaxLaunches
Commits   == 1..MaxHead
NoCommit  == 0
Harms     == {"killed", "refused", "unbuilt", "diskfull"}
Checkouts == [commit : Commits \cup {NoCommit}, by : 0..MaxLaunches]
NoSource  == [commit |-> NoCommit, by |-> 0]
Readings  == [base : Checkouts, graph : Checkouts]
Unread    == [base |-> NoSource, graph |-> NoSource]
Scripts   == [by : 0..MaxLaunches, graph : Checkouts, whole : BOOLEAN]
NoScript  == [by |-> 0, graph |-> NoSource, whole |-> FALSE]
Packets   == [status : {"none", "produced", "error"}, script : Scripts, base : Checkouts]
NoPacket  == [status |-> "none", script |-> NoScript, base |-> NoSource]
Failed    == [NoPacket EXCEPT !.status = "error"]

(* Stages of a worker and of a driver at work. *)
Busy    == {"clean", "clone", "checkout", "spawn", "drive"}
Driving == {"select", "belief", "boot", "provision", "loop", "close", "abort", "render", "write"}

TypeOK ==
    /\ launch \in 0..MaxLaunches
    /\ head \in Commits
    /\ pin \in Commits \cup {NoCommit}
    /\ src \in Checkouts
    /\ setup \in Scripts
    /\ linked \in SUBSET Launches
    /\ worker \in [Launches -> Busy \cup {"idle", "done", "dead"}]
    /\ driver \in [Launches -> Driving \cup {"none", "exited", "dead"}]
    /\ read \in [Launches -> Readings]
    /\ box \in [Launches -> {"none", "up", "gone"}]
    /\ snap \in [Launches -> {"none", "kept", "left"}]
    /\ stray \in [Launches -> BOOLEAN]
    /\ replays \in [Launches -> 0..MaxReplays]
    /\ packet \in [Launches -> Packets]
    /\ overlap \in SUBSET Launches
    /\ harm \in [Launches -> SUBSET Harms]

Init ==
    /\ launch = 0
    /\ head = 1
    /\ pin \in {NoCommit, head}
    /\ src = NoSource
    /\ setup = NoScript
    /\ linked = {}
    /\ worker = [l \in Launches |-> "idle"]
    /\ driver = [l \in Launches |-> "none"]
    /\ read = [l \in Launches |-> Unread]
    /\ box = [l \in Launches |-> "none"]
    /\ snap = [l \in Launches |-> "none"]
    /\ stray = [l \in Launches |-> FALSE]
    /\ replays = [l \in Launches |-> 0]
    /\ packet = [l \in Launches |-> NoPacket]
    /\ overlap = {}
    /\ harm = [l \in Launches |-> {}]

AtWork(l) == worker[l] \in Busy \/ driver[l] \in Driving

(* A step of the worker of l from one stage to another. *)
Works(l, from, to) == worker[l] = from /\ worker' = [worker EXCEPT ![l] = to]
(* A step of its driver; the process that runs it only waits. *)
Drives(l, from, to) ==
    /\ driver[l] = from
    /\ driver' = [driver EXCEPT ![l] = to]
    /\ UNCHANGED <<outside, worker, packet>>
Strikes(l, what) == harm' = [harm EXCEPT ![l] = @ \cup {what}]
Suffers(l, what) ==
    /\ Strikes(l, what)
    /\ Cardinality({s \in Launches \X Harms : s[2] \in harm'[s[1]]}) <= MaxHarms
KeepDriver == UNCHANGED <<driver, read, daemon>>
KeepFiles  == UNCHANGED <<src, setup, linked>>
KeepHarm   == UNCHANGED harm

-----------------------------------------------------------------------------
(* The worker *)

(* The runner hands the repository to a new worker. The earlier one has      *)
(* ended, or has outlived the runner that started it.                         *)
Launch ==
    /\ launch < MaxLaunches
    /\ launch' = launch + 1
    /\ Works(launch + 1, "idle", "clean")
    /\ LET alive == {k \in Launches : AtWork(k)}
       IN  overlap' = overlap \cup (IF alive = {} THEN {} ELSE alive \cup {launch + 1})
    /\ UNCHANGED <<head, pin, packet>>
    /\ KeepDriver /\ KeepFiles /\ KeepHarm

(* _clone: rm -rf *)
Clean(l) ==
    /\ Works(l, "clean", "clone")
    /\ src' = NoSource
    /\ UNCHANGED <<outside, setup, linked, packet>>
    /\ KeepDriver /\ KeepHarm

(* git clone refuses a directory that is not empty *)
Clone(l) ==
    /\ src = NoSource
    /\ Works(l, "clone", IF pin = NoCommit THEN "spawn" ELSE "checkout")
    /\ src' = [commit |-> head, by |-> l]
    /\ UNCHANGED <<outside, setup, linked, packet>>
    /\ KeepDriver /\ KeepHarm

Checkout(l) ==
    /\ src # NoSource
    /\ Works(l, "checkout", "spawn")
    /\ src' = [src EXCEPT !.commit = pin]
    /\ UNCHANGED <<outside, setup, linked, packet>>
    /\ KeepDriver /\ KeepHarm

(* Mutant: the setup.sh of an earlier launch stays. *)
SpawnOverOld(l) ==
    /\ src # NoSource
    /\ Works(l, "spawn", "drive")
    /\ driver' = [driver EXCEPT ![l] = "select"]
    /\ UNCHANGED <<outside, src, setup, linked, read, daemon, packet>>
    /\ KeepHarm

(* _head_sha, then _run_v3 up to Popen: the setup.sh of an earlier launch is *)
(* unlinked before the driver starts                                          *)
Spawn(l) ==
    /\ src # NoSource
    /\ Works(l, "spawn", "drive")
    /\ setup' = NoScript
    /\ linked' = {}
    /\ driver' = [driver EXCEPT ![l] = "select"]
    /\ UNCHANGED <<outside, src, read, daemon, packet>>
    /\ KeepHarm

HandsOver(l, p) == packet' = [packet EXCEPT ![l] = p]

(* A git command fails or meets its own timeout: an error packet *)
FetchFails(l) ==
    /\ worker[l] \in {"clean", "clone", "checkout", "spawn"}
    /\ worker' = [worker EXCEPT ![l] = "done"]
    /\ HandsOver(l, Failed)
    /\ UNCHANGED outside
    /\ KeepDriver /\ KeepFiles /\ KeepHarm

(* subprocess.run: _RUN_V3_TIMEOUT. The driver alone is killed, what it has  *)
(* written counts for nothing, what it runs in the daemon stays.             *)
DriverOverruns(l) ==
    /\ driver[l] \in Driving
    /\ Works(l, "drive", "done")
    /\ driver' = [driver EXCEPT ![l] = "dead"]
    /\ HandsOver(l, Failed)
    /\ Strikes(l, "killed")
    /\ UNCHANGED <<outside, read, daemon>>
    /\ KeepFiles

(* Mutant: the packet carries the driver's own verdict as its status. *)
AcceptAsReported(l) ==
    /\ driver[l] \in {"exited", "dead"}
    /\ Works(l, "drive", "done")
    /\ \E status \in {"done", "giveup"} :
          HandsOver(l, [status |-> status, script |-> setup, base |-> read[l].base])
    /\ UNCHANGED outside
    /\ KeepDriver /\ KeepFiles /\ KeepHarm

(* The driver has gone, with whatever exit code: a setup.sh on disk makes a  *)
(* packet, with the base image named in this driver's output.  That output is *)
(* a pipe the driver buffers: what a killed driver had not flushed is lost,   *)
(* and the base is then the default one.                                      *)
Accept(l) ==
    /\ driver[l] \in {"exited", "dead"}
    /\ Works(l, "drive", "done")
    /\ \E base \in {read[l].base} \cup (IF driver[l] = "dead" THEN {NoSource} ELSE {}) :
          HandsOver(l, IF setup = NoScript THEN Failed
                       ELSE [status |-> "produced", script |-> setup, base |-> base])
    /\ UNCHANGED outside
    /\ KeepDriver /\ KeepFiles /\ KeepHarm

-----------------------------------------------------------------------------
(* The driver *)

(* choose_base_image never raises; without an API key the driver ends here   *)
Select(l) ==
    /\ \/ Drives(l, "select", "belief") /\ read' = [read EXCEPT ![l].base = src]
       \/ Drives(l, "select", "exited") /\ UNCHANGED read
    /\ UNCHANGED daemon
    /\ KeepFiles /\ KeepHarm

(* build_advisory_for_repo, or no graph when it raises; --construction-only  *)
(* renders at once and makes no container                                    *)
Belief(l) ==
    /\ \E to \in {"boot", "render"} : Drives(l, "belief", to)
    /\ \E g \in {src, NoSource} : read' = [read EXCEPT ![l].graph = g]
    /\ UNCHANGED daemon
    /\ KeepFiles /\ KeepHarm

(* Sandbox(): containers.run, which may leave a container that did not start *)
Boot(l) ==
    /\ Drives(l, "boot", "provision")
    /\ box' = [box EXCEPT ![l] = "up"]
    /\ UNCHANGED <<read, snap, stray, replays>>
    /\ KeepFiles /\ KeepHarm

BootFails(l) ==
    /\ Drives(l, "boot", "exited")
    /\ \E s \in BOOLEAN : stray' = [stray EXCEPT ![l] = s]
    /\ Suffers(l, "unbuilt")
    /\ UNCHANGED <<read, box, snap, replays>>
    /\ KeepFiles

(* the seed and the baseline commit, the last lines of the constructor *)
Provision(l) ==
    /\ Drives(l, "provision", "loop")
    /\ snap' = [snap EXCEPT ![l] = "kept"]
    /\ UNCHANGED <<read, box, stray, replays>>
    /\ KeepFiles /\ KeepHarm

(* The constructor raises and the driver's finally is not reached. *)
ProvisionFails(l) ==
    /\ Drives(l, "provision", "exited")
    /\ Suffers(l, "unbuilt")
    /\ UNCHANGED <<read, daemon>>
    /\ KeepFiles

(* Any call to the daemon may be refused; what follows goes on regardless. *)
MayRefuse(l, refused) == IF refused THEN Suffers(l, "refused") ELSE KeepHarm

(* reset_to_base, before every replay: the old container is stopped and       *)
(* removed, each failure is swallowed, and a new one is made.  After a command *)
(* at its limit execute() restores the baseline snapshot in the same way.      *)
Replace(l) ==
    /\ Drives(l, "loop", "loop")
    /\ replays[l] < MaxReplays
    /\ replays' = [replays EXCEPT ![l] = @ + 1]
    /\ \E refused \in BOOLEAN :
          /\ stray' = [stray EXCEPT ![l] = @ \/ refused]
          /\ MayRefuse(l, refused)
    /\ box' = [box EXCEPT ![l] = "up"]
    /\ UNCHANGED <<read, snap>>
    /\ KeepFiles

(* Either of them raises.  When the new container was not made the handle is *)
(* on the old one, gone unless its removal was refused; when it was made and *)
(* could not be seeded the handle is on it.  A container that was made but   *)
(* did not start, or an old one that could not be removed, has no handle.    *)
ReplaceFails(l) ==
    /\ Drives(l, "loop", "abort")
    /\ \E handle \in {"up", "gone"}, unheld \in BOOLEAN :
          /\ box' = [box EXCEPT ![l] = handle]
          /\ stray' = [stray EXCEPT ![l] = @ \/ unheld]
          /\ MayRefuse(l, unheld)
    /\ UNCHANGED <<read, snap, replays>>
    /\ KeepFiles

LoopReturns(l) ==
    /\ Drives(l, "loop", "close")
    /\ UNCHANGED <<read, daemon>>
    /\ KeepFiles /\ KeepHarm

(* Mutant: the sandbox is closed only when run_v3 returns. *)
LoopRaisesUnclosed(l) ==
    /\ Drives(l, "loop", "exited")
    /\ UNCHANGED <<read, daemon>>
    /\ KeepFiles /\ KeepHarm

LoopRaises(l) ==
    /\ Drives(l, "loop", "abort")
    /\ UNCHANGED <<read, daemon>>
    /\ KeepFiles /\ KeepHarm

(* Sandbox.close in the finally: stop and remove share a try, so a refused   *)
(* stop skips the removal; then the snapshot, whose removal may be refused   *)
(* on its own or because the container still runs. After an exception the    *)
(* driver ends without an artifact.                                          *)
Close(l) ==
    /\ \/ Drives(l, "close", "render")
       \/ Drives(l, "abort", "exited")
    /\ \E held, imageHeld \in BOOLEAN :
          /\ box[l] = "gone" => ~held
          /\ stray' = [stray EXCEPT ![l] = @ \/ held]
          /\ snap' = [snap EXCEPT ![l] = IF imageHeld THEN "left" ELSE "none"]
          /\ MayRefuse(l, held \/ imageHeld)
    /\ box' = [box EXCEPT ![l] = "none"]
    /\ UNCHANGED <<read, replays>>
    /\ KeepFiles

(* open(args.out, "w"); run_v3 may also return a map without a graph, and    *)
(* then nothing is written                                                    *)
Render(l) ==
    /\ Drives(l, "render", "write")
    /\ setup' = [by |-> l, graph |-> read[l].graph, whole |-> FALSE]
    /\ linked' = linked \cup {l}
    /\ UNCHANGED <<src, read, daemon>>
    /\ KeepHarm

RenderNothing(l) ==
    /\ Drives(l, "render", "exited")
    /\ read[l].graph = NoSource
    /\ UNCHANGED <<read, daemon>>
    /\ KeepFiles /\ KeepHarm

(* fh.write and the close that flushes it, into the file this driver opened *)
Write(l) ==
    /\ Drives(l, "write", "exited")
    /\ setup' = IF l \in linked
                THEN [by |-> l, graph |-> read[l].graph, whole |-> TRUE] ELSE setup
    /\ UNCHANGED <<src, linked, read, daemon>>
    /\ KeepHarm

(* The disk is full: open has already emptied the file. *)
WriteFails(l) ==
    /\ Drives(l, "write", "exited")
    /\ Suffers(l, "diskfull")
    /\ UNCHANGED <<read, daemon>>
    /\ KeepFiles

-----------------------------------------------------------------------------
(* The machine *)

(* The tip of the default branch moves. *)
HeadMoves ==
    /\ head < MaxHead
    /\ head' = head + 1
    /\ UNCHANGED <<launch, pin, overlap, worker, packet>>
    /\ KeepDriver /\ KeepFiles /\ KeepHarm

(* The runner's hard wall kills the process group of the worker. *)
WallHits(l) ==
    /\ worker[l] \in Busy
    /\ worker' = [worker EXCEPT ![l] = "dead"]
    /\ driver' = [driver EXCEPT ![l] = IF @ \in Driving THEN "dead" ELSE @]
    /\ Suffers(l, "killed")
    /\ UNCHANGED <<outside, read, daemon, packet>>
    /\ KeepFiles

(* One of the two processes is killed alone (out of memory). *)
WorkerDies(l) ==
    /\ worker[l] \in Busy
    /\ worker' = [worker EXCEPT ![l] = "dead"]
    /\ Suffers(l, "killed")
    /\ UNCHANGED <<outside, packet>>
    /\ KeepDriver /\ KeepFiles

DriverDies(l) ==
    /\ driver[l] \in Driving
    /\ Drives(l, driver[l], "dead")
    /\ Suffers(l, "killed")
    /\ UNCHANGED <<read, daemon>>
    /\ KeepFiles

WorkerStep(l) ==
    Clean(l) \/ Clone(l) \/ Checkout(l) \/ Spawn(l) \/ FetchFails(l)
    \/ DriverOverruns(l) \/ Accept(l)
DriverStep(l) ==
    Select(l) \/ Belief(l) \/ Boot(l) \/ BootFails(l) \/ Provision(l) \/ ProvisionFails(l)
    \/ Replace(l) \/ ReplaceFails(l) \/ LoopReturns(l) \/ LoopRaises(l)
    \/ Close(l) \/ Render(l) \/ RenderNothing(l) \/ Write(l) \/ WriteFails(l)

Next ==
    \/ Launch \/ HeadMoves
    \/ \E l \in Launches :
          WorkerStep(l) \/ DriverStep(l) \/ WallHits(l) \/ WorkerDies(l) \/ DriverDies(l)

Spec == Init /\ [][Next]_vars

-----------------------------------------------------------------------------
(* Properties *)

(* c was checked out by launch l, at the pinned commit if there is one *)
OwnCheckout(c, l) == c.by = l /\ (pin # NoCommit => c.commit = pin)

(* A packet of a launch that ran alone is all of that launch: the base image *)
(* was chosen from the checkout it made, at the pinned commit if there is    *)
(* one, the script is the one its own driver rendered from that checkout and *)
(* not what an earlier launch left in setup.sh, and it is whole.  Only a     *)
(* driver that is killed while it writes, or that meets a full disk, leaves   *)
(* a script that is not, or a packet with the default base (_run_v3 asks only *)
(* whether the file exists).                                                  *)
ArtifactIsOwn ==
    \A l \in Launches \ overlap :
        packet[l].status = "produced" =>
            LET p == packet[l]
            IN  /\ p.script.by = l
                /\ p.script.graph = NoSource \/ OwnCheckout(p.script.graph, l)
                /\ OwnCheckout(p.base, l) \/ (p.base = NoSource /\ "killed" \in harm[l])
                /\ NoSource \notin {p.base, p.script.graph} => p.base = p.script.graph
                /\ p.script.whole \/ harm[l] \cap {"killed", "diskfull"} # {}

Ended(l) == worker[l] \in {"done", "dead"} /\ driver[l] \notin Driving

(* Once a launch has ended, nothing of it is left in the daemon, through any *)
(* number of replaced containers and however run_v3 ends, unless a process of *)
(* it was killed, the daemon refused a removal, or the constructor of the     *)
(* Sandbox failed; a full disk is no excuse.                                  *)
NothingLeftBehind ==
    \A l \in Launches :
        (Ended(l) /\ harm[l] \subseteq {"diskfull"}) =>
            (box[l] = "none" /\ snap[l] = "none" /\ ~stray[l])

=============================================================================
