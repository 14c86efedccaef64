------------------------------ MODULE Producers ------------------------------
(***************************************************************************)
(* What the producers that run a tool of somebody else hand over: repo2run, *)
(* SWE-agent, ExecutionAgent, SetupX and Claude Code (src/producers/), one   *)
(* repository, launch after launch over one output directory.  Each tool     *)
(* leaves a file, the producer looks for it when the tool has gone; what it  *)
(* clears beforehand and what it checks afterwards differs from tool to tool. *)
(* The tools are external: they write their file or not, wholly or not, and   *)
(* end as they like.  The packet is one write here, RepoLife splits it.       *)
(*                                                                          *)
(* Bounds: MaxLaunches launches, the branch moves on to its commit MaxHead.   *)
(***************************************************************************)
EXTENDS Naturals

CONSTANTS
    MaxLaunches,
    MaxHead      \* commits the default branch of the remote goes through

ASSUME BoundAssumption == MaxLaunches \in Nat \ {0} /\ MaxHead \in Nat \ {0}

VARIABLES
    tool,      \* the tool of this run
    head,      \* the commit at the tip of the remote's default branch
    pin,       \* the commit the dataset names, if it names one
    launch,    \* launches so far
    lane,      \* of this launch: "parallel" (a child per repository) or "sequential"
    pc,        \* where the worker stands
    tree,      \* the checkout on the host, or the mirror image of SetupX
    left,      \* the file of the tool: which launch wrote it, from which commit, all of it?
    exit,      \* how the tool of this launch ended
    env,       \* the ProducedEnv in the worker
    packet,    \* the packet in the output directory
    marker,    \* run_produced.json is there
    done,      \* run_pytest_results.json is there
    row,       \* _result_row.json
    spoilt     \* history: launches that were killed or ended in an error

remote  == <<tool, pin, head>>
runner  == <<launch, lane, spoilt>>
outdir  == <<packet, marker, done, row>>
vars == <<remote, runner, pc, tree, left, exit, env, outdir>>

Tools    == {"repo2run", "sweagent", "executionagent", "setupx", "claudecode"}
Launches == 1..MaxLaunches
Commits  == 1..MaxHead
NoCommit == 0
NoTree   == 0
HalfTree == MaxHead + 1  \* git clone was killed: .git is there, the tree is not
Files    == [by : 0..MaxLaunches, commit : Commits \cup {NoCommit}, whole : BOOLEAN]
NoFile   == [by |-> 0, commit |-> NoCommit, whole |-> FALSE]
Envs     == [status : {"none", "produced", "error"}, by : 0..MaxLaunches, file : Files]
NoEnv    == [status |-> "none", by |-> 0, file |-> NoFile]
Working  == {"start", "fetch", "clone", "checkout", "tool", "writing", "wrote", "read",
             "packet", "marker", "row"}

TypeOK ==
    /\ tool \in Tools
    /\ head \in Commits
    /\ pin \in Commits \cup {NoCommit}
    /\ launch \in 0..MaxLaunches
    /\ lane \in {"parallel", "sequential"}
    /\ pc \in Working \cup {"off"}
    /\ tree \in Commits \cup {NoTree, HalfTree}
    /\ left \in Files
    /\ exit \in {"ok", "failed"}
    /\ env \in Envs
    /\ packet \in Envs
    /\ marker \in BOOLEAN
    /\ done \in BOOLEAN
    /\ row \in {"none", "success", "error", "timeout"}
    /\ spoilt \in SUBSET Launches

Init ==
    /\ tool \in Tools
    /\ head = 1
    /\ pin \in {NoCommit, head}
    /\ launch = 0
    /\ lane = "parallel"
    /\ pc = "off"
    /\ tree = NoTree
    /\ left = NoFile
    /\ exit = "ok"
    /\ env = NoEnv
    /\ packet = NoEnv
    /\ marker = FALSE
    /\ done = FALSE
    /\ row = "none"
    /\ spoilt = {}

(* A step of the worker from one stage to another. *)
Goes(from, to) == pc = from /\ pc' = to /\ UNCHANGED <<tool, pin, head>>
KeepRun   == UNCHANGED <<runner, outdir>>
KeepFiles == UNCHANGED <<tree, left, exit>>

-----------------------------------------------------------------------------
(* The runner *)

Launch ==
    /\ launch < MaxLaunches
    /\ Goes("off", "start")
    /\ launch' = launch + 1
    /\ lane' \in {"parallel", "sequential"}
    /\ env' = NoEnv
    /\ UNCHANGED <<spoilt, outdir>>
    /\ KeepFiles

Settled == lane = "parallel" /\ row # "none"

(* _run_child finds a row *)
SkipSettled ==
    /\ Settled
    /\ Goes("start", "off")
    /\ UNCHANGED env
    /\ KeepRun /\ KeepFiles

(* _run_one finds either marker: the row is reused, or a stub says success *)
Resume ==
    /\ ~Settled
    /\ marker \/ done
    /\ Goes("start", "off")
    /\ row' = IF row = "none" THEN "success" ELSE row
    /\ UNCHANGED <<runner, env, packet, marker, done>>
    /\ KeepFiles

Invoke ==
    /\ ~Settled
    /\ ~marker /\ ~done
    /\ Goes("start", "fetch")
    /\ UNCHANGED env
    /\ KeepRun /\ KeepFiles

-----------------------------------------------------------------------------
(* The tree the tool works on *)

Fetches == UNCHANGED <<left, exit, env>> /\ KeepRun

(* init_output_and_repo(renew=True): rm -rf, for repo2run and Claude Code;   *)
(* for the latter the container of an earlier launch goes too                 *)
Renew ==
    /\ tool \in {"repo2run", "claudecode"}
    /\ Goes("fetch", "clone")
    /\ tree' = NoTree
    /\ left' = IF tool = "claudecode" THEN NoFile ELSE left
    /\ UNCHANGED <<exit, env>>
    /\ KeepRun

(* _clone_pinned of SWE-agent takes any directory with a .git as it is *)
Reuse ==
    /\ tool = "sweagent"
    /\ Goes("fetch", IF tree = NoTree THEN "clone" ELSE "tool")
    /\ UNCHANGED tree
    /\ Fetches

CloneStarts ==
    /\ tree = NoTree
    /\ Goes("clone", "clone")
    /\ tree' = HalfTree
    /\ Fetches

CloneEnds ==
    /\ tree = HalfTree
    /\ Goes("clone", IF pin = NoCommit THEN "tool" ELSE "checkout")
    /\ tree' = head
    /\ Fetches

Checkout ==
    /\ Goes("checkout", "tool")
    /\ tree' = pin
    /\ Fetches

(* mirror_image: docker build, with its cache when nothing is pinned *)
Mirror ==
    /\ tool = "setupx"
    /\ Goes("fetch", "tool")
    /\ tree' \in IF pin # NoCommit THEN {pin} ELSE {head, tree} \ {NoTree}
    /\ Fetches

(* ExecutionAgent is given the URL and clones the tip of the branch itself *)
NoFetch ==
    /\ tool = "executionagent"
    /\ Goes("fetch", "tool")
    /\ tree' = head
    /\ Fetches

Fails == env' = [status |-> "error", by |-> launch, file |-> NoFile]

(* A git or docker command fails (check=True); git removes a clone it could  *)
(* not finish                                                                 *)
FetchFails ==
    /\ pc \in {"fetch", "clone", "checkout"}
    /\ Goes(pc, "packet")
    /\ tree' = IF pc = "clone" THEN NoTree ELSE tree
    /\ Fails
    /\ UNCHANGED <<left, exit>>
    /\ KeepRun

-----------------------------------------------------------------------------
(* The tool.  Its file is output/<repo>/Dockerfile (repo2run),               *)
(* sweagent_repo2run.gen, success_artifacts/Dockerfile (ExecutionAgent),     *)
(* mirror_result.json (SetupX), or lies in the container of Claude Code,      *)
(* which is removed by name before that container is made.                    *)

(* Mutant: SWE-agent is not given the commit to reset its copy to. *)
ToolOpensUnreset ==
    /\ tree \notin {NoTree, HalfTree}
    /\ Goes("tool", "writing")
    /\ left' = [by |-> launch, commit |-> tree, whole |-> FALSE]
    /\ UNCHANGED <<tree, exit, env>>
    /\ KeepRun

(* SWE-agent resets its copy to the pinned commit (base_commit), and ends    *)
(* when that is not in the shallow clone                                      *)
ToolOpens ==
    /\ tree \notin {NoTree, HalfTree}
    /\ (tool = "sweagent" /\ pin # NoCommit) => tree = pin
    /\ Goes("tool", "writing")
    /\ left' = [by |-> launch, commit |-> tree, whole |-> FALSE]
    /\ UNCHANGED <<tree, exit, env>>
    /\ KeepRun

ToolWrites ==
    /\ Goes("writing", "wrote")
    /\ left' = [left EXCEPT !.whole = TRUE]
    /\ UNCHANGED <<tree, exit, env>>
    /\ KeepRun

(* repo2run's own tests leave their report in the output directory *)
ToolReports ==
    /\ tool = "repo2run"
    /\ ~done
    /\ pc \in {"tool", "writing", "wrote"}
    /\ Goes(pc, pc)
    /\ done' = TRUE
    /\ UNCHANGED <<runner, env, packet, marker, row>>
    /\ KeepFiles

(* The tool ends; one that dies while it writes does not end well.  For      *)
(* Claude Code the turn cap, the wall and stop_agent are ends like any other. *)
ToolEnds ==
    /\ pc \in {"tool", "writing", "wrote"}
    /\ Goes(pc, "read")
    /\ exit' \in IF pc = "writing" THEN {"failed"} ELSE {"ok", "failed"}
    /\ UNCHANGED <<tree, left, env>>
    /\ KeepRun

(* subprocess.run: ctx.timeout *)
ToolOverruns ==
    /\ tool # "claudecode"
    /\ pc \in {"tool", "writing", "wrote"}
    /\ Goes(pc, "packet")
    /\ Fails
    /\ KeepRun /\ KeepFiles

-----------------------------------------------------------------------------
(* What the producer makes of it *)

(* Mutant: repo2run's exit code is not looked at. *)
AcceptableUnchecked ==
    /\ left # NoFile
    /\ tool = "sweagent" => exit = "ok"
    /\ tool = "setupx" => left.whole

(* repo2run must exit 0, SWE-agent's runner must have printed its result     *)
(* line, SetupX's report must parse; for the rest the file is enough          *)
Acceptable ==
    /\ left # NoFile
    /\ tool \in {"repo2run", "sweagent"} => exit = "ok"
    /\ tool = "setupx" => left.whole

(* repo2run's raw Dockerfile goes once it has been read *)
ReadProduced ==
    /\ Acceptable
    /\ Goes("read", "packet")
    /\ env' = [status |-> "produced", by |-> launch, file |-> left]
    /\ left' = IF tool = "repo2run" THEN NoFile ELSE left
    /\ UNCHANGED <<tree, exit>>
    /\ KeepRun

(* No file, or not one that can be used: an empty Dockerfile, a report       *)
(* without steps, a raw Dockerfile that cannot be removed                     *)
ReadNothing ==
    /\ Goes("read", "packet")
    /\ Fails
    /\ KeepRun /\ KeepFiles

(* Mutant: the marker is written whatever produce() returned. *)
WritePacketAndMarker ==
    /\ Goes("packet", "row")
    /\ packet' = env
    /\ marker' = TRUE
    /\ UNCHANGED <<runner, env, done, row>>
    /\ KeepFiles

(* write_env_packet *)
WritePacket ==
    /\ Goes("packet", IF env.status = "produced" THEN "marker" ELSE "row")
    /\ packet' = env
    /\ UNCHANGED <<runner, env, marker, done, row>>
    /\ KeepFiles

WriteMarker ==
    /\ Goes("marker", "row")
    /\ marker' = TRUE
    /\ UNCHANGED <<runner, env, packet, done, row>>
    /\ KeepFiles

(* Mutant: the row takes the status of the packet. *)
WriteRowOfPacket ==
    /\ Goes("row", "off")
    /\ row' = env.status
    /\ UNCHANGED <<runner, env, packet, marker, done>>
    /\ KeepFiles

WriteRow ==
    /\ Goes("row", "off")
    /\ row' = IF env.status = "produced" THEN "success" ELSE "error"
    /\ spoilt' = IF env.status = "produced" THEN spoilt ELSE spoilt \cup {launch}
    /\ UNCHANGED <<launch, lane, env, packet, marker, done>>
    /\ KeepFiles

-----------------------------------------------------------------------------
(* The machine *)

HeadMoves ==
    /\ head < MaxHead
    /\ head' = head + 1
    /\ UNCHANGED <<tool, pin, runner, pc, tree, left, exit, env, outdir>>

(* The machine stops, or the parallel lane's hard wall strikes and a timeout *)
(* row is made up                                                             *)
Killed ==
    /\ pc \in Working
    /\ Goes(pc, "off")
    /\ spoilt' = spoilt \cup {launch}
    /\ row' \in {row} \cup (IF lane = "parallel" THEN {"timeout"} ELSE {})
    /\ UNCHANGED <<launch, lane, env, packet, marker, done>>
    /\ KeepFiles

Next ==
    \/ Launch \/ SkipSettled \/ Resume \/ Invoke
    \/ Renew \/ Reuse \/ CloneStarts \/ CloneEnds \/ Checkout \/ Mirror \/ NoFetch \/ FetchFails
    \/ ToolOpens \/ ToolWrites \/ ToolReports \/ ToolEnds \/ ToolOverruns
    \/ ReadProduced \/ ReadNothing \/ WritePacket \/ WriteMarker \/ WriteRow
    \/ HeadMoves \/ Killed

Spec == Init /\ [][Next]_vars

-----------------------------------------------------------------------------
(* Properties *)

(* What a produced packet is made of was written by the launch that hands it *)
(* over, or was left by one that was killed or failed and never by one that   *)
(* has already handed its work over; Claude Code's never comes from an        *)
(* earlier launch.  A file that is not whole was left so by such a launch, or  *)
(* is of a tool whose end nobody checks.                                      *)
ProducedIsExplained ==
    packet.status = "produced" =>
        LET file == packet.file
            stale == file.by # packet.by
        IN  /\ file.by # 0
            /\ stale => tool # "claudecode" /\ file.by \in spoilt
            /\ ~file.whole => /\ tool # "setupx"
                              /\ stale \/ tool \in {"executionagent", "claudecode"}

(* With a pinned dataset the Dockerfile is checked out at the pin, so the     *)
(* tool must have worked on it: through kills between the clone and the       *)
(* checkout, trees and files of earlier launches, and a branch that moves.    *)
(* ExecutionAgent clones for itself and is excepted.                          *)
AnalysedAtPin ==
    (packet.status = "produced" /\ pin # NoCommit /\ tool # "executionagent") =>
        packet.file.commit = pin

(* A row that says success stands beside a produced packet, through every     *)
(* relaunch in either lane, except where repo2run's own report has been taken  *)
(* for the mark of a finished repository (benchmark.py:364).                   *)
SuccessHasPacket ==
    row = "success" => packet.status = "produced" \/ done

(* What the SWE-agent producer returns is "the /Dockerfile it wrote", it      *)
(* being the SWE-agent of this launch (sweagent_repo2run.py:139-140).          *)
SweAgentFileIsOwn ==
    (tool = "sweagent" /\ packet.status = "produced") => packet.file.by = packet.by

=============================================================================
