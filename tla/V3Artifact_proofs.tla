---------------------------- MODULE V3Artifact_proofs ----------------------------
(* What a launch hands over and what it leaves behind, for every number of  *)
(* launches, replays, commits and harms.                                    *)
EXTENDS V3Artifact, TLAPS

(* No launch is struck yet by anything but a full disk. *)
Unharmed(l) == harm[l] \subseteq {"diskfull"}

(* Which handles the driver has where it stands. *)
Held(l) ==
    Unharmed(l) =>
        /\ ~stray[l]
        /\ driver[l] \in {"none", "select", "belief", "boot", "render", "write", "exited"} =>
              box[l] = "none" /\ snap[l] = "none"
        /\ driver[l] = "provision" => snap[l] = "none"
        /\ driver[l] # "dead"
HeldInv == \A l \in Launches : Held(l)

(* A driver is there once the worker has come to spawn it, and has read what *)
(* it has come to.                                                           *)
Stage(l) ==
    /\ l > launch => worker[l] = "idle"
    /\ worker[l] \in {"idle", "clean", "clone", "checkout", "spawn"} => driver[l] = "none"
    /\ worker[l] = "drive" => driver[l] # "none"
    /\ driver[l] \in {"none", "select"} => read[l] = Unread
StageInv == \A l \in Launches : Stage(l)

(* Two launches at work at once have been noted as such. *)
AloneInv ==
    \A k, l \in Launches : (k # l /\ AtWork(k) /\ AtWork(l)) => k \in overlap /\ l \in overlap

(* The files of a launch that runs alone, stage by stage. *)
Drawn(l) ==
    /\ setup.by = l
    /\ setup.graph = read[l].graph
    /\ read[l].base = src
OwnFiles(l) ==
    /\ worker[l] = "checkout" => src.by = l
    /\ worker[l] \in {"spawn", "drive"} => OwnCheckout(src, l)
    /\ worker[l] = "drive" =>
          /\ driver[l] \in Driving \ {"select"} => read[l].base = src
          /\ read[l].graph \in {NoSource, src}
          /\ driver[l] \in Driving \ {"write"} => setup = NoScript
          /\ driver[l] = "write" => Drawn(l) /\ l \in linked
          /\ driver[l] \in {"exited", "dead"} =>
                \/ setup = NoScript
                \/ Drawn(l) /\ (setup.whole \/ harm[l] \cap {"killed", "diskfull"} # {})
          /\ driver[l] = "dead" => "killed" \in harm[l]
OwnPacket(l) ==
    packet[l].status = "produced" =>
        LET p == packet[l]
        IN  /\ p.script.by = l
            /\ p.script.graph = NoSource \/ OwnCheckout(p.script.graph, l)
            /\ OwnCheckout(p.base, l) \/ (p.base = NoSource /\ "killed" \in harm[l])
            /\ NoSource \notin {p.base, p.script.graph} => p.base = p.script.graph
            /\ p.script.whole \/ harm[l] \cap {"killed", "diskfull"} # {}
OwnInv == \A l \in Launches \ overlap : OwnFiles(l) /\ OwnPacket(l)

IInv == TypeOK /\ HeldInv /\ StageInv /\ AloneInv /\ OwnInv

-----------------------------------------------------------------------------
(* The records of the model: the first ones, and what is built from others. *)
LEMMA Members ==
    /\ NoSource \in Checkouts
    /\ Unread \in Readings
    /\ NoScript \in Scripts
    /\ NoPacket \in Packets
    /\ Failed \in Packets
<1>1. NoSource \in Checkouts
    BY BoundAssumption DEF NoSource, Checkouts, NoCommit
<1>2. Unread \in Readings
    BY <1>1 DEF Unread, Readings
<1>3. NoScript \in Scripts
    BY <1>1, BoundAssumption DEF NoScript, Scripts
<1>4. NoPacket \in Packets
    BY <1>1, <1>3 DEF NoPacket, Packets
<1>5. Failed \in Packets
    BY <1>4 DEF Failed, Packets
<1> QED
    BY <1>1, <1>2, <1>3, <1>4, <1>5

LEMMA CheckoutMade ==
    ASSUME NEW c \in Commits, NEW l \in Launches
    PROVE  [commit |-> c, by |-> l] \in Checkouts
    BY BoundAssumption DEF Checkouts, Launches

LEMMA CheckoutMoved ==
    ASSUME NEW s \in Checkouts, NEW c \in Commits \cup {NoCommit}
    PROVE  /\ [s EXCEPT !.commit = c] \in Checkouts
           /\ [s EXCEPT !.commit = c].by = s.by
           /\ [s EXCEPT !.commit = c].commit = c
    BY DEF Checkouts

LEMMA ReadingMade ==
    ASSUME NEW r \in Readings, NEW c \in Checkouts
    PROVE  /\ r.base \in Checkouts /\ r.graph \in Checkouts
           /\ [r EXCEPT !.base = c] \in Readings
           /\ [r EXCEPT !.base = c].base = c /\ [r EXCEPT !.base = c].graph = r.graph
           /\ [r EXCEPT !.graph = c] \in Readings
           /\ [r EXCEPT !.graph = c].graph = c /\ [r EXCEPT !.graph = c].base = r.base
    BY DEF Readings

LEMMA ScriptMade ==
    ASSUME NEW l \in Launches, NEW c \in Checkouts, NEW w \in BOOLEAN
    PROVE  [by |-> l, graph |-> c, whole |-> w] \in Scripts
    BY BoundAssumption DEF Scripts, Launches

LEMMA PacketMade ==
    ASSUME NEW s \in Scripts, NEW c \in Checkouts
    PROVE  [status |-> "produced", script |-> s, base |-> c] \in Packets
    BY DEF Packets

(* Every step keeps the types. *)
LEMMA TypeStep == TypeOK /\ [Next]_vars => TypeOK'
<1> SUFFICES ASSUME TypeOK, [Next]_vars PROVE TypeOK'
    OBVIOUS
<1> USE Members
    DEF TypeOK, Busy, Driving, Works, Drives, KeepDriver, KeepFiles, KeepHarm, daemon, outside
<1>1. ASSUME Launch PROVE TypeOK'
    <2>1. launch' \in 0..MaxLaunches /\ launch + 1 \in Launches
        BY <1>1, BoundAssumption DEF Launch, Launches
    <2>2. worker' \in [Launches -> Busy \cup {"idle", "done", "dead"}]
        BY <1>1, <2>1 DEF Launch
    <2>3. overlap' \in SUBSET Launches
        BY <1>1, <2>1 DEF Launch
    <2> QED
        BY <1>1, <2>1, <2>2, <2>3 DEF Launch
<1>2. ASSUME HeadMoves PROVE TypeOK'
    BY <1>2, BoundAssumption DEF HeadMoves, Commits
<1>3. ASSUME NEW l \in Launches, Clean(l) PROVE TypeOK'
    BY <1>3 DEF Clean
<1>4. ASSUME NEW l \in Launches, Clone(l) PROVE TypeOK'
    BY <1>4, CheckoutMade DEF Clone
<1>5. ASSUME NEW l \in Launches, Checkout(l) PROVE TypeOK'
    BY <1>5, CheckoutMoved DEF Checkout
<1>6. ASSUME NEW l \in Launches, Spawn(l) PROVE TypeOK'
    BY <1>6 DEF Spawn
<1>7. ASSUME NEW l \in Launches, FetchFails(l) PROVE TypeOK'
    BY <1>7 DEF FetchFails, HandsOver
<1>8. ASSUME NEW l \in Launches, DriverOverruns(l) PROVE TypeOK'
    <2>1. harm' \in [Launches -> SUBSET Harms]
        BY <1>8 DEF DriverOverruns, HandsOver, Strikes, Harms
    <2> QED
        BY <1>8, <2>1 DEF DriverOverruns, HandsOver
<1>9. ASSUME NEW l \in Launches, Accept(l) PROVE TypeOK'
    <2>1. PICK b \in {read[l].base} \cup (IF driver[l] = "dead" THEN {NoSource} ELSE {}) :
              packet' = [packet EXCEPT ![l] = IF setup = NoScript THEN Failed
                         ELSE [status |-> "produced", script |-> setup, base |-> b]]
        BY <1>9 DEF Accept, HandsOver
    <2>2. b \in Checkouts
        BY <2>1, Members, ReadingMade
    <2>3. packet' \in [Launches -> Packets]
        BY <2>1, <2>2, Members, PacketMade
    <2> QED
        BY <1>9, <2>3 DEF Accept
<1>10. ASSUME NEW l \in Launches, Select(l) PROVE TypeOK'
    <2>1. read[l] \in Readings
        OBVIOUS
    <2>2. [read[l] EXCEPT !.base = src] \in Readings
        BY <2>1, ReadingMade
    <2>3. read' \in [Launches -> Readings]
        BY <1>10, <2>2 DEF Select
    <2> QED
        BY <1>10, <2>3 DEF Select
<1>11. ASSUME NEW l \in Launches, Belief(l) PROVE TypeOK'
    <2>1. PICK g \in {src, NoSource} : read' = [read EXCEPT ![l].graph = g]
        BY <1>11 DEF Belief
    <2>2. read[l] \in Readings /\ g \in Checkouts
        BY Members
    <2>3. [read[l] EXCEPT !.graph = g] \in Readings
        BY <2>2, ReadingMade
    <2>4. read' \in [Launches -> Readings]
        BY <2>1, <2>3
    <2> QED
        BY <1>11, <2>4 DEF Belief
<1>12. ASSUME NEW l \in Launches, Boot(l) PROVE TypeOK'
    BY <1>12 DEF Boot
<1>13. ASSUME NEW l \in Launches, BootFails(l) PROVE TypeOK'
    <2>1. harm' \in [Launches -> SUBSET Harms]
        BY <1>13 DEF BootFails, Suffers, Strikes, Harms
    <2> QED
        BY <1>13, <2>1 DEF BootFails
<1>14. ASSUME NEW l \in Launches, Provision(l) PROVE TypeOK'
    BY <1>14 DEF Provision
<1>15. ASSUME NEW l \in Launches, ProvisionFails(l) PROVE TypeOK'
    <2>1. harm' \in [Launches -> SUBSET Harms]
        BY <1>15 DEF ProvisionFails, Suffers, Strikes, Harms
    <2> QED
        BY <1>15, <2>1 DEF ProvisionFails
<1>16. ASSUME NEW l \in Launches, Replace(l) PROVE TypeOK'
    <2>1. replays' \in [Launches -> 0..MaxReplays]
        BY <1>16, BoundAssumption DEF Replace
    <2>2. harm' \in [Launches -> SUBSET Harms]
        BY <1>16 DEF Replace, MayRefuse, Suffers, Strikes, Harms
    <2>3. stray' \in [Launches -> BOOLEAN] /\ box' \in [Launches -> {"none", "up", "gone"}]
        BY <1>16 DEF Replace
    <2> QED
        BY <1>16, <2>1, <2>2, <2>3 DEF Replace
<1>17. ASSUME NEW l \in Launches, ReplaceFails(l) PROVE TypeOK'
    <2>1. harm' \in [Launches -> SUBSET Harms]
        BY <1>17 DEF ReplaceFails, MayRefuse, Suffers, Strikes, Harms
    <2>2. stray' \in [Launches -> BOOLEAN]
        BY <1>17 DEF ReplaceFails
    <2>3. box' \in [Launches -> {"none", "up", "gone"}]
        BY <1>17 DEF ReplaceFails
    <2> QED
        BY <1>17, <2>1, <2>2, <2>3 DEF ReplaceFails
<1>18. ASSUME NEW l \in Launches, LoopReturns(l) PROVE TypeOK'
    BY <1>18 DEF LoopReturns
<1>19. ASSUME NEW l \in Launches, LoopRaises(l) PROVE TypeOK'
    BY <1>19 DEF LoopRaises
<1>20. ASSUME NEW l \in Launches, Close(l) PROVE TypeOK'
    <2>1. harm' \in [Launches -> SUBSET Harms]
        BY <1>20 DEF Close, MayRefuse, Suffers, Strikes, Harms
    <2>2. stray' \in [Launches -> BOOLEAN]
        BY <1>20 DEF Close
    <2>3. snap' \in [Launches -> {"none", "kept", "left"}]
        BY <1>20 DEF Close
    <2>4. box' \in [Launches -> {"none", "up", "gone"}]
        BY <1>20 DEF Close
    <2> QED
        BY <1>20, <2>1, <2>2, <2>3, <2>4 DEF Close
<1>21. ASSUME NEW l \in Launches, Render(l) PROVE TypeOK'
    <2>1. read[l].graph \in Checkouts
        BY ReadingMade
    <2>2. setup' \in Scripts
        BY <1>21, <2>1, ScriptMade DEF Render
    <2> QED
        BY <1>21, <2>2 DEF Render
<1>22. ASSUME NEW l \in Launches, RenderNothing(l) PROVE TypeOK'
    BY <1>22 DEF RenderNothing
<1>23. ASSUME NEW l \in Launches, Write(l) PROVE TypeOK'
    <2>1. read[l].graph \in Checkouts
        BY ReadingMade
    <2>2. setup' \in Scripts
        BY <1>23, <2>1, ScriptMade DEF Write
    <2> QED
        BY <1>23, <2>2 DEF Write
<1>24. ASSUME NEW l \in Launches, WriteFails(l) PROVE TypeOK'
    <2>1. harm' \in [Launches -> SUBSET Harms]
        BY <1>24 DEF WriteFails, Suffers, Strikes, Harms
    <2> QED
        BY <1>24, <2>1 DEF WriteFails
<1>25. ASSUME NEW l \in Launches, WallHits(l) PROVE TypeOK'
    <2>1. harm' \in [Launches -> SUBSET Harms]
        BY <1>25 DEF WallHits, Suffers, Strikes, Harms
    <2> QED
        BY <1>25, <2>1 DEF WallHits
<1>26. ASSUME NEW l \in Launches, WorkerDies(l) PROVE TypeOK'
    <2>1. harm' \in [Launches -> SUBSET Harms]
        BY <1>26 DEF WorkerDies, Suffers, Strikes, Harms
    <2> QED
        BY <1>26, <2>1 DEF WorkerDies
<1>27. ASSUME NEW l \in Launches, DriverDies(l) PROVE TypeOK'
    <2>1. harm' \in [Launches -> SUBSET Harms]
        BY <1>27 DEF DriverDies, Suffers, Strikes, Harms
    <2> QED
        BY <1>27, <2>1 DEF DriverDies
<1>28. ASSUME UNCHANGED vars PROVE TypeOK'
    BY <1>28 DEF vars
<1> QED
    BY <1>1, <1>2, <1>3, <1>4, <1>5, <1>6, <1>7, <1>8, <1>9, <1>10, <1>11,
       <1>12, <1>13, <1>14, <1>15, <1>16, <1>17, <1>18, <1>19, <1>20, <1>21,
       <1>22, <1>23, <1>24, <1>25, <1>26, <1>27, <1>28
    DEF Next, WorkerStep, DriverStep

(* Workers start, spawn and read in their order. *)
LEMMA StageStep == TypeOK /\ StageInv /\ [Next]_vars => StageInv'
<1> SUFFICES ASSUME TypeOK /\ StageInv, [Next]_vars PROVE StageInv'
    OBVIOUS
<1> USE DEF TypeOK, StageInv, Stage, Busy, Driving, Works, Drives, KeepDriver, KeepFiles,
        KeepHarm, daemon, outside
<1>1. ASSUME Launch PROVE StageInv'
    <2>1. launch \in Nat /\ launch' = launch + 1
        BY <1>1, BoundAssumption DEF Launch
    <2>2. Launches \subseteq Nat
        BY DEF Launches
    <2> QED
        BY <1>1, <2>1, <2>2 DEF Launch
<1>2. ASSUME HeadMoves PROVE StageInv'
    BY <1>2 DEF HeadMoves
<1>3. ASSUME NEW l \in Launches, Clean(l) PROVE StageInv'
    BY <1>3 DEF Clean
<1>4. ASSUME NEW l \in Launches, Clone(l) PROVE StageInv'
    BY <1>4 DEF Clone
<1>5. ASSUME NEW l \in Launches, Checkout(l) PROVE StageInv'
    BY <1>5 DEF Checkout
<1>6. ASSUME NEW l \in Launches, Spawn(l) PROVE StageInv'
    BY <1>6 DEF Spawn
<1>7. ASSUME NEW l \in Launches, FetchFails(l) PROVE StageInv'
    BY <1>7 DEF FetchFails, HandsOver
<1>8. ASSUME NEW l \in Launches, DriverOverruns(l) PROVE StageInv'
    BY <1>8 DEF DriverOverruns, HandsOver, Strikes
<1>9. ASSUME NEW l \in Launches, Accept(l) PROVE StageInv'
    BY <1>9 DEF Accept, HandsOver
<1>10. ASSUME NEW l \in Launches, Select(l) PROVE StageInv'
    BY <1>10 DEF Select
<1>11. ASSUME NEW l \in Launches, Belief(l) PROVE StageInv'
    BY <1>11 DEF Belief
<1>12. ASSUME NEW l \in Launches, Boot(l) PROVE StageInv'
    BY <1>12 DEF Boot
<1>13. ASSUME NEW l \in Launches, BootFails(l) PROVE StageInv'
    BY <1>13 DEF BootFails, Suffers, Strikes
<1>14. ASSUME NEW l \in Launches, Provision(l) PROVE StageInv'
    BY <1>14 DEF Provision
<1>15. ASSUME NEW l \in Launches, ProvisionFails(l) PROVE StageInv'
    BY <1>15 DEF ProvisionFails, Suffers, Strikes
<1>16. ASSUME NEW l \in Launches, Replace(l) PROVE StageInv'
    BY <1>16 DEF Replace, MayRefuse, Suffers, Strikes
<1>17. ASSUME NEW l \in Launches, ReplaceFails(l) PROVE StageInv'
    BY <1>17 DEF ReplaceFails, MayRefuse, Suffers, Strikes
<1>18. ASSUME NEW l \in Launches, LoopReturns(l) PROVE StageInv'
    BY <1>18 DEF LoopReturns
<1>19. ASSUME NEW l \in Launches, LoopRaises(l) PROVE StageInv'
    BY <1>19 DEF LoopRaises
<1>20. ASSUME NEW l \in Launches, Close(l) PROVE StageInv'
    BY <1>20 DEF Close, MayRefuse, Suffers, Strikes
<1>21. ASSUME NEW l \in Launches, Render(l) PROVE StageInv'
    BY <1>21 DEF Render
<1>22. ASSUME NEW l \in Launches, RenderNothing(l) PROVE StageInv'
    BY <1>22 DEF RenderNothing
<1>23. ASSUME NEW l \in Launches, Write(l) PROVE StageInv'
    BY <1>23 DEF Write
<1>24. ASSUME NEW l \in Launches, WriteFails(l) PROVE StageInv'
    BY <1>24 DEF WriteFails, Suffers, Strikes
<1>25. ASSUME NEW l \in Launches, WallHits(l) PROVE StageInv'
    BY <1>25 DEF WallHits, Suffers, Strikes
<1>26. ASSUME NEW l \in Launches, WorkerDies(l) PROVE StageInv'
    BY <1>26 DEF WorkerDies, Suffers, Strikes
<1>27. ASSUME NEW l \in Launches, DriverDies(l) PROVE StageInv'
    BY <1>27 DEF DriverDies, Suffers, Strikes
<1>28. ASSUME UNCHANGED vars PROVE StageInv'
    BY <1>28 DEF vars
<1> QED
    BY <1>1, <1>2, <1>3, <1>4, <1>5, <1>6, <1>7, <1>8, <1>9, <1>10, <1>11,
       <1>12, <1>13, <1>14, <1>15, <1>16, <1>17, <1>18, <1>19, <1>20, <1>21,
       <1>22, <1>23, <1>24, <1>25, <1>26, <1>27, <1>28
    DEF Next, WorkerStep, DriverStep

(* Whatever makes a container gives it a handle or harms the launch; Close is on every way out. *)
LEMMA HeldStep == TypeOK /\ StageInv /\ HeldInv /\ [Next]_vars => HeldInv'
<1> SUFFICES ASSUME TypeOK /\ StageInv /\ HeldInv, [Next]_vars PROVE HeldInv'
    OBVIOUS
<1> USE DEF TypeOK, HeldInv, Held, Unharmed, Driving, Works, Drives, KeepDriver, KeepFiles,
        KeepHarm, daemon, outside
<1>1. ASSUME Launch PROVE HeldInv'
    BY <1>1 DEF Launch
<1>2. ASSUME HeadMoves PROVE HeldInv'
    BY <1>2 DEF HeadMoves
<1>3. ASSUME NEW l \in Launches, Clean(l) PROVE HeldInv'
    BY <1>3 DEF Clean
<1>4. ASSUME NEW l \in Launches, Clone(l) PROVE HeldInv'
    BY <1>4 DEF Clone
<1>5. ASSUME NEW l \in Launches, Checkout(l) PROVE HeldInv'
    BY <1>5 DEF Checkout
<1>6. ASSUME NEW l \in Launches, Spawn(l) PROVE HeldInv'
    BY <1>6 DEF Spawn, StageInv, Stage
<1>7. ASSUME NEW l \in Launches, FetchFails(l) PROVE HeldInv'
    BY <1>7 DEF FetchFails, HandsOver
<1>8. ASSUME NEW l \in Launches, DriverOverruns(l) PROVE HeldInv'
    BY <1>8 DEF DriverOverruns, HandsOver, Strikes
<1>9. ASSUME NEW l \in Launches, Accept(l) PROVE HeldInv'
    BY <1>9 DEF Accept, HandsOver
<1>10. ASSUME NEW l \in Launches, Select(l) PROVE HeldInv'
    BY <1>10 DEF Select
<1>11. ASSUME NEW l \in Launches, Belief(l) PROVE HeldInv'
    BY <1>11 DEF Belief
<1>12. ASSUME NEW l \in Launches, Boot(l) PROVE HeldInv'
    BY <1>12 DEF Boot
<1>13. ASSUME NEW l \in Launches, BootFails(l) PROVE HeldInv'
    BY <1>13 DEF BootFails, Suffers, Strikes
<1>14. ASSUME NEW l \in Launches, Provision(l) PROVE HeldInv'
    BY <1>14 DEF Provision
<1>15. ASSUME NEW l \in Launches, ProvisionFails(l) PROVE HeldInv'
    BY <1>15 DEF ProvisionFails, Suffers, Strikes
<1>16. ASSUME NEW l \in Launches, Replace(l) PROVE HeldInv'
    <2> SUFFICES ASSUME NEW k \in Launches PROVE Held(k)'
        OBVIOUS
    <2>1. CASE k # l
        BY <1>16, <2>1 DEF Replace, MayRefuse, Suffers, Strikes
    <2>2. CASE k = l
        <3>1. PICK held \in BOOLEAN :
                  /\ stray' = [stray EXCEPT ![l] = stray[l] \/ held]
                  /\ MayRefuse(l, held)
            BY <1>16 DEF Replace
        <3>2. CASE held
            <4>1. "refused" \in harm'[l]
                BY <3>1, <3>2 DEF MayRefuse, Suffers, Strikes
            <4> QED
                BY <2>2, <4>1
        <3>3. CASE ~held
            BY <1>16, <2>2, <3>1, <3>3 DEF Replace, MayRefuse
        <3> QED
            BY <3>2, <3>3
    <2> QED
        BY <2>1, <2>2
<1>17. ASSUME NEW l \in Launches, ReplaceFails(l) PROVE HeldInv'
    <2> SUFFICES ASSUME NEW k \in Launches PROVE Held(k)'
        OBVIOUS
    <2>1. CASE k # l
        BY <1>17, <2>1 DEF ReplaceFails, MayRefuse, Suffers, Strikes
    <2>2. CASE k = l
        <3>1. PICK held \in BOOLEAN :
                  /\ stray' = [stray EXCEPT ![l] = stray[l] \/ held]
                  /\ MayRefuse(l, held)
            BY <1>17 DEF ReplaceFails
        <3>2. CASE held
            <4>1. "refused" \in harm'[l]
                BY <3>1, <3>2 DEF MayRefuse, Suffers, Strikes
            <4> QED
                BY <2>2, <4>1
        <3>3. CASE ~held
            BY <1>17, <2>2, <3>1, <3>3 DEF ReplaceFails, MayRefuse
        <3> QED
            BY <3>2, <3>3
    <2> QED
        BY <2>1, <2>2
<1>18. ASSUME NEW l \in Launches, LoopReturns(l) PROVE HeldInv'
    BY <1>18 DEF LoopReturns
<1>19. ASSUME NEW l \in Launches, LoopRaises(l) PROVE HeldInv'
    BY <1>19 DEF LoopRaises
<1>20. ASSUME NEW l \in Launches, Close(l) PROVE HeldInv'
    BY <1>20 DEF Close, MayRefuse, Suffers, Strikes
<1>21. ASSUME NEW l \in Launches, Render(l) PROVE HeldInv'
    BY <1>21 DEF Render
<1>22. ASSUME NEW l \in Launches, RenderNothing(l) PROVE HeldInv'
    BY <1>22 DEF RenderNothing
<1>23. ASSUME NEW l \in Launches, Write(l) PROVE HeldInv'
    BY <1>23 DEF Write
<1>24. ASSUME NEW l \in Launches, WriteFails(l) PROVE HeldInv'
    BY <1>24 DEF WriteFails, Suffers, Strikes
<1>25. ASSUME NEW l \in Launches, WallHits(l) PROVE HeldInv'
    BY <1>25 DEF WallHits, Suffers, Strikes
<1>26. ASSUME NEW l \in Launches, WorkerDies(l) PROVE HeldInv'
    BY <1>26 DEF WorkerDies, Suffers, Strikes
<1>27. ASSUME NEW l \in Launches, DriverDies(l) PROVE HeldInv'
    BY <1>27 DEF DriverDies, Suffers, Strikes
<1>28. ASSUME UNCHANGED vars PROVE HeldInv'
    BY <1>28 DEF vars
<1> QED
    BY <1>1, <1>2, <1>3, <1>4, <1>5, <1>6, <1>7, <1>8, <1>9, <1>10, <1>11,
       <1>12, <1>13, <1>14, <1>15, <1>16, <1>17, <1>18, <1>19, <1>20, <1>21,
       <1>22, <1>23, <1>24, <1>25, <1>26, <1>27, <1>28
    DEF Next, WorkerStep, DriverStep

(* A step of a launch, or a fault that strikes it, is of a launch at work and *)
(* leaves the other launches where they are.                                 *)
Steps(l) == WorkerStep(l) \/ DriverStep(l) \/ WallHits(l) \/ WorkerDies(l) \/ DriverDies(l)
Frame(l) ==
    /\ AtWork(l)
    /\ launch' = launch /\ overlap' = overlap /\ pin' = pin
    /\ \A k \in Launches : k # l =>
          /\ worker'[k] = worker[k] /\ driver'[k] = driver[k] /\ read'[k] = read[k]
          /\ harm'[k] = harm[k] /\ packet'[k] = packet[k]

LEMMA OneSteps ==
    ASSUME TypeOK, NEW l \in Launches, Steps(l)
    PROVE  Frame(l)
<1> USE DEF TypeOK, Frame, AtWork, Busy, Driving, Works, Drives, KeepDriver, KeepFiles, KeepHarm,
        daemon, outside
<1>1. CASE Clean(l)
    BY <1>1 DEF Clean
<1>2. CASE Clone(l)
    BY <1>2 DEF Clone
<1>3. CASE Checkout(l)
    BY <1>3 DEF Checkout
<1>4. CASE Spawn(l)
    BY <1>4 DEF Spawn
<1>5. CASE FetchFails(l)
    BY <1>5 DEF FetchFails, HandsOver
<1>6. CASE DriverOverruns(l)
    BY <1>6 DEF DriverOverruns, HandsOver, Strikes
<1>7. CASE Accept(l)
    BY <1>7 DEF Accept, HandsOver
<1>8. CASE Select(l)
    BY <1>8 DEF Select
<1>9. CASE Belief(l)
    BY <1>9 DEF Belief
<1>10. CASE Boot(l)
    BY <1>10 DEF Boot
<1>11. CASE BootFails(l)
    BY <1>11 DEF BootFails, Suffers, Strikes
<1>12. CASE Provision(l)
    BY <1>12 DEF Provision
<1>13. CASE ProvisionFails(l)
    BY <1>13 DEF ProvisionFails, Suffers, Strikes
<1>14. CASE Replace(l)
    BY <1>14 DEF Replace, MayRefuse, Suffers, Strikes
<1>15. CASE ReplaceFails(l)
    BY <1>15 DEF ReplaceFails, MayRefuse, Suffers, Strikes
<1>16. CASE LoopReturns(l)
    BY <1>16 DEF LoopReturns
<1>17. CASE LoopRaises(l)
    BY <1>17 DEF LoopRaises
<1>18. CASE Close(l)
    BY <1>18 DEF Close, MayRefuse, Suffers, Strikes
<1>19. CASE Render(l)
    BY <1>19 DEF Render
<1>20. CASE RenderNothing(l)
    BY <1>20 DEF RenderNothing
<1>21. CASE Write(l)
    BY <1>21 DEF Write
<1>22. CASE WriteFails(l)
    BY <1>22 DEF WriteFails, Suffers, Strikes
<1>23. CASE WallHits(l)
    BY <1>23 DEF WallHits, Suffers, Strikes
<1>24. CASE WorkerDies(l)
    BY <1>24 DEF WorkerDies, Suffers, Strikes
<1>25. CASE DriverDies(l)
    BY <1>25 DEF DriverDies, Suffers, Strikes
<1> QED
    BY <1>1, <1>2, <1>3, <1>4, <1>5, <1>6, <1>7, <1>8, <1>9, <1>10, <1>11,
       <1>12, <1>13, <1>14, <1>15, <1>16, <1>17, <1>18, <1>19, <1>20, <1>21,
       <1>22, <1>23, <1>24, <1>25
    DEF Steps, WorkerStep, DriverStep

LEMMA AloneStep == TypeOK /\ StageInv /\ AloneInv /\ [Next]_vars => AloneInv'
<1> SUFFICES ASSUME TypeOK, StageInv, AloneInv, [Next]_vars PROVE AloneInv'
    OBVIOUS
<1>1. ASSUME Launch PROVE AloneInv'
    <2>1. /\ worker[launch + 1] = "idle" /\ launch + 1 \in Launches
          /\ worker' = [worker EXCEPT ![launch + 1] = "clean"] /\ driver' = driver
        BY <1>1, BoundAssumption DEF Launch, Works, KeepDriver, Launches, TypeOK
    <2>2. \A k \in Launches : k # launch + 1 => (AtWork(k)' <=> AtWork(k))
        BY <2>1 DEF AtWork, TypeOK
    <2>3. \A k \in Launches : AtWork(k) => k \in overlap' /\ launch + 1 \in overlap'
        BY <1>1 DEF Launch
    <2>4. overlap \subseteq overlap'
        BY <1>1 DEF Launch
    <2> QED
        BY <2>2, <2>3, <2>4 DEF AloneInv
<1>2. ASSUME HeadMoves PROVE AloneInv'
    BY <1>2 DEF HeadMoves, KeepDriver, AloneInv, AtWork
<1>3. ASSUME NEW l \in Launches, Steps(l) PROVE AloneInv'
    <2>1. Frame(l)
        BY <1>3, OneSteps
    <2>2. \A k \in Launches : AtWork(k)' => AtWork(k)
        BY <2>1 DEF Frame, AtWork
    <2> QED
        BY <2>1, <2>2 DEF AloneInv, Frame
<1>4. CASE UNCHANGED vars
    BY <1>4 DEF vars, outside, AloneInv, AtWork
<1> QED
    BY <1>1, <1>2, <1>3, <1>4 DEF Next, Steps

(* A launch that runs alone draws what it hands over from its own checkout. *)
LEMMA OwnSteps ==
    ASSUME TypeOK, StageInv, NEW l \in Launches, OwnFiles(l), OwnPacket(l), Steps(l)
    PROVE  OwnFiles(l)' /\ OwnPacket(l)'
<1> USE DEF TypeOK, StageInv, Stage, OwnFiles, OwnPacket, Drawn, OwnCheckout, Busy, Driving, Works,
        Drives, KeepDriver, KeepFiles, KeepHarm, daemon, outside
<1>1. CASE Clean(l)
    BY <1>1 DEF Clean
<1>2. CASE Clone(l)
    BY <1>2 DEF Clone
<1>3. CASE Checkout(l)
    BY <1>3 DEF Checkout
<1>4. CASE Spawn(l)
    BY <1>4 DEF Spawn, Unread
<1>5. CASE FetchFails(l)
    BY <1>5 DEF FetchFails, HandsOver, Failed, NoPacket
<1>6. CASE DriverOverruns(l)
    <2>1. packet'[l].status = "error" /\ worker'[l] = "done"
        BY <1>6 DEF DriverOverruns, HandsOver, Failed, NoPacket
    <2> QED
        BY <2>1
<1>7. CASE Accept(l)
    <2>1. PICK b \in {read[l].base} \cup (IF driver[l] = "dead" THEN {NoSource} ELSE {}) :
              packet' = [packet EXCEPT ![l] = IF setup = NoScript THEN Failed
                         ELSE [status |-> "produced", script |-> setup, base |-> b]]
        BY <1>7 DEF Accept, HandsOver
    <2>2. /\ worker[l] = "drive" /\ worker'[l] = "done" /\ driver[l] \in {"exited", "dead"}
          /\ UNCHANGED <<setup, src, harm, pin>>
        BY <1>7 DEF Accept
    <2>3. OwnFiles(l)'
        BY <2>2
    <2>4. CASE setup = NoScript
        BY <2>1, <2>3, <2>4 DEF Failed, NoPacket
    <2>5. CASE setup # NoScript
        <3>1. /\ packet'[l].status = "produced" /\ packet'[l].script = setup
              /\ packet'[l].base = b
            BY <2>1, <2>5
        <3>2. /\ setup.by = l /\ setup.graph = read[l].graph /\ read[l].base = src
              /\ setup.whole \/ harm[l] \cap {"killed", "diskfull"} # {}
              /\ setup.graph \in {NoSource, src} /\ OwnCheckout(src, l)
            BY <2>2, <2>5
        <3>3. b = src \/ (b = NoSource /\ "killed" \in harm[l])
            BY <2>1, <2>2, <3>2
        <3> QED
            BY <2>2, <2>3, <3>1, <3>2, <3>3
    <2> QED
        BY <2>4, <2>5
<1>8. CASE Select(l)
    <2>1. read[l] = Unread /\ Unread.graph = NoSource /\ worker'[l] = worker[l]
        BY <1>8 DEF Select, Unread
    <2>2. CASE driver'[l] = "belief"
        <3>1. read' = [read EXCEPT ![l].base = src]
            BY <1>8, <2>2 DEF Select
        <3>2. read'[l] = [base |-> src, graph |-> NoSource]
            BY <2>1, <3>1 DEF Unread
        <3> QED
            BY <1>8, <2>1, <2>2, <3>2 DEF Select
    <2>3. /\ setup' = setup /\ src' = src /\ packet' = packet /\ harm' = harm /\ pin' = pin
          /\ driver[l] = "select" /\ driver'[l] \in {"belief", "exited"}
        BY <1>8 DEF Select
    <2>4. CASE driver'[l] = "exited"
        <3>1. read' = read
            BY <1>8, <2>4 DEF Select
        <3> QED
            BY <2>1, <2>3, <2>4, <3>1
    <2> QED
        BY <2>2, <2>3, <2>4
<1>9. CASE Belief(l)
    BY <1>9 DEF Belief
<1>10. CASE Boot(l)
    BY <1>10 DEF Boot
<1>11. CASE BootFails(l)
    BY <1>11 DEF BootFails, Suffers, Strikes
<1>12. CASE Provision(l)
    BY <1>12 DEF Provision
<1>13. CASE ProvisionFails(l)
    BY <1>13 DEF ProvisionFails, Suffers, Strikes
<1>14. CASE Replace(l)
    BY <1>14 DEF Replace, MayRefuse, Suffers, Strikes
<1>15. CASE ReplaceFails(l)
    BY <1>15 DEF ReplaceFails, MayRefuse, Suffers, Strikes
<1>16. CASE LoopReturns(l)
    BY <1>16 DEF LoopReturns
<1>17. CASE LoopRaises(l)
    BY <1>17 DEF LoopRaises
<1>18. CASE Close(l)
    BY <1>18 DEF Close, MayRefuse, Suffers, Strikes
<1>19. CASE Render(l)
    BY <1>19 DEF Render
<1>20. CASE RenderNothing(l)
    BY <1>20 DEF RenderNothing
<1>21. CASE Write(l)
    BY <1>21 DEF Write
<1>22. CASE WriteFails(l)
    BY <1>22 DEF WriteFails, Suffers, Strikes
<1>23. CASE WallHits(l)
    BY <1>23 DEF WallHits, Suffers, Strikes
<1>24. CASE WorkerDies(l)
    BY <1>24 DEF WorkerDies, Suffers, Strikes
<1>25. CASE DriverDies(l)
    BY <1>25 DEF DriverDies, Suffers, Strikes
<1> QED
    BY <1>1, <1>2, <1>3, <1>4, <1>5, <1>6, <1>7, <1>8, <1>9, <1>10, <1>11,
       <1>12, <1>13, <1>14, <1>15, <1>16, <1>17, <1>18, <1>19, <1>20, <1>21,
       <1>22, <1>23, <1>24, <1>25
    DEF Steps, WorkerStep, DriverStep

(* A launch that is no longer at work, or not yet, has no claim on the files. *)
LEMMA OwnStep == TypeOK /\ StageInv /\ AloneInv /\ OwnInv /\ [Next]_vars => OwnInv'
<1> SUFFICES ASSUME TypeOK, StageInv, AloneInv, OwnInv, [Next]_vars, NEW k \in Launches,
                    k \notin overlap'
             PROVE  OwnFiles(k)' /\ OwnPacket(k)'
    BY DEF OwnInv
<1>1. ASSUME Launch PROVE OwnFiles(k)' /\ OwnPacket(k)'
    <2>1. /\ k \notin overlap /\ UNCHANGED <<src, setup, linked, driver, read, packet, harm, pin>>
        BY <1>1 DEF Launch, KeepDriver, KeepFiles, KeepHarm
    <2>2. k = launch + 1 \/ worker'[k] = worker[k]
        BY <1>1 DEF Launch, Works, TypeOK
    <2>3. k = launch + 1 => worker'[k] = "clean"
        BY <1>1 DEF Launch, Works, TypeOK
    <2>4. OwnFiles(k) /\ OwnPacket(k)
        BY <2>1 DEF OwnInv
    <2> QED
        BY <2>1, <2>2, <2>3, <2>4 DEF OwnFiles, OwnPacket, OwnCheckout, Drawn
<1>2. ASSUME HeadMoves PROVE OwnFiles(k)' /\ OwnPacket(k)'
    <2>1. /\ UNCHANGED <<overlap, src, setup, linked, worker, driver, read, packet, harm, pin>>
        BY <1>2 DEF HeadMoves, KeepDriver, KeepFiles, KeepHarm
    <2> QED
        BY <2>1 DEF OwnInv, OwnFiles, OwnPacket, OwnCheckout, Drawn
<1>3. ASSUME NEW l \in Launches, Steps(l) PROVE OwnFiles(k)' /\ OwnPacket(k)'
    <2>1. Frame(l)
        BY <1>3, OneSteps
    <2>2. k \notin overlap
        BY <2>1 DEF Frame
    <2>3. OwnFiles(k) /\ OwnPacket(k)
        BY <2>2 DEF OwnInv
    <2>4. CASE k = l
        BY <1>3, <2>3, <2>4, OwnSteps
    <2>5. CASE k # l
        <3>1. worker[k] \notin Busy
            BY <2>1, <2>2, <2>5 DEF Frame, AloneInv, AtWork
        <3>2. /\ worker'[k] = worker[k] /\ packet'[k] = packet[k] /\ harm'[k] = harm[k]
              /\ pin' = pin
            BY <2>1, <2>5 DEF Frame
        <3> QED
            BY <2>3, <3>1, <3>2 DEF OwnFiles, OwnPacket, OwnCheckout, Busy
    <2> QED
        BY <2>4, <2>5
<1>4. CASE UNCHANGED vars
    BY <1>4 DEF vars, daemon, outside, OwnInv, OwnFiles, OwnPacket, OwnCheckout, Drawn
<1> QED
    BY <1>1, <1>2, <1>3, <1>4 DEF Next, Steps

(* At first nothing runs, nothing is on disk and nothing has been handed over. *)
LEMMA InitIInv == Init => IInv
<1> SUFFICES ASSUME Init PROVE IInv
    OBVIOUS
<1> USE BoundAssumption DEF Init
<1>1. TypeOK
    <2>1. head \in Commits /\ pin \in Commits \cup {NoCommit}
        BY DEF Commits, NoCommit
    <2> QED
        BY <2>1, Members DEF TypeOK
<1>2. HeldInv /\ StageInv
    BY DEF HeldInv, Held, StageInv, Stage, Unharmed
<1>3. AloneInv
    BY DEF AloneInv, AtWork, Busy, Driving
<1>4. OwnInv
    BY DEF OwnInv, OwnFiles, OwnPacket, NoPacket
<1> QED
    BY <1>1, <1>2, <1>3, <1>4 DEF IInv

(* The strengthening is inductive. *)
LEMMA IInvStep == IInv /\ [Next]_vars => IInv'
    BY TypeStep, HeldStep, StageStep, AloneStep, OwnStep DEF IInv

-----------------------------------------------------------------------------
(* The strengthening holds throughout. *)
THEOREM Inductive == Spec => []IInv
    BY InitIInv, IInvStep, PTL DEF Spec

(* The variables of the launches keep their types. *)
THEOREM TypeCorrect == Spec => []TypeOK
<1>1. IInv => TypeOK
    BY DEF IInv
<1> QED
    BY Inductive, <1>1, PTL

(* A packet of a launch that ran alone is all of that launch: its checkout,  *)
(* its base image, its driver's script.                                       *)
THEOREM ArtifactOwn == Spec => []ArtifactIsOwn
<1>1. IInv => ArtifactIsOwn
    BY DEF IInv, OwnInv, OwnPacket, ArtifactIsOwn
<1> QED
    BY Inductive, <1>1, PTL

(* A launch that ends without a kill, a refusal or a failed constructor      *)
(* leaves no container and no snapshot.                                       *)
THEOREM NothingLeft == Spec => []NothingLeftBehind
<1>1. IInv => NothingLeftBehind
    <2> SUFFICES ASSUME IInv, NEW l \in Launches, Ended(l), Unharmed(l)
                 PROVE  box[l] = "none" /\ snap[l] = "none" /\ ~stray[l]
        BY DEF NothingLeftBehind, Unharmed
    <2>1. driver[l] \in Driving \cup {"none", "exited", "dead"} /\ driver[l] \notin Driving
        BY DEF IInv, TypeOK, Ended
    <2> QED
        BY <2>1 DEF IInv, HeldInv, Held
<1> QED
    BY Inductive, <1>1, PTL
=============================================================================
