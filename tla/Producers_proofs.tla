-------------------------- MODULE Producers_proofs --------------------------
(* Where the file behind a packet comes from, for every number of launches. *)
EXTENDS Producers, TLAPS

Before  == {"start", "fetch", "clone", "checkout", "tool"}
Invoked == {"fetch", "clone", "checkout", "tool", "writing", "wrote", "read", "packet", "marker"}
Written == {"writing", "wrote", "read", "packet", "marker", "row"}

(* A worker is there only once it has been launched. *)
Underway == pc # "off" => launch > 0

(* A marked repository has a packet and is never worked on again. *)
MarkInv ==
    /\ marker => packet.status = "produced"
    /\ pc \in Invoked => ~marker
    /\ row = "success" => marker \/ done
    /\ pc = "marker" => env.status = "produced" /\ packet = env
    /\ (pc = "row" /\ env.status = "produced") => marker

(* The file on disk is of this launch, of one that came to nothing, or of a *)
(* repository that is marked.                                               *)
LeftInv ==
    left # NoFile =>
        /\ left.by \in 1..launch
        /\ left.by \in spoilt \/ marker \/ (left.by = launch /\ pc \in Written)

(* How far the tool of this launch has come with it. *)
ToolInv ==
    /\ pc \in Before => left = NoFile \/ left.by < launch
    /\ pc \in {"writing", "wrote"} => left.by = launch
    /\ pc = "wrote" => left.whole
    /\ (pc = "read" /\ exit = "ok" /\ left.by = launch) => left.whole
    /\ (tool = "claudecode" /\ pc \in {"clone", "checkout", "tool"}) => left = NoFile
    /\ (tool = "claudecode" /\ pc = "read") => left = NoFile \/ left.by = launch

Explained(e) ==
    e.status = "produced" =>
        LET stale == e.file.by # e.by
        IN  /\ e.file.by # 0
            /\ stale => tool # "claudecode" /\ e.file.by \in spoilt
            /\ ~e.file.whole => /\ tool # "setupx"
                                /\ stale \/ tool \in {"executionagent", "claudecode"}

ExplainInv == Explained(env) /\ Explained(packet)

Pinned(f) == f = NoFile \/ f.commit = pin
PinInv ==
    (pin # NoCommit /\ tool # "executionagent") =>
        /\ (pc = "tool" /\ tool # "sweagent") => tree = pin
        /\ Pinned(left)
        /\ env.status = "produced" => env.file.commit = pin
        /\ packet.status = "produced" => packet.file.commit = pin

IInv == TypeOK /\ Underway /\ MarkInv /\ LeftInv /\ ToolInv /\ ExplainInv /\ PinInv
-----------------------------------------------------------------------------
(* A file that has been written to its end is still a file. *)
LEMMA FileIsFinished ==
    ASSUME NEW f \in Files
    PROVE  [f EXCEPT !.whole = TRUE] \in Files
    BY DEF Files

(* Every step keeps the types. *)
LEMMA TypeStep == TypeOK /\ Underway /\ [Next]_vars => TypeOK'
<1> SUFFICES ASSUME TypeOK /\ Underway, [Next]_vars PROVE TypeOK'
    OBVIOUS
<1> USE BoundAssumption
    DEF TypeOK, Underway, Tools, Launches, Commits, NoCommit, NoTree, HalfTree, Files, NoFile, Envs,
        NoEnv, Working, Goes, KeepRun, KeepFiles, remote, runner, outdir, vars
<1>1. CASE Launch
    BY <1>1 DEF Launch
<1>2. CASE SkipSettled
    BY <1>2 DEF SkipSettled, Settled
<1>3. CASE Resume
    BY <1>3 DEF Resume, Settled
<1>4. CASE Invoke
    BY <1>4 DEF Invoke, Settled
<1>5. CASE Renew
    BY <1>5 DEF Renew
<1>6. CASE Reuse
    BY <1>6 DEF Reuse, Fetches
<1>7. CASE CloneStarts
    BY <1>7 DEF CloneStarts, Fetches
<1>8. CASE CloneEnds
    BY <1>8 DEF CloneEnds, Fetches
<1>9. CASE Checkout
    BY <1>9 DEF Checkout, Fetches
<1>10. CASE Mirror
    BY <1>10 DEF Mirror, Fetches
<1>11. CASE NoFetch
    BY <1>11 DEF NoFetch, Fetches
<1>12. CASE FetchFails
    BY <1>12 DEF FetchFails, Fails
<1>13. CASE ToolOpens
    BY <1>13 DEF ToolOpens
<1>14. CASE ToolWrites
    <2>1. left' \in Files
        BY <1>14, FileIsFinished DEF ToolWrites
    <2> QED
        BY <1>14, <2>1 DEF ToolWrites
<1>15. CASE ToolReports
    BY <1>15 DEF ToolReports
<1>16. CASE ToolEnds
    BY <1>16 DEF ToolEnds
<1>17. CASE ToolOverruns
    BY <1>17 DEF ToolOverruns, Fails
<1>18. CASE ReadProduced
    BY <1>18 DEF ReadProduced, Acceptable
<1>19. CASE ReadNothing
    BY <1>19 DEF ReadNothing, Fails
<1>20. CASE WritePacket
    BY <1>20 DEF WritePacket
<1>21. CASE WriteMarker
    BY <1>21 DEF WriteMarker
<1>22. CASE WriteRow
    BY <1>22 DEF WriteRow
<1>23. CASE HeadMoves
    BY <1>23 DEF HeadMoves
<1>24. CASE Killed
    BY <1>24 DEF Killed
<1>25. CASE UNCHANGED vars
    BY <1>25
<1> QED
    BY <1>1, <1>2, <1>3, <1>4, <1>5, <1>6, <1>7, <1>8, <1>9, <1>10, <1>11,
       <1>12, <1>13, <1>14, <1>15, <1>16, <1>17, <1>18, <1>19, <1>20, <1>21,
       <1>22, <1>23, <1>24, <1>25
    DEF Next

(* A launch counts itself. *)
LEMMA UnderwayStep == TypeOK /\ Underway /\ [Next]_vars => Underway'
<1> SUFFICES ASSUME TypeOK /\ Underway, [Next]_vars PROVE Underway'
    OBVIOUS
<1> USE DEF TypeOK, Underway, Working, Goes, KeepRun, KeepFiles, remote, runner, outdir, vars
<1>1. CASE Launch
    BY <1>1 DEF Launch
<1>2. CASE SkipSettled
    BY <1>2 DEF SkipSettled, Settled
<1>3. CASE Resume
    BY <1>3 DEF Resume, Settled
<1>4. CASE Invoke
    BY <1>4 DEF Invoke, Settled
<1>5. CASE Renew
    BY <1>5 DEF Renew
<1>6. CASE Reuse
    BY <1>6 DEF Reuse, Fetches
<1>7. CASE CloneStarts
    BY <1>7 DEF CloneStarts, Fetches
<1>8. CASE CloneEnds
    BY <1>8 DEF CloneEnds, Fetches
<1>9. CASE Checkout
    BY <1>9 DEF Checkout, Fetches
<1>10. CASE Mirror
    BY <1>10 DEF Mirror, Fetches
<1>11. CASE NoFetch
    BY <1>11 DEF NoFetch, Fetches
<1>12. CASE FetchFails
    BY <1>12 DEF FetchFails, Fails
<1>13. CASE ToolOpens
    BY <1>13 DEF ToolOpens
<1>14. CASE ToolWrites
    BY <1>14 DEF ToolWrites
<1>15. CASE ToolReports
    BY <1>15 DEF ToolReports
<1>16. CASE ToolEnds
    BY <1>16 DEF ToolEnds
<1>17. CASE ToolOverruns
    BY <1>17 DEF ToolOverruns, Fails
<1>18. CASE ReadProduced
    BY <1>18 DEF ReadProduced, Acceptable
<1>19. CASE ReadNothing
    BY <1>19 DEF ReadNothing, Fails
<1>20. CASE WritePacket
    BY <1>20 DEF WritePacket
<1>21. CASE WriteMarker
    BY <1>21 DEF WriteMarker
<1>22. CASE WriteRow
    BY <1>22 DEF WriteRow
<1>23. CASE HeadMoves
    BY <1>23 DEF HeadMoves
<1>24. CASE Killed
    BY <1>24 DEF Killed
<1>25. CASE UNCHANGED vars
    BY <1>25
<1> QED
    BY <1>1, <1>2, <1>3, <1>4, <1>5, <1>6, <1>7, <1>8, <1>9, <1>10, <1>11,
       <1>12, <1>13, <1>14, <1>15, <1>16, <1>17, <1>18, <1>19, <1>20, <1>21,
       <1>22, <1>23, <1>24, <1>25
    DEF Next

(* The marker is written behind a produced packet and bars the way to the tool. *)
LEMMA MarkStep == MarkInv /\ [Next]_vars => MarkInv'
<1> SUFFICES ASSUME MarkInv, [Next]_vars PROVE MarkInv'
    OBVIOUS
<1> USE DEF MarkInv, Invoked, Working, NoEnv, Goes, KeepRun, KeepFiles, remote, runner, outdir, vars
<1>1. CASE Launch
    BY <1>1 DEF Launch
<1>2. CASE SkipSettled
    BY <1>2 DEF SkipSettled, Settled
<1>3. CASE Resume
    BY <1>3 DEF Resume, Settled
<1>4. CASE Invoke
    BY <1>4 DEF Invoke, Settled
<1>5. CASE Renew
    BY <1>5 DEF Renew
<1>6. CASE Reuse
    BY <1>6 DEF Reuse, Fetches
<1>7. CASE CloneStarts
    BY <1>7 DEF CloneStarts, Fetches
<1>8. CASE CloneEnds
    BY <1>8 DEF CloneEnds, Fetches
<1>9. CASE Checkout
    BY <1>9 DEF Checkout, Fetches
<1>10. CASE Mirror
    BY <1>10 DEF Mirror, Fetches
<1>11. CASE NoFetch
    BY <1>11 DEF NoFetch, Fetches
<1>12. CASE FetchFails
    BY <1>12 DEF FetchFails, Fails
<1>13. CASE ToolOpens
    BY <1>13 DEF ToolOpens
<1>14. CASE ToolWrites
    BY <1>14 DEF ToolWrites
<1>15. CASE ToolReports
    BY <1>15 DEF ToolReports
<1>16. CASE ToolEnds
    BY <1>16 DEF ToolEnds
<1>17. CASE ToolOverruns
    BY <1>17 DEF ToolOverruns, Fails
<1>18. CASE ReadProduced
    BY <1>18 DEF ReadProduced, Acceptable
<1>19. CASE ReadNothing
    BY <1>19 DEF ReadNothing, Fails
<1>20. CASE WritePacket
    BY <1>20 DEF WritePacket
<1>21. CASE WriteMarker
    BY <1>21 DEF WriteMarker
<1>22. CASE WriteRow
    BY <1>22 DEF WriteRow
<1>23. CASE HeadMoves
    BY <1>23 DEF HeadMoves
<1>24. CASE Killed
    BY <1>24 DEF Killed
<1>25. CASE UNCHANGED vars
    BY <1>25
<1> QED
    BY <1>1, <1>2, <1>3, <1>4, <1>5, <1>6, <1>7, <1>8, <1>9, <1>10, <1>11,
       <1>12, <1>13, <1>14, <1>15, <1>16, <1>17, <1>18, <1>19, <1>20, <1>21,
       <1>22, <1>23, <1>24, <1>25
    DEF Next

(* Whoever leaves a file on disk without handing it over is spoilt. *)
LEMMA LeftStep == IInv /\ [Next]_vars => LeftInv'
<1> SUFFICES ASSUME IInv, [Next]_vars PROVE LeftInv'
    OBVIOUS
<1> USE BoundAssumption
    DEF IInv, TypeOK, Underway, LeftInv, MarkInv, ToolInv, Before, Invoked, Written, Working,
        Files, NoFile, Commits, Launches, NoTree, HalfTree, NoCommit, Goes, KeepRun, KeepFiles, remote, runner, outdir, vars
<1>1. CASE Launch
    BY <1>1 DEF Launch
<1>2. CASE SkipSettled
    BY <1>2 DEF SkipSettled, Settled
<1>3. CASE Resume
    BY <1>3 DEF Resume, Settled
<1>4. CASE Invoke
    BY <1>4 DEF Invoke, Settled
<1>5. CASE Renew
    BY <1>5 DEF Renew
<1>6. CASE Reuse
    BY <1>6 DEF Reuse, Fetches
<1>7. CASE CloneStarts
    BY <1>7 DEF CloneStarts, Fetches
<1>8. CASE CloneEnds
    BY <1>8 DEF CloneEnds, Fetches
<1>9. CASE Checkout
    BY <1>9 DEF Checkout, Fetches
<1>10. CASE Mirror
    BY <1>10 DEF Mirror, Fetches
<1>11. CASE NoFetch
    BY <1>11 DEF NoFetch, Fetches
<1>12. CASE FetchFails
    BY <1>12 DEF FetchFails, Fails
<1>13. CASE ToolOpens
    BY <1>13 DEF ToolOpens
<1>14. CASE ToolWrites
    <2>1. left' = [by |-> left.by, commit |-> left.commit, whole |-> TRUE]
        BY <1>14 DEF ToolWrites
    <2>2. left \in Files
        BY DEF IInv, TypeOK
    <2>3. /\ left'.by = left.by /\ left'.commit = left.commit /\ left'.whole
          /\ left.by = launch /\ launch > 0 /\ launch' = launch
        BY <1>14, <2>1 DEF ToolWrites
    <2> QED
        BY <1>14, <2>2, <2>3 DEF ToolWrites
<1>15. CASE ToolReports
    BY <1>15 DEF ToolReports
<1>16. CASE ToolEnds
    BY <1>16 DEF ToolEnds
<1>17. CASE ToolOverruns
    BY <1>17 DEF ToolOverruns, Fails
<1>18. CASE ReadProduced
    BY <1>18 DEF ReadProduced, Acceptable
<1>19. CASE ReadNothing
    BY <1>19 DEF ReadNothing, Fails
<1>20. CASE WritePacket
    BY <1>20 DEF WritePacket
<1>21. CASE WriteMarker
    BY <1>21 DEF WriteMarker
<1>22. CASE WriteRow
    BY <1>22 DEF WriteRow
<1>23. CASE HeadMoves
    BY <1>23 DEF HeadMoves
<1>24. CASE Killed
    BY <1>24 DEF Killed
<1>25. CASE UNCHANGED vars
    BY <1>25
<1> QED
    BY <1>1, <1>2, <1>3, <1>4, <1>5, <1>6, <1>7, <1>8, <1>9, <1>10, <1>11,
       <1>12, <1>13, <1>14, <1>15, <1>16, <1>17, <1>18, <1>19, <1>20, <1>21,
       <1>22, <1>23, <1>24, <1>25
    DEF Next

(* What the tool has left is followed from stage to stage. *)
LEMMA ToolStep == IInv /\ [Next]_vars => ToolInv'
<1> SUFFICES ASSUME IInv, [Next]_vars PROVE ToolInv'
    OBVIOUS
<1> USE BoundAssumption
    DEF IInv, TypeOK, Underway, LeftInv, ToolInv, Before, Written, Working, Files, NoFile, Commits,
        NoTree, HalfTree, NoCommit, Goes, KeepRun, KeepFiles, remote, runner, outdir, vars
<1>1. CASE Launch
    BY <1>1 DEF Launch
<1>2. CASE SkipSettled
    BY <1>2 DEF SkipSettled, Settled
<1>3. CASE Resume
    BY <1>3 DEF Resume, Settled
<1>4. CASE Invoke
    BY <1>4 DEF Invoke, Settled
<1>5. CASE Renew
    BY <1>5 DEF Renew
<1>6. CASE Reuse
    BY <1>6 DEF Reuse, Fetches
<1>7. CASE CloneStarts
    BY <1>7 DEF CloneStarts, Fetches
<1>8. CASE CloneEnds
    BY <1>8 DEF CloneEnds, Fetches
<1>9. CASE Checkout
    BY <1>9 DEF Checkout, Fetches
<1>10. CASE Mirror
    BY <1>10 DEF Mirror, Fetches
<1>11. CASE NoFetch
    BY <1>11 DEF NoFetch, Fetches
<1>12. CASE FetchFails
    BY <1>12 DEF FetchFails, Fails
<1>13. CASE ToolOpens
    BY <1>13 DEF ToolOpens
<1>14. CASE ToolWrites
    BY <1>14 DEF ToolWrites
<1>15. CASE ToolReports
    BY <1>15 DEF ToolReports
<1>16. CASE ToolEnds
    <2>1. /\ exit' = "ok" => exit' # "failed" /\ pc # "writing"
          /\ pc \in {"tool", "wrote", "writing"} /\ pc' = "read" /\ left' = left
          /\ launch' = launch /\ tool' = tool /\ launch > 0 /\ launch \in Nat
        BY <1>16 DEF ToolEnds
    <2>2. pc = "tool" => left = NoFile \/ left.by < launch
        OBVIOUS
    <2> QED
        BY <2>1, <2>2
<1>17. CASE ToolOverruns
    BY <1>17 DEF ToolOverruns, Fails
<1>18. CASE ReadProduced
    BY <1>18 DEF ReadProduced, Acceptable
<1>19. CASE ReadNothing
    BY <1>19 DEF ReadNothing, Fails
<1>20. CASE WritePacket
    BY <1>20 DEF WritePacket
<1>21. CASE WriteMarker
    BY <1>21 DEF WriteMarker
<1>22. CASE WriteRow
    BY <1>22 DEF WriteRow
<1>23. CASE HeadMoves
    BY <1>23 DEF HeadMoves
<1>24. CASE Killed
    BY <1>24 DEF Killed
<1>25. CASE UNCHANGED vars
    BY <1>25
<1> QED
    BY <1>1, <1>2, <1>3, <1>4, <1>5, <1>6, <1>7, <1>8, <1>9, <1>10, <1>11,
       <1>12, <1>13, <1>14, <1>15, <1>16, <1>17, <1>18, <1>19, <1>20, <1>21,
       <1>22, <1>23, <1>24, <1>25
    DEF Next

(* Only ReadProduced makes a produced result, of the file it finds. *)
LEMMA ExplainStep == IInv /\ [Next]_vars => ExplainInv'
<1> SUFFICES ASSUME IInv, [Next]_vars PROVE ExplainInv'
    OBVIOUS
<1> USE DEF IInv, ExplainInv, Explained, LeftInv, MarkInv, ToolInv, Invoked, Written, NoEnv,
        Goes, KeepRun, KeepFiles, remote, runner, outdir, vars
<1>1. CASE Launch
    BY <1>1 DEF Launch
<1>2. CASE SkipSettled
    BY <1>2 DEF SkipSettled, Settled
<1>3. CASE Resume
    BY <1>3 DEF Resume, Settled
<1>4. CASE Invoke
    BY <1>4 DEF Invoke, Settled
<1>5. CASE Renew
    BY <1>5 DEF Renew
<1>6. CASE Reuse
    BY <1>6 DEF Reuse, Fetches
<1>7. CASE CloneStarts
    BY <1>7 DEF CloneStarts, Fetches
<1>8. CASE CloneEnds
    BY <1>8 DEF CloneEnds, Fetches
<1>9. CASE Checkout
    BY <1>9 DEF Checkout, Fetches
<1>10. CASE Mirror
    BY <1>10 DEF Mirror, Fetches
<1>11. CASE NoFetch
    BY <1>11 DEF NoFetch, Fetches
<1>12. CASE FetchFails
    BY <1>12 DEF FetchFails, Fails
<1>13. CASE ToolOpens
    BY <1>13 DEF ToolOpens
<1>14. CASE ToolWrites
    BY <1>14 DEF ToolWrites
<1>15. CASE ToolReports
    BY <1>15 DEF ToolReports
<1>16. CASE ToolEnds
    BY <1>16 DEF ToolEnds
<1>17. CASE ToolOverruns
    BY <1>17 DEF ToolOverruns, Fails
<1>18. CASE ReadProduced
    <2>1. /\ env' = [status |-> "produced", by |-> launch, file |-> left]
          /\ left # NoFile /\ pc = "read" /\ UNCHANGED <<tool, spoilt, packet>>
        BY <1>18 DEF ReadProduced, Acceptable
    <2>2. /\ left.by \in 1..launch
          /\ left.by = launch \/ left.by \in spoilt
        BY <2>1
    <2>3. left.by # 0
        BY <2>2 DEF TypeOK
    <2>4. left.by # launch => tool # "claudecode"
        BY <2>1
    <2>5. ~left.whole => tool # "setupx"
        BY <1>18 DEF ReadProduced, Acceptable
    <2>6. ~left.whole /\ left.by = launch => tool \in {"executionagent", "claudecode"}
        BY <1>18, <2>1 DEF ReadProduced, Acceptable, TypeOK, Tools
    <2>7. Explained(env)'
        BY <2>1, <2>2, <2>3, <2>4, <2>5, <2>6
    <2> QED
        BY <2>1, <2>7
<1>19. CASE ReadNothing
    BY <1>19 DEF ReadNothing, Fails
<1>20. CASE WritePacket
    BY <1>20 DEF WritePacket
<1>21. CASE WriteMarker
    BY <1>21 DEF WriteMarker
<1>22. CASE WriteRow
    BY <1>22 DEF WriteRow
<1>23. CASE HeadMoves
    BY <1>23 DEF HeadMoves
<1>24. CASE Killed
    BY <1>24 DEF Killed
<1>25. CASE UNCHANGED vars
    BY <1>25
<1> QED
    BY <1>1, <1>2, <1>3, <1>4, <1>5, <1>6, <1>7, <1>8, <1>9, <1>10, <1>11,
       <1>12, <1>13, <1>14, <1>15, <1>16, <1>17, <1>18, <1>19, <1>20, <1>21,
       <1>22, <1>23, <1>24, <1>25
    DEF Next

(* With a pin, every tree that is worked on is the pinned one. *)
LEMMA PinStep == IInv /\ [Next]_vars => PinInv'
<1> SUFFICES ASSUME IInv, [Next]_vars PROVE PinInv'
    OBVIOUS
<1> USE BoundAssumption
    DEF IInv, TypeOK, PinInv, Pinned, Commits, NoTree, HalfTree, NoCommit, Files, NoFile, NoEnv,
        Goes, KeepRun, KeepFiles, remote, runner, outdir, vars
<1>1. CASE Launch
    BY <1>1 DEF Launch
<1>2. CASE SkipSettled
    BY <1>2 DEF SkipSettled, Settled
<1>3. CASE Resume
    BY <1>3 DEF Resume, Settled
<1>4. CASE Invoke
    BY <1>4 DEF Invoke, Settled
<1>5. CASE Renew
    BY <1>5 DEF Renew
<1>6. CASE Reuse
    BY <1>6 DEF Reuse, Fetches
<1>7. CASE CloneStarts
    BY <1>7 DEF CloneStarts, Fetches
<1>8. CASE CloneEnds
    BY <1>8 DEF CloneEnds, Fetches
<1>9. CASE Checkout
    BY <1>9 DEF Checkout, Fetches
<1>10. CASE Mirror
    BY <1>10 DEF Mirror, Fetches
<1>11. CASE NoFetch
    BY <1>11 DEF NoFetch, Fetches
<1>12. CASE FetchFails
    BY <1>12 DEF FetchFails, Fails
<1>13. CASE ToolOpens
    BY <1>13 DEF ToolOpens
<1>14. CASE ToolWrites
    <2>1. left' = [by |-> left.by, commit |-> left.commit, whole |-> TRUE]
        BY <1>14 DEF ToolWrites
    <2>2. left \in Files
        BY DEF IInv, TypeOK
    <2>3. /\ left'.by = left.by /\ left'.commit = left.commit /\ left'.whole
          /\ left # NoFile
        BY <1>14, <2>1 DEF ToolWrites, ToolInv, Underway
    <2> QED
        BY <1>14, <2>2, <2>3 DEF ToolWrites
<1>15. CASE ToolReports
    BY <1>15 DEF ToolReports
<1>16. CASE ToolEnds
    BY <1>16 DEF ToolEnds
<1>17. CASE ToolOverruns
    BY <1>17 DEF ToolOverruns, Fails
<1>18. CASE ReadProduced
    BY <1>18 DEF ReadProduced, Acceptable
<1>19. CASE ReadNothing
    BY <1>19 DEF ReadNothing, Fails
<1>20. CASE WritePacket
    BY <1>20 DEF WritePacket
<1>21. CASE WriteMarker
    BY <1>21 DEF WriteMarker
<1>22. CASE WriteRow
    BY <1>22 DEF WriteRow
<1>23. CASE HeadMoves
    BY <1>23 DEF HeadMoves
<1>24. CASE Killed
    BY <1>24 DEF Killed
<1>25. CASE UNCHANGED vars
    BY <1>25
<1> QED
    BY <1>1, <1>2, <1>3, <1>4, <1>5, <1>6, <1>7, <1>8, <1>9, <1>10, <1>11,
       <1>12, <1>13, <1>14, <1>15, <1>16, <1>17, <1>18, <1>19, <1>20, <1>21,
       <1>22, <1>23, <1>24, <1>25
    DEF Next

(* Before the first launch nothing is marked, left, or handed over. *)
LEMMA InitIInv == Init => IInv
<1> SUFFICES ASSUME Init PROVE IInv
    OBVIOUS
<1> USE BoundAssumption DEF Init
<1>1. TypeOK
    <2>1. NoFile \in Files /\ NoEnv \in Envs
        BY DEF Files, Envs, Commits, NoCommit, NoFile, NoEnv
    <2> QED
        <3>1. head \in Commits /\ pin \in Commits \cup {NoCommit}
            BY DEF Commits, NoCommit
        <3>2. launch \in 0..MaxLaunches
            OBVIOUS
        <3> QED
            BY <2>1, <3>1, <3>2 DEF TypeOK
<1>2. Underway /\ MarkInv /\ LeftInv
    BY DEF Underway, MarkInv, LeftInv, Invoked
<1>3. ToolInv
    BY DEF ToolInv, Before
<1>4. ExplainInv /\ PinInv
    BY DEF ExplainInv, Explained, PinInv, Pinned, NoEnv
<1> QED
    BY <1>1, <1>2, <1>3, <1>4 DEF IInv

(* The strengthening is inductive: each part is kept by the parts together. *)
LEMMA IInvStep == IInv /\ [Next]_vars => IInv'
    BY TypeStep, UnderwayStep, MarkStep, LeftStep, ToolStep, ExplainStep, PinStep DEF IInv

-----------------------------------------------------------------------------
(* The strengthening holds throughout. *)
THEOREM Inductive == Spec => []IInv
    BY InitIInv, IInvStep, PTL DEF Spec

(* The variables of one repository stay within their types. *)
THEOREM TypeCorrect == Spec => []TypeOK
<1>1. IInv => TypeOK
    BY DEF IInv
<1> QED
    BY Inductive, <1>1, PTL

(* A packet's file is of its own launch, or was left by one that came to     *)
(* nothing; the tools whose end or report is checked hand over a whole file,  *)
(* SetupX always and Claude Code's is never that of an earlier launch.        *)
THEOREM ProducedExplained == Spec => []ProducedIsExplained
<1>1. IInv => ProducedIsExplained
    BY DEF IInv, ExplainInv, Explained, ProducedIsExplained
<1> QED
    BY Inductive, <1>1, PTL

(* A pinned dataset is analysed at its pin, ExecutionAgent's clones excepted. *)
THEOREM AnalysedPinned == Spec => []AnalysedAtPin
<1>1. IInv => AnalysedAtPin
    BY DEF IInv, PinInv, AnalysedAtPin
<1> QED
    BY Inductive, <1>1, PTL

(* A row that says success has a produced packet beside it, or repo2run's    *)
(* report in the place of the marker.                                         *)
THEOREM SuccessPacket == Spec => []SuccessHasPacket
<1>1. IInv => SuccessHasPacket
    BY DEF IInv, MarkInv, SuccessHasPacket
<1> QED
    BY Inductive, <1>1, PTL
=============================================================================
