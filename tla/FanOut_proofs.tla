---------------------------- MODULE FanOut_proofs ----------------------------
(***************************************************************************)
(* Proofs about FanOut, for any list of repositories, concurrency, number   *)
(* of refill attempts, disk behaviour and number of relaunches.             *)
(***************************************************************************)
EXTENDS FanOut, FiniteSetTheorems, TLAPS

(* A slot under refill has something to launch and an attempt left. *)
RefillInv == pc = "refill" => (pending # <<>> /\ tries # 0)

(* No repository is both pending and in flight, none is pending twice. *)
PendingInv ==
    /\ \A i, j \in DOMAIN pending : pending[i] = pending[j] => i = j
    /\ \A i \in DOMAIN pending : pending[i] \notin futures

Refilling == IF pc = "refill" THEN 1 ELSE 0

(* The slots: all of them are counted as long as something is pending. *)
SlotInv ==
    /\ IsFiniteSet(futures)
    /\ Cardinality(futures) + Refilling + gaveUp <= Concurrency
    /\ pc = "fill" => (Cardinality(futures) = launched /\ gaveUp = 0 /\ batch = {})
    /\ (pc # "fill" /\ pending # <<>>) =>
            Cardinality(futures) + Refilling + gaveUp = Concurrency
    /\ pc \in {"drained", "over"} => futures = {}

(* A live child of this launch has a thread waiting for it, that thread has  *)
(* an unpopped future, and launches to come have no children.                *)
ThreadInv ==
    /\ \A r \in Repos : thread[r] \in {"start", "wait"} => r \in futures \ batch
    /\ \A r \in Repos : child[r][run] \in Live => thread[r] = "wait"
    /\ \A r \in Repos, g \in Launches : g > run => child[r][g] = "none"

IInv == TypeOK /\ RefillInv /\ PendingInv /\ SlotInv /\ ThreadInv

(* A repository nobody has taken up is pending.  As long as no child outlives *)
(* its runner only children of this launch are alive, and a thread that has    *)
(* ended leaves a row that parses, or one that met a full disk.                *)
Queued(r) == \E i \in DOMAIN pending : pending[i] = r
OwnChildren == \A r \in Repos, g \in Launches : child[r][g] \in Live => g = run
RowsLeft == \A r \in Repos : thread[r] = "done" => Readable(r) \/ r \in unwritten
Tallied == \A r \in Repos : thread[r] = "done" => r \in tally \/ r \in unwritten
CoverInv ==
    /\ \A r \in Repos : thread[r] = "idle" => Queued(r)
    /\ ~orphaned => OwnChildren /\ RowsLeft /\ (pc = "over" => Tallied)

-----------------------------------------------------------------------------
LEMMA SubmitFacts ==
    ASSUME TypeOK, Submit
    PROVE  /\ Head(pending) \in Repos
           /\ Tail(pending) \in Seq(Repos)
           /\ pending' = Tail(pending)
           /\ futures' = futures \cup {Head(pending)}
           /\ futures' \in SUBSET Repos
           /\ thread' = [thread EXCEPT ![Head(pending)] = "start"]
           /\ thread' \in [Repos -> {"idle", "start", "wait", "done"}]
  <1>1. pending \in Seq(Repos) /\ pending # <<>>
    BY DEF TypeOK, Submit
  <1>2. Head(pending) \in Repos /\ Tail(pending) \in Seq(Repos)
    BY <1>1
  <1> QED
    BY <1>2 DEF TypeOK, Submit

LEMMA SetChildType ==
    ASSUME TypeOK, NEW r \in Repos, NEW g \in Launches, NEW s \in Stages, SetChild(r, g, s)
    PROVE  child' \in [Repos -> [Launches -> Stages]]
  BY DEF TypeOK, SetChild

LEMMA SynthesizeType ==
    ASSUME TypeOK, NEW r \in Repos, NEW s \in Rows, Synthesize(r, s)
    PROVE  /\ row' \in [Repos -> Rows]
           /\ marker' \in [Repos -> BOOLEAN]
           /\ unwritten' \in SUBSET Repos
  <1>1. "torn" \in Rows
    BY DEF Rows
  <1> QED
    BY <1>1 DEF TypeOK, Synthesize

(* A step of a child moves that child, or leaves it where it is. *)
LEMMA ChildMoves ==
    ASSUME TypeOK, NEW r \in Repos, NEW g \in Launches, ChildStep(r, g)
    PROVE  \E s \in Stages : child' = [child EXCEPT ![r][g] = s]
  <1>1. CASE AgentReports(r, g)
    <2>1. child' = [child EXCEPT ![r][g] = "agent"]
      BY <1>1 DEF AgentReports, TypeOK
    <2> QED
      BY <2>1 DEF Stages
  <1>2. CASE ~AgentReports(r, g)
    BY <1>2 DEF ChildStep, Boot, Invoke, AgentReturns, OpenRow, WriteRow, ChildExits, SetChild,
                Stages
  <1> QED
    BY <1>1, <1>2

(* Type correctness is inductive with RefillInv, which keeps the attempts of  *)
(* a refill positive.                                                         *)
LEMMA TypeStep ==
    ASSUME TypeOK, RefillInv, [Next]_vars
    PROVE  TypeOK'
  <1> USE BoundAssumption
  <1>1. CASE Fill
    <2>1. pending' \in Seq(Repos) /\ futures' \in SUBSET Repos /\ futures \subseteq futures'
          /\ thread' \in [Repos -> {"idle", "start", "wait", "done"}]
      BY <1>1, SubmitFacts DEF Fill
    <2> QED
      BY <1>1, <2>1 DEF Fill, TypeOK, diskVars
  <1>2. CASE FillDone
    BY <1>2 DEF FillDone, TypeOK, diskVars
  <1>3. CASE WaitDone
    BY <1>3 DEF WaitDone, TypeOK, diskVars
  <1>4. CASE Refill
    <2>1. pending' \in Seq(Repos) /\ futures' \in SUBSET Repos /\ futures \subseteq futures'
          /\ thread' \in [Repos -> {"idle", "start", "wait", "done"}]
      BY <1>4, SubmitFacts DEF Refill
    <2> QED
      BY <1>4, <2>1 DEF Refill, TypeOK, diskVars
  <1>5. CASE RefillHeld
    <2>1. tries - 1 \in 0..RefillTries
      BY <1>5 DEF RefillHeld, RefillInv, TypeOK
    <2> QED
      BY <1>5, <2>1 DEF RefillHeld, TypeOK, diskVars
  <1>6. CASE BatchDone
    BY <1>6 DEF BatchDone, TypeOK, diskVars
  <1>7. CASE Drained
    BY <1>7 DEF Drained, TypeOK, diskVars
  <1>8. CASE Aggregate
    BY <1>8 DEF Aggregate, TypeOK, diskVars
  <1>9. ASSUME NEW r \in Repos, Reap(r) PROVE TypeOK'
    BY <1>9 DEF Reap, TypeOK, diskVars
  <1>10. ASSUME NEW r \in Repos, ThreadStep(r) PROVE TypeOK'
    <2> USE DEF TypeOK, schedVars, diskVars, ThreadDone
    <2>1. CASE SkipSettled(r)
      BY <2>1 DEF SkipSettled
    <2>2. CASE Spawn(r)
      <3>1. child' \in [Repos -> [Launches -> Stages]]
        BY <2>2, SetChildType DEF Spawn, Stages
      <3> QED
        BY <2>2, <3>1 DEF Spawn
    <2>3. CASE SpawnFails(r)
      <3>1. row' \in [Repos -> Rows] /\ marker' \in [Repos -> BOOLEAN] /\ unwritten' \in SUBSET Repos
        BY <2>3, SynthesizeType DEF SpawnFails, Rows
      <3> QED
        BY <2>3, <3>1 DEF SpawnFails
    <2>4. CASE HardKill(r)
      <3>1. row' \in [Repos -> Rows] /\ marker' \in [Repos -> BOOLEAN] /\ unwritten' \in SUBSET Repos
        BY <2>4, SynthesizeType DEF HardKill, Rows
      <3>2. child' \in [Repos -> [Launches -> Stages]]
        BY <2>4, SetChildType DEF HardKill, Stages
      <3> QED
        BY <2>4, <3>1, <3>2 DEF HardKill
    <2>5. CASE Collect(r)
      <3>1. row' \in [Repos -> Rows] /\ marker' \in [Repos -> BOOLEAN] /\ unwritten' \in SUBSET Repos
        BY <2>5, SynthesizeType DEF Collect, Rows
      <3> QED
        BY <2>5, <3>1 DEF Collect
    <2> QED
      BY <1>10, <2>1, <2>2, <2>3, <2>4, <2>5 DEF ThreadStep
  <1>11. ASSUME NEW r \in Repos, NEW g \in Launches, ChildStep(r, g) PROVE TypeOK'
    <2> USE DEF TypeOK, schedVars, diskVars
    <2>1. CASE Boot(r, g)
      <3>1. child' \in [Repos -> [Launches -> Stages]]
        BY <2>1, SetChildType DEF Boot, Stages
      <3> QED
        BY <2>1, <3>1 DEF Boot
    <2>6. CASE Invoke(r, g)
      <3>1. child' \in [Repos -> [Launches -> Stages]]
        BY <2>6, SetChildType DEF Invoke, Stages
      <3>2. agents[r] \in Nat /\ agents' \in [Repos -> Nat]
        BY <2>6 DEF Invoke
      <3> QED
        BY <2>6, <3>1, <3>2 DEF Invoke
    <2>7. CASE AgentReports(r, g)
      BY <2>7 DEF AgentReports
    <2>2. CASE AgentReturns(r, g)
      <3>1. child' \in [Repos -> [Launches -> Stages]]
        BY <2>2, SetChildType DEF AgentReturns, Stages
      <3> QED
        BY <2>2, <3>1 DEF AgentReturns
    <2>3. CASE OpenRow(r, g)
      <3>1. child' \in [Repos -> [Launches -> Stages]]
        BY <2>3, SetChildType DEF OpenRow, Stages
      <3> QED
        BY <2>3, <3>1 DEF OpenRow, Rows
    <2>4. CASE WriteRow(r, g)
      <3>1. child' \in [Repos -> [Launches -> Stages]]
        BY <2>4, SetChildType DEF WriteRow, Stages
      <3> QED
        BY <2>4, <3>1 DEF WriteRow, Rows
    <2>5. CASE ChildExits(r, g)
      <3>1. child' \in [Repos -> [Launches -> Stages]]
        BY <2>5, SetChildType DEF ChildExits, Stages
      <3> QED
        BY <2>5, <3>1 DEF ChildExits
    <2> QED
      BY <1>11, <2>1, <2>2, <2>3, <2>4, <2>5, <2>6, <2>7 DEF ChildStep
  <1>12. CASE DiskChanges
    BY <1>12 DEF DiskChanges, TypeOK, schedVars, diskVars
  <1>13. CASE Relaunch
    <2>1. child' \in [Repos -> [Launches -> Stages]]
      BY <1>13 DEF Relaunch, TypeOK, Stages
    <2>2. run' \in Launches
      BY <1>13 DEF Relaunch, TypeOK, Launches
    <2>3. orphaned' \in BOOLEAN
      BY <1>13 DEF Relaunch, TypeOK
    <2> QED
      BY <1>13, <2>1, <2>2, <2>3, ListAssumption DEF Relaunch, TypeOK, diskVars
  <1>14. CASE UNCHANGED vars
    BY <1>14 DEF vars, TypeOK, schedVars, diskVars
  <1> QED
    BY <1>1, <1>2, <1>3, <1>4, <1>5, <1>6, <1>7, <1>8, <1>9, <1>10, <1>11, <1>12, <1>13, <1>14
    DEF Next, SchedulerStep, Terminating

-----------------------------------------------------------------------------
(* Everything but the main thread and a relaunch leaves its state alone.      *)
LEMMA OtherSteps ==
    ASSUME [Next]_vars
    PROVE  SchedulerStep \/ Relaunch \/ UNCHANGED schedVars
  <1>1. ASSUME NEW r \in Repos, ThreadStep(r) PROVE UNCHANGED schedVars
    BY <1>1 DEF ThreadStep, SkipSettled, Spawn, SpawnFails, HardKill, Collect
  <1>2. ASSUME NEW r \in Repos, NEW g \in Launches, ChildStep(r, g) PROVE UNCHANGED schedVars
    BY <1>2 DEF ChildStep, Boot, Invoke, AgentReports, AgentReturns, OpenRow, WriteRow,
               ChildExits
  <1> QED
    BY <1>1, <1>2 DEF Next, DiskChanges, Terminating, vars

LEMMA TailFacts ==
    ASSUME NEW s \in Seq(Repos), s # <<>>
    PROVE  /\ \A i \in DOMAIN Tail(s) : i + 1 \in DOMAIN s /\ Tail(s)[i] = s[i + 1]
           /\ 1 \in DOMAIN s
           /\ Head(s) = s[1]
           /\ \A i \in DOMAIN s : i \in Nat
  OBVIOUS

(* Taking the head off the pending list and into the futures.                 *)
LEMMA PendingSubmit ==
    ASSUME TypeOK, PendingInv, Submit
    PROVE  PendingInv' /\ Head(pending) \notin futures
  <1>1. pending \in Seq(Repos) /\ pending # <<>>
    BY DEF TypeOK, Submit
  <1>2. /\ \A i \in DOMAIN Tail(pending) : i + 1 \in DOMAIN pending
                                           /\ Tail(pending)[i] = pending[i + 1]
        /\ 1 \in DOMAIN pending
        /\ Head(pending) = pending[1]
    BY <1>1, TailFacts
  <1>3. \A i \in DOMAIN Tail(pending) : i \in Nat \ {0}
    BY <1>1
  <1>4. ASSUME NEW i \in DOMAIN Tail(pending), NEW j \in DOMAIN Tail(pending),
               Tail(pending)[i] = Tail(pending)[j]
        PROVE  i = j
    <2>1. i + 1 = j + 1
      BY <1>2, <1>4 DEF PendingInv
    <2> QED
      BY <1>3, <2>1
  <1>5. ASSUME NEW i \in DOMAIN Tail(pending)
        PROVE  Tail(pending)[i] \notin futures \cup {Head(pending)}
    <2>1. i + 1 # 1
      BY <1>3
    <2> QED
      BY <1>2, <2>1 DEF PendingInv
  <1>6. pending' = Tail(pending) /\ futures' = futures \cup {Head(pending)}
    BY DEF Submit
  <1> QED
    BY <1>2, <1>4, <1>5, <1>6 DEF PendingInv

LEMMA PendingStep ==
    ASSUME TypeOK, PendingInv, [Next]_vars
    PROVE  PendingInv'
  <1>1. CASE UNCHANGED schedVars
    BY <1>1 DEF PendingInv, schedVars
  <1>2. CASE Relaunch
    BY <1>2, ListAssumption DEF Relaunch, PendingInv
  <1>3. CASE Fill \/ Refill
    BY <1>3, PendingSubmit DEF Fill, Refill
  <1>4. ASSUME NEW r \in Repos, Reap(r) PROVE PendingInv'
    BY <1>4 DEF Reap, PendingInv
  <1>5. CASE FillDone \/ WaitDone \/ RefillHeld \/ BatchDone \/ Drained \/ Aggregate
    BY <1>5 DEF FillDone, WaitDone, RefillHeld, BatchDone, Drained, Aggregate, PendingInv
  <1> QED
    BY <1>1, <1>2, <1>3, <1>4, <1>5, OtherSteps DEF SchedulerStep

LEMMA RefillStep ==
    ASSUME TypeOK, RefillInv, [Next]_vars
    PROVE  RefillInv'
  <1> USE BoundAssumption DEF RefillInv, TypeOK
  <1>1. CASE UNCHANGED schedVars
    BY <1>1 DEF schedVars
  <1>2. CASE Relaunch
    BY <1>2 DEF Relaunch
  <1>3. CASE Fill \/ FillDone \/ WaitDone \/ Refill \/ BatchDone \/ Drained \/ Aggregate
    BY <1>3 DEF Fill, FillDone, WaitDone, Refill, BatchDone, Drained, Aggregate
  <1>4. CASE RefillHeld
    BY <1>4 DEF RefillHeld
  <1>5. ASSUME NEW r \in Repos, Reap(r) PROVE RefillInv'
    BY <1>5 DEF Reap
  <1> QED
    BY <1>1, <1>2, <1>3, <1>4, <1>5, OtherSteps DEF SchedulerStep

(* The accounting of slots: each action moves a slot between the futures, the *)
(* refill and the slots given up, and frees one for good only when nothing is *)
(* pending.                                                                   *)
LEMMA SlotStep ==
    ASSUME TypeOK, RefillInv, PendingInv, SlotInv, [Next]_vars
    PROVE  SlotInv'
  <1> USE BoundAssumption
  <1>1. /\ IsFiniteSet(futures)
        /\ Cardinality(futures) \in Nat
        /\ gaveUp \in Nat
        /\ launched \in Nat
        /\ Concurrency \in Nat
    BY FS_CardinalityType DEF SlotInv, TypeOK
  <1>2. CASE UNCHANGED schedVars
    BY <1>2 DEF SlotInv, Refilling, schedVars
  <1>3. CASE Relaunch
    BY <1>3, FS_EmptySet DEF Relaunch, SlotInv, Refilling
  <1>4. CASE Fill
    <2>1. Head(pending) \notin futures /\ futures' = futures \cup {Head(pending)}
      BY <1>4, PendingSubmit DEF Fill, Submit
    <2>2. IsFiniteSet(futures') /\ Cardinality(futures') = Cardinality(futures) + 1
      BY <1>1, <2>1, FS_AddElement
    <2> QED
      BY <1>1, <1>4, <2>2 DEF Fill, SlotInv, Refilling, TypeOK
  <1>5. CASE Refill
    <2>1. Head(pending) \notin futures /\ futures' = futures \cup {Head(pending)}
      BY <1>5, PendingSubmit DEF Refill, Submit
    <2>2. IsFiniteSet(futures') /\ Cardinality(futures') = Cardinality(futures) + 1
      BY <1>1, <2>1, FS_AddElement
    <2>3. pending # <<>>
      BY <1>5 DEF Refill, Submit
    <2> QED
      BY <1>1, <1>5, <2>2, <2>3 DEF Refill, SlotInv, Refilling
  <1>6. ASSUME NEW r \in Repos, Reap(r) PROVE SlotInv'
    <2>1. r \in futures /\ futures' = futures \ {r}
      BY <1>6 DEF Reap, TypeOK
    <2>2. IsFiniteSet(futures') /\ Cardinality(futures') = Cardinality(futures) - 1
      BY <1>1, <2>1, FS_RemoveElement
    <2> QED
      BY <1>1, <1>6, <2>2 DEF Reap, SlotInv, Refilling
  <1>7. CASE RefillHeld
    BY <1>1, <1>7 DEF RefillHeld, RefillInv, SlotInv, Refilling
  <1>8. CASE FillDone
    BY <1>1, <1>8 DEF FillDone, SlotInv, Refilling
  <1>9. CASE WaitDone \/ BatchDone
    BY <1>1, <1>9 DEF WaitDone, BatchDone, SlotInv, Refilling
  <1>10. CASE Drained \/ Aggregate
    BY <1>1, <1>10 DEF Drained, Aggregate, SlotInv, Refilling
  <1> QED
    BY <1>2, <1>3, <1>4, <1>5, <1>6, <1>7, <1>8, <1>9, <1>10, OtherSteps DEF SchedulerStep

-----------------------------------------------------------------------------
LEMMA ThreadSubmit ==
    ASSUME TypeOK, PendingInv, ThreadInv, Submit, UNCHANGED <<run, child, batch>>
    PROVE  ThreadInv'
  <1>1. Head(pending) \in Repos /\ thread' = [thread EXCEPT ![Head(pending)] = "start"]
    BY SubmitFacts
  <1>2. Head(pending) \notin futures /\ futures' = futures \cup {Head(pending)}
    BY PendingSubmit DEF Submit
  <1>3. child[Head(pending)][run] \notin Live
    BY <1>1, <1>2 DEF ThreadInv
  <1>4. ASSUME NEW r \in Repos, thread'[r] \in {"start", "wait"} PROVE r \in futures' \ batch'
    BY <1>1, <1>2, <1>4 DEF ThreadInv, TypeOK
  <1>5. ASSUME NEW r \in Repos, child'[r][run'] \in Live PROVE thread'[r] = "wait"
    BY <1>1, <1>3, <1>5 DEF ThreadInv, TypeOK
  <1> QED
    BY <1>4, <1>5 DEF ThreadInv

LEMMA ThreadThread ==
    ASSUME TypeOK, ThreadInv, NEW r \in Repos, ThreadStep(r)
    PROVE  ThreadInv'
  <1> USE DEF ThreadInv, TypeOK, ThreadDone, SetChild, schedVars, Launches
  <1>1. CASE SkipSettled(r)
    BY <1>1 DEF SkipSettled
  <1>2. CASE SpawnFails(r)
    BY <1>2 DEF SpawnFails
  <1>3. CASE Collect(r)
    BY <1>3 DEF Collect, Live
  <1>4. CASE Spawn(r)
    BY <1>4 DEF Spawn, Live
  <1>5. CASE HardKill(r)
    BY <1>5 DEF HardKill, Live
  <1> QED
    BY <1>1, <1>2, <1>3, <1>4, <1>5 DEF ThreadStep

LEMMA ThreadChild ==
    ASSUME TypeOK, ThreadInv, NEW r \in Repos, NEW g \in Launches, ChildStep(r, g)
    PROVE  ThreadInv'
  <1>1. PICK s \in Stages : child' = [child EXCEPT ![r][g] = s]
    BY ChildMoves
  <1>2. child[r][g] \in Live
    BY DEF ChildStep, Boot, Invoke, AgentReports, AgentReturns, OpenRow, WriteRow,
               ChildExits, Live
  <1>3. UNCHANGED <<thread, run, futures, batch>>
    BY DEF ChildStep, Boot, Invoke, AgentReports, AgentReturns, OpenRow, WriteRow,
               ChildExits, schedVars
  <1>4. ASSUME NEW q \in Repos, child'[q][run] \in Live PROVE thread[q] = "wait"
    BY <1>1, <1>2, <1>4 DEF ThreadInv, TypeOK
  <1>5. ASSUME NEW q \in Repos, NEW h \in Launches, h > run PROVE child'[q][h] = "none"
    <2>1. ~(q = r /\ h = g)
      BY <1>2, <1>5 DEF ThreadInv, Live
    <2> QED
      BY <1>1, <1>5, <2>1 DEF ThreadInv, TypeOK
  <1> QED
    BY <1>3, <1>4, <1>5 DEF ThreadInv

LEMMA ThreadStepInv ==
    ASSUME TypeOK, PendingInv, ThreadInv, [Next]_vars
    PROVE  ThreadInv'
  <1>1. CASE Fill \/ Refill
    <2>1. CASE Fill
      BY <2>1, ThreadSubmit DEF Fill
    <2>2. CASE Refill
      BY <2>2, ThreadSubmit DEF Refill
    <2> QED
      BY <1>1, <2>1, <2>2
  <1>2. CASE WaitDone
    BY <1>2 DEF WaitDone, ThreadInv, TypeOK
  <1>3. ASSUME NEW r \in Repos, Reap(r) PROVE ThreadInv'
    BY <1>3 DEF Reap, ThreadInv, TypeOK
  <1>4. CASE FillDone \/ RefillHeld \/ BatchDone \/ Drained \/ Aggregate
    BY <1>4 DEF FillDone, RefillHeld, BatchDone, Drained, Aggregate, ThreadInv
  <1>5. ASSUME NEW r \in Repos, ThreadStep(r) PROVE ThreadInv'
    BY <1>5, ThreadThread
  <1>6. ASSUME NEW r \in Repos, NEW g \in Launches, ChildStep(r, g) PROVE ThreadInv'
    BY <1>6, ThreadChild
  <1>7. CASE DiskChanges
    BY <1>7 DEF DiskChanges, ThreadInv, schedVars
  <1>8. CASE Relaunch
    <2>1. \A r \in Repos : thread'[r] = "idle"
      BY <1>8 DEF Relaunch
    <2>2. run' \in Launches /\ run' > run /\ run' = run + 1
      BY <1>8, BoundAssumption DEF Relaunch, TypeOK, Launches
    <2>3. ASSUME NEW r \in Repos, NEW g \in Launches, g > run PROVE child'[r][g] = "none"
      BY <1>8, <2>3 DEF Relaunch, ThreadInv, Live
    <2>4. \A r \in Repos : child'[r][run'] \notin Live
      BY <2>2, <2>3 DEF Live
    <2>5. \A g \in Launches : g > run' => g > run
      BY <2>2 DEF TypeOK, Launches
    <2> QED
      BY <2>1, <2>3, <2>4, <2>5 DEF ThreadInv
  <1>9. CASE UNCHANGED vars
    BY <1>9 DEF vars, ThreadInv, schedVars
  <1> QED
    BY <1>1, <1>2, <1>3, <1>4, <1>5, <1>6, <1>7, <1>8, <1>9
    DEF Next, SchedulerStep, Terminating

-----------------------------------------------------------------------------
LEMMA InitInv == Init => IInv
  <1> SUFFICES ASSUME Init PROVE IInv
    OBVIOUS
  <1> USE ListAssumption, BoundAssumption, DiskAssumption DEF Init
  <1>1. TypeOK
    <2>1. orphaned \in BOOLEAN
      OBVIOUS
    <2> QED
      BY <2>1 DEF TypeOK, Rows, Stages, Launches
  <1>2. RefillInv
    BY DEF RefillInv
  <1>3. PendingInv
    BY DEF PendingInv
  <1>4. SlotInv
    BY FS_EmptySet DEF SlotInv, Refilling
  <1>5. ThreadInv
    BY DEF ThreadInv, Live, Launches
  <1> QED
    BY <1>1, <1>2, <1>3, <1>4, <1>5 DEF IInv

LEMMA StepInv == IInv /\ [Next]_vars => IInv'
  BY TypeStep, RefillStep, PendingStep, SlotStep, ThreadStepInv DEF IInv

LEMMA AlwaysInv == Spec => []IInv
  BY InitInv, StepInv, PTL DEF Spec

(* Every variable keeps its type in every behaviour of the scheduler, its     *)
(* threads, its children, the disk and any number of relaunches.              *)
THEOREM TypeCorrect == Spec => []TypeOK
  <1>1. IInv => TypeOK
    BY DEF IInv
  <1> QED
    BY <1>1, AlwaysInv, PTL

(* No slot of the pool is ever lost without one of the two accounted reasons, *)
(* for any concurrency, list and behaviour of the disk.                       *)
THEOREM SlotsAlwaysAccounted == Spec => []SlotsAccounted
  <1>1. IInv => SlotsAccounted
    BY DEF IInv, SlotInv, SlotsAccounted, Refilling
  <1> QED
    BY <1>1, AlwaysInv, PTL

(* Pending repositories are dropped only after every slot was given up.       *)
THEOREM DropNeedsEverySlot == Spec => []DroppedOnlyWhenEverySlotGaveUp
  <1>1. IInv => DroppedOnlyWhenEverySlotGaveUp
    BY FS_EmptySet DEF IInv, SlotInv, TypeOK, DroppedOnlyWhenEverySlotGaveUp, Refilling
  <1> QED
    BY <1>1, AlwaysInv, PTL

(* At most Concurrency children of a launch run at the same time.             *)
THEOREM InFlightBounded == Spec => []AtMostConcurrencyInFlight
  <1>1. IInv => AtMostConcurrencyInFlight
    <2> SUFFICES ASSUME IInv PROVE Cardinality(InFlight) <= Concurrency
      BY DEF AtMostConcurrencyInFlight
    <2>1. InFlight \subseteq futures
      BY DEF IInv, ThreadInv, InFlight
    <2>2. /\ IsFiniteSet(futures)
          /\ Cardinality(futures) \in Nat
          /\ Cardinality(futures) <= Concurrency
      BY FS_CardinalityType, BoundAssumption DEF IInv, SlotInv, TypeOK, Refilling
    <2>3. IsFiniteSet(InFlight) /\ Cardinality(InFlight) <= Cardinality(futures)
      BY <2>1, <2>2, FS_Subset
    <2>4. Cardinality(InFlight) \in Nat
      BY <2>3, FS_CardinalityType
    <2> QED
      BY <2>2, <2>3, <2>4, BoundAssumption
  <1> QED
    BY <1>1, AlwaysInv, PTL

(* Refinement: the scheduler implements the bounded pool; threads, children,  *)
(* the disk and the bookkeeping of the loops are stuttering steps of it.      *)
THEOREM PoolRefinement == Spec => ImplementsPool
  <1>1. Init => Pool!Init
    BY DEF Init, Pool!Init
  <1>2. IInv /\ [Next]_vars => [Pool!Next]_<<pending, futures>>
    <2> SUFFICES ASSUME IInv, [Next]_vars
                 PROVE  Pool!Next \/ UNCHANGED <<pending, futures>>
      OBVIOUS
    <2>1. CASE UNCHANGED schedVars
      BY <2>1 DEF schedVars
    <2>2. CASE Relaunch
      BY <2>2 DEF Relaunch, Pool!Next, Pool!Restart
    <2>3. CASE Fill \/ Refill
      <3>1. Submit /\ Head(pending) \notin futures
        BY <2>3, PendingSubmit DEF IInv, Fill, Refill
      <3>2. Cardinality(futures) \in Nat /\ gaveUp \in Nat /\ Concurrency \in Nat
        BY FS_CardinalityType, BoundAssumption DEF IInv, SlotInv, TypeOK
      <3>3. Cardinality(futures) < Concurrency
        <4>1. CASE Fill
          BY <3>2, <4>1 DEF Fill, IInv, SlotInv
        <4>2. CASE Refill
          BY <3>2, <4>2 DEF Refill, IInv, SlotInv, Refilling
        <4> QED
          BY <2>3, <4>1, <4>2
      <3>4. Pool!Cardinality(futures) = Cardinality(futures)
        BY DEF Cardinality, Pool!Cardinality
      <3> QED
        BY <3>1, <3>3, <3>4 DEF Submit, Pool!Next, Pool!Start
    <2>4. ASSUME NEW r \in Repos, Reap(r) PROVE Pool!Next
      BY <2>4 DEF Reap, IInv, TypeOK, Pool!Next, Pool!Retire
    <2>5. CASE FillDone \/ WaitDone \/ RefillHeld \/ BatchDone \/ Drained \/ Aggregate
      BY <2>5 DEF FillDone, WaitDone, RefillHeld, BatchDone, Drained, Aggregate
    <2> QED
      BY <2>1, <2>2, <2>3, <2>4, <2>5, OtherSteps DEF SchedulerStep
  <1> QED
    BY <1>1, <1>2, AlwaysInv, PTL DEF Spec, ImplementsPool, Pool!Spec

PoolFacts == INSTANCE WorkerPool_proofs WITH
                 Jobs <- Repos, JobList <- RepoList, Size <- Concurrency,
                 queue <- pending, active <- futures

(* Repositories are submitted in the order of the dataset file, and each once *)
(* a launch: what is pending is always the rest of the list, and what is in   *)
(* flight is from before it, whatever the gate held and whichever slot was    *)
(* refilled.                                                                  *)
THEOREM SubmittedInOrder == Spec => []Pool!InListOrder
  <1>1. RepoList \in Seq(Repos)
    BY ListAssumption
  <1>2. PoolFacts!Spec => []PoolFacts!InListOrder
    BY <1>1, PoolFacts!PoolKeepsOrder
  <1>3. /\ Pool!Init => PoolFacts!Init
        /\ PoolFacts!InListOrder => Pool!InListOrder
    BY DEF Pool!Init, PoolFacts!Init, Pool!InListOrder, PoolFacts!InListOrder
  <1>4. [Pool!Next]_<<pending, futures>> => [PoolFacts!Next]_<<pending, futures>>
    BY DEF Pool!Next, PoolFacts!Next, Pool!Start, PoolFacts!Start, Pool!Retire,
           PoolFacts!Retire, Pool!Restart, PoolFacts!Restart, Pool!Cardinality,
           PoolFacts!Cardinality
  <1> QED
    BY <1>2, <1>3, <1>4, PoolRefinement, PTL DEF ImplementsPool, Pool!Spec, PoolFacts!Spec

(* A child that has yet to write its row has none that parses before it, and  *)
(* what its check has found of the files that mark a repository still holds   *)
(* when it invokes its agent.                                                 *)
FreshInv ==
    ~orphaned => \A r \in Repos :
        /\ child[r][run] \in {"boot", "cleared", "agent", "emit", "rowing"} => ~Readable(r)
        /\ child[r][run] = "cleared" => ~marker[r]

-----------------------------------------------------------------------------
(* A submitted repository leaves the queue, and no other does. *)
LEMMA CoverSubmit ==
    ASSUME TypeOK, PendingInv, ThreadInv, CoverInv, Submit, pc' # "over",
           UNCHANGED <<run, child, orphaned, row, unwritten>>
    PROVE  CoverInv'
  <1>1. /\ Head(pending) \in Repos /\ pending' = Tail(pending)
        /\ thread' = [thread EXCEPT ![Head(pending)] = "start"]
    BY SubmitFacts
  <1>2. pending \in Seq(Repos) /\ pending # <<>>
    BY DEF TypeOK, Submit
  <1>3. ASSUME NEW r \in Repos, thread'[r] = "idle" PROVE Queued(r)'
    <2>1. thread[r] = "idle" /\ r # Head(pending)
      BY <1>1, <1>3 DEF TypeOK
    <2>2. PICK i \in DOMAIN pending : pending[i] = r
      BY <2>1 DEF CoverInv, Queued
    <2>3. Head(pending) = pending[1]
      BY <1>2
    <2>4. i # 1
      BY <2>1, <2>2, <2>3
    <2>5. i - 1 \in DOMAIN Tail(pending) /\ Tail(pending)[i - 1] = pending[i]
      BY <1>2, <2>4
    <2> QED
      BY <1>1, <2>2, <2>5 DEF Queued
  <1>4. ~orphaned' => OwnChildren' /\ RowsLeft'
    BY <1>1 DEF CoverInv, OwnChildren, RowsLeft, Readable, TypeOK
  <1> QED
    BY <1>3, <1>4 DEF CoverInv

(* A thread ends with a row it has seen parse or has written itself. *)
LEMMA CoverThread ==
    ASSUME TypeOK, SlotInv, ThreadInv, CoverInv, NEW r \in Repos, ThreadStep(r)
    PROVE  CoverInv'
  <1>1. /\ UNCHANGED <<pending, pc, tally, orphaned, run, futures>>
        /\ thread[r] \in {"start", "wait"}
    BY DEF ThreadStep, SkipSettled, Spawn, SpawnFails, HardKill, Collect, schedVars
  <1>2. pc # "over"
    BY <1>1 DEF SlotInv, ThreadInv
  <1>3. \A q \in Repos : thread'[q] = "idle" => thread[q] = "idle"
    BY DEF ThreadStep, SkipSettled, Spawn, SpawnFails, HardKill, Collect, ThreadDone, TypeOK
  <1>4. OwnChildren => OwnChildren'
    <2>1. child' = child \/ \E s \in {"boot", "dead"} : child' = [child EXCEPT ![r][run] = s]
      BY DEF ThreadStep, SkipSettled, Spawn, SpawnFails, HardKill, Collect, SetChild
    <2>2. \A q \in Repos, h \in Launches : h # run => child'[q][h] = child[q][h]
      BY <2>1 DEF TypeOK
    <2> QED
      BY <1>1, <2>2 DEF OwnChildren
  <1>5. \A q \in Repos : q # r => /\ thread'[q] = thread[q] /\ row'[q] = row[q]
                                  /\ q \in unwritten' <=> q \in unwritten
    BY DEF ThreadStep, SkipSettled, Spawn, SpawnFails, HardKill, Collect, ThreadDone, Synthesize,
           TypeOK, diskVars
  <1>6. thread'[r] = "done" => Readable(r)' \/ r \in unwritten'
    <2>1. CASE SkipSettled(r)
      BY <2>1 DEF SkipSettled, Readable, diskVars
    <2>2. CASE Spawn(r)
      BY <2>2 DEF Spawn, TypeOK
    <2>3. ASSUME NEW s \in {"error", "timeout"}, Synthesize(r, s)
          PROVE  Readable(r)' \/ r \in unwritten'
      BY <2>3 DEF Synthesize, Readable, TypeOK
    <2>4. CASE SpawnFails(r)
      BY <2>3, <2>4 DEF SpawnFails
    <2>5. CASE HardKill(r)
      BY <2>3, <2>5 DEF HardKill
    <2>6. CASE Collect(r)
      <3>1. CASE Readable(r)
        BY <2>6, <3>1 DEF Collect, Readable, diskVars
      <3>2. CASE ~Readable(r)
        BY <2>3, <2>6, <3>2 DEF Collect
      <3> QED
        BY <3>1, <3>2
    <2> QED
      BY <2>1, <2>2, <2>4, <2>5, <2>6 DEF ThreadStep
  <1>7. RowsLeft => RowsLeft'
    BY <1>5, <1>6 DEF RowsLeft, Readable
  <1> QED
    BY <1>1, <1>2, <1>3, <1>4, <1>7 DEF CoverInv, Queued

(* A child of this launch has a thread that waits for it. *)
LEMMA CoverChild ==
    ASSUME TypeOK, SlotInv, ThreadInv, CoverInv, NEW r \in Repos, NEW g \in Launches,
           ChildStep(r, g)
    PROVE  CoverInv'
  <1>1. PICK s \in Stages : child' = [child EXCEPT ![r][g] = s]
    BY ChildMoves
  <1>2. child[r][g] \in Live
    BY DEF ChildStep, Boot, Invoke, AgentReports, AgentReturns, OpenRow, WriteRow,
               ChildExits, Live
  <1>3. UNCHANGED <<thread, run, futures, pending, pc, tally, orphaned>>
    BY DEF ChildStep, Boot, Invoke, AgentReports, AgentReturns, OpenRow, WriteRow,
               ChildExits, schedVars
  <1>4. \A q \in Repos : q # r => row'[q] = row[q] /\ (q \in unwritten' <=> q \in unwritten)
    BY DEF ChildStep, Boot, Invoke, AgentReports, AgentReturns, OpenRow, WriteRow,
               ChildExits, TypeOK, diskVars
  <1>5. ~orphaned => g = run
    BY <1>2 DEF CoverInv, OwnChildren
  <1>6. ~orphaned => thread[r] = "wait" /\ r \in futures
    BY <1>2, <1>5 DEF ThreadInv
  <1>7. ~orphaned => OwnChildren'
    BY <1>1, <1>3, <1>5 DEF CoverInv, OwnChildren, TypeOK
  <1>8. ~orphaned => RowsLeft'
    BY <1>3, <1>4, <1>6 DEF CoverInv, RowsLeft, Readable
  <1>9. ~orphaned => pc # "over"
    BY <1>6 DEF SlotInv
  <1> QED
    BY <1>3, <1>7, <1>8, <1>9 DEF CoverInv, Queued

LEMMA CoverStep == IInv /\ CoverInv /\ [Next]_vars => CoverInv'
  <1> SUFFICES ASSUME IInv, CoverInv, [Next]_vars PROVE CoverInv'
    OBVIOUS
  <1> USE DEF IInv
  <1>1. CASE Fill
    BY <1>1, CoverSubmit DEF Fill, diskVars
  <1>2. CASE Refill
    BY <1>2, CoverSubmit DEF Refill, diskVars
  <1>3. ASSUME pc' # "over", UNCHANGED <<diskVars, run, orphaned, pending, thread, child>>
        PROVE  CoverInv'
    BY <1>3 DEF CoverInv, Queued, OwnChildren, RowsLeft, Readable, diskVars
  <1>4. CASE FillDone \/ WaitDone \/ RefillHeld \/ BatchDone \/ Drained
    BY <1>3, <1>4 DEF FillDone, WaitDone, RefillHeld, BatchDone, Drained
  <1>5. ASSUME NEW r \in Repos, Reap(r) PROVE CoverInv'
    BY <1>3, <1>5 DEF Reap
  <1>6. CASE Aggregate
    BY <1>6 DEF Aggregate, CoverInv, Queued, OwnChildren, RowsLeft, Tallied, Readable, diskVars
  <1>7. ASSUME NEW r \in Repos, ThreadStep(r) PROVE CoverInv'
    BY <1>7, CoverThread
  <1>8. ASSUME NEW r \in Repos, NEW g \in Launches, ChildStep(r, g) PROVE CoverInv'
    BY <1>8, CoverChild
  <1>9. CASE DiskChanges \/ UNCHANGED vars
    BY <1>9 DEF DiskChanges, vars, CoverInv, Queued, OwnChildren, RowsLeft, Tallied, Readable,
                schedVars, diskVars
  <1>10. CASE Relaunch
    <2>1. /\ \A r \in Repos : thread'[r] = "idle" /\ Queued(r)'
          /\ pc' = "fill"
      BY <1>10, ListAssumption DEF Relaunch, Queued
    <2>2. ~orphaned' => \A r \in Repos, g \in Launches : child'[r][g] \notin Live
      <3>1. CASE child' = child /\ orphaned' = (orphaned \/ \E r \in Repos : child[r][run] \in Live)
        BY <3>1 DEF CoverInv, OwnChildren
      <3>2. CASE child' = [r \in Repos |-> [g \in Launches |->
                              IF child[r][g] \in Live THEN "dead" ELSE child[r][g]]]
        BY <3>2 DEF Live
      <3> QED
        BY <1>10, <3>1, <3>2 DEF Relaunch
    <2> QED
      BY <2>1, <2>2 DEF CoverInv, OwnChildren, RowsLeft
  <1> QED
    BY <1>1, <1>2, <1>4, <1>5, <1>6, <1>7, <1>8, <1>9, <1>10
    DEF Next, SchedulerStep, Terminating

LEMMA CoverInit == Init => CoverInv
  BY ListAssumption DEF Init, CoverInv, Queued, OwnChildren, RowsLeft, Live

(* The aggregate has a row for every repository the run submitted, whichever  *)
(* of child, wall and error path wrote it last, through any number of         *)
(* relaunches, as long as no child has outlived its runner.                   *)
THEOREM ReportIsComplete == Spec => []ReportCoversSubmitted
  <1>1. Spec => []CoverInv
    BY CoverInit, CoverStep, AlwaysInv, PTL DEF Spec
  <1>2. IInv /\ CoverInv => ReportCoversSubmitted
    <2> SUFFICES ASSUME IInv, CoverInv, pc = "over", ~orphaned, NEW r \in Repos, ~Queued(r)
                 PROVE  r \in tally \/ r \in unwritten
      BY DEF ReportCoversSubmitted, Queued
    <2>1. thread[r] \notin {"start", "wait"}
      BY DEF IInv, SlotInv, ThreadInv
    <2>2. thread[r] = "done"
      BY <2>1 DEF IInv, TypeOK, CoverInv
    <2> QED
      BY <2>2 DEF CoverInv, Tallied
  <1> QED
    BY <1>1, <1>2, AlwaysInv, PTL

(* As long as the disk has been above the gate, no slot was given up and every *)
(* row that was due has been written.                                         *)
DiskOk == disk = "ok"
NothingHeld == gaveUp = 0 /\ unwritten = {}
OverIsReported == pc = "over" /\ ~orphaned => pending = <<>> /\ tally = Repos

LEMMA HeldInit == Init => NothingHeld
  BY DEF Init, NothingHeld

LEMMA HeldStep == DiskOk /\ NothingHeld /\ [Next]_vars => NothingHeld'
  <1> SUFFICES ASSUME DiskOk, NothingHeld, [Next]_vars PROVE NothingHeld'
    OBVIOUS
  <1> USE DEF DiskOk, NothingHeld, diskVars, schedVars
  <1>1. CASE SchedulerStep
    BY <1>1 DEF SchedulerStep, Fill, FillDone, WaitDone, Refill, RefillHeld, BatchDone,
                Drained, Aggregate, Reap
  <1>2. ASSUME NEW r \in Repos, ThreadStep(r) PROVE NothingHeld'
    BY <1>2 DEF ThreadStep, SkipSettled, Spawn, SpawnFails, HardKill, Collect, Synthesize
  <1>3. ASSUME NEW r \in Repos, NEW g \in Launches, ChildStep(r, g) PROVE NothingHeld'
    BY <1>3 DEF ChildStep, Boot, Invoke, AgentReports, AgentReturns, OpenRow, WriteRow,
               ChildExits
  <1>4. CASE DiskChanges \/ Relaunch \/ Terminating \/ UNCHANGED vars
    BY <1>4 DEF DiskChanges, Relaunch, Terminating, vars
  <1> QED
    BY <1>1, <1>2, <1>3, <1>4 DEF Next

(* With the disk above the gate all along, a launch that is over has reported  *)
(* every repository of the selection, whatever died, hung or was killed, and   *)
(* through any number of relaunches: what is left of EveryRepoReported is that *)
(* a launch ends.                                                              *)
THEOREM HealthyDiskReportsAll == Spec /\ []DiskOk => []OverIsReported
  <1>1. Spec /\ []DiskOk => []NothingHeld
    BY HeldInit, HeldStep, PTL DEF Spec
  <1>2. IInv /\ DroppedOnlyWhenEverySlotGaveUp /\ ReportCoversSubmitted /\ NothingHeld
            => OverIsReported
    <2> SUFFICES ASSUME IInv, DroppedOnlyWhenEverySlotGaveUp, ReportCoversSubmitted, NothingHeld,
                        pc = "over", ~orphaned
                 PROVE  pending = <<>> /\ tally = Repos
      BY DEF OverIsReported
    <2>1. pending = <<>>
      BY BoundAssumption DEF DroppedOnlyWhenEverySlotGaveUp, NothingHeld
    <2>2. \A r \in Repos : r \in tally
      BY <2>1 DEF ReportCoversSubmitted, NothingHeld
    <2> QED
      BY <2>1, <2>2 DEF IInv, TypeOK
  <1> QED
    BY <1>1, <1>2, AlwaysInv, DropNeedsEverySlot, ReportIsComplete, PTL

-----------------------------------------------------------------------------
(* Only the thread of a repository makes its child, and only over a row that  *)
(* does not parse; a child of this launch writes its row once.                *)
LEMMA FreshStep == IInv /\ CoverInv /\ FreshInv /\ [Next]_vars => FreshInv'
  <1> SUFFICES ASSUME IInv, CoverInv, FreshInv, [Next]_vars PROVE FreshInv'
    OBVIOUS
  <1> USE DEF IInv
  <1>1. ASSUME UNCHANGED <<row, marker, run, orphaned, child>> PROVE FreshInv'
    BY <1>1 DEF FreshInv, Readable
  <1>2. CASE SchedulerStep \/ DiskChanges \/ UNCHANGED vars
    BY <1>1, <1>2 DEF SchedulerStep, Fill, FillDone, WaitDone, Refill, RefillHeld, BatchDone,
                      Drained, Aggregate, Reap, DiskChanges, vars, diskVars
  <1>3. ASSUME NEW r \in Repos, ThreadStep(r) PROVE FreshInv'
    <2>1. UNCHANGED <<run, orphaned>>
      BY <1>3 DEF ThreadStep, SkipSettled, Spawn, SpawnFails, HardKill, Collect
    <2>2. /\ \A q \in Repos : q # r => row'[q] = row[q] /\ child'[q] = child[q]
          /\ marker' = marker
      BY <1>3 DEF ThreadStep, SkipSettled, Spawn, SpawnFails, HardKill, Collect, Synthesize,
                  SetChild, TypeOK, diskVars
    <2>3. CASE SkipSettled(r)
      BY <1>1, <2>3 DEF SkipSettled, diskVars
    <2>4. CASE Spawn(r)
      <3>1. child'[r][run] = "boot"
        BY <2>4 DEF Spawn, SetChild, TypeOK
      <3> QED
        BY <2>1, <2>2, <2>4, <3>1 DEF Spawn, FreshInv, Readable, diskVars
    <2>5. CASE SpawnFails(r)
      <3>1. child'[r][run] \notin Live
        BY <2>5 DEF SpawnFails, ThreadInv
      <3> QED
        BY <2>1, <2>2, <3>1 DEF FreshInv, Readable, Live
    <2>6. CASE HardKill(r)
      <3>1. child'[r][run] = "dead"
        BY <2>6 DEF HardKill, SetChild, TypeOK
      <3> QED
        BY <2>1, <2>2, <3>1 DEF FreshInv, Readable
    <2>7. CASE Collect(r)
      <3>1. child'[r][run] = "dead"
        BY <2>7 DEF Collect
      <3> QED
        BY <2>1, <2>2, <3>1 DEF FreshInv, Readable
    <2> QED
      BY <1>3, <2>3, <2>4, <2>5, <2>6, <2>7 DEF ThreadStep
  <1>4. ASSUME NEW r \in Repos, NEW g \in Launches, ChildStep(r, g), ~orphaned' PROVE FreshInv'
    <2>1. UNCHANGED <<run, orphaned>>
      BY <1>4 DEF ChildStep, Boot, Invoke, AgentReports, AgentReturns, OpenRow, WriteRow,
                  ChildExits
    <2>2. g = run
      BY <1>4, <2>1 DEF ChildStep, Boot, Invoke, AgentReports, AgentReturns, OpenRow, WriteRow,
                        ChildExits, Live, CoverInv, OwnChildren
    <2>3. \A q \in Repos : q # r => row'[q] = row[q] /\ child'[q] = child[q]
                                    /\ marker'[q] = marker[q]
      BY <1>4 DEF ChildStep, Boot, Invoke, AgentReports, AgentReturns, OpenRow, WriteRow,
                  ChildExits, SetChild, TypeOK, diskVars
    <2>4. CASE Boot(r, g)
      <3>1. row' = row /\ marker' = marker /\ child[r][run] = "boot"
        BY <2>2, <2>4 DEF Boot, diskVars
      <3>2. child'[r][run] = "cleared" => ~marker[r]
        BY <2>2, <2>4 DEF Boot, SetChild, TypeOK
      <3> QED
        BY <2>1, <2>3, <3>1, <3>2 DEF FreshInv, Readable
    <2>5. CASE Invoke(r, g) \/ AgentReports(r, g) \/ AgentReturns(r, g)
      <3>1. row' = row /\ child[r][run] \in {"cleared", "agent"}
        BY <2>2, <2>5 DEF Invoke, AgentReports, AgentReturns, diskVars
      <3>2. child'[r][run] # "cleared"
        BY <2>2, <2>5 DEF Invoke, AgentReports, AgentReturns, SetChild, TypeOK
      <3> QED
        BY <2>1, <2>3, <3>1, <3>2 DEF FreshInv, Readable
    <2>6. CASE OpenRow(r, g)
      <3>1. row'[r] = "torn" /\ child'[r][run] = "rowing"
        BY <2>2, <2>6 DEF OpenRow, SetChild, TypeOK
      <3> QED
        BY <2>1, <2>3, <3>1 DEF FreshInv, Readable
    <2>7. CASE WriteRow(r, g)
      <3>1. child'[r][run] = "tail"
        BY <2>2, <2>7 DEF WriteRow, SetChild, TypeOK
      <3> QED
        BY <2>1, <2>3, <3>1 DEF FreshInv, Readable
    <2>8. CASE ChildExits(r, g)
      <3>1. child'[r][run] = "dead"
        BY <2>2, <2>8 DEF ChildExits, SetChild, TypeOK
      <3> QED
        BY <2>1, <2>3, <3>1 DEF FreshInv, Readable
    <2> QED
      BY <1>4, <2>4, <2>5, <2>6, <2>7, <2>8 DEF ChildStep
  <1>5. CASE Relaunch
    <2>1. run' \in Launches /\ run' > run
      BY <1>5, BoundAssumption DEF Relaunch, TypeOK, Launches
    <2>2. \A r \in Repos : child'[r][run'] = "none"
      <3>1. \A r \in Repos : child[r][run'] = "none"
        BY <2>1 DEF ThreadInv
      <3> QED
        BY <1>5, <2>1, <3>1 DEF Relaunch, Live
    <2> QED
      BY <2>2 DEF FreshInv
  <1> QED
    BY <1>2, <1>3, <1>4, <1>5 DEF Next, Terminating, FreshInv

LEMMA FreshAlways == Spec => [](IInv /\ CoverInv /\ FreshInv)
  <1>1. Init => FreshInv
    BY DEF Init, FreshInv, Readable
  <1> QED
    BY <1>1, CoverInit, CoverStep, FreshStep, AlwaysInv, PTL DEF Spec

(* Which steps touch a row, and which invoke an agent. *)
LEMMA RowTouched ==
    ASSUME IInv, CoverInv, FreshInv, [Next]_vars, ~orphaned, NEW r \in Repos, Readable(r),
           row'[r] # row[r]
    PROVE  thread[r] = "wait" /\ thread'[r] = "done" /\ child[r][run] \in Live
  <1> USE DEF IInv
  <1>1. ~SchedulerStep /\ ~DiskChanges /\ ~Relaunch /\ ~UNCHANGED vars
    BY DEF SchedulerStep, Fill, FillDone, WaitDone, Refill, RefillHeld, BatchDone,
           Drained, Aggregate, Reap, DiskChanges, Relaunch, vars, diskVars
  <1>2. ASSUME NEW q \in Repos, ThreadStep(q) PROVE q = r /\ HardKill(r)
    BY <1>2 DEF ThreadStep, SkipSettled, Spawn, SpawnFails, HardKill, Collect, Synthesize,
                TypeOK, diskVars
  <1>3. ASSUME NEW q \in Repos, NEW g \in Launches, ChildStep(q, g) PROVE FALSE
    <2>1. q = r /\ (OpenRow(r, g) \/ WriteRow(r, g))
      BY <1>3 DEF ChildStep, Boot, Invoke, AgentReports, AgentReturns, OpenRow, WriteRow,
               ChildExits, TypeOK, diskVars
    <2>2. child[r][g] \in {"emit", "rowing"}
      BY <2>1 DEF OpenRow, WriteRow
    <2>3. g = run
      BY <2>2 DEF CoverInv, OwnChildren, Live
    <2> QED
      BY <2>2, <2>3 DEF FreshInv
  <1>4. HardKill(r)
    BY <1>1, <1>2, <1>3 DEF Next, Terminating
  <1> QED
    BY <1>4 DEF HardKill, ThreadDone, TypeOK

LEMMA AgentInvoked ==
    ASSUME TypeOK, [Next]_vars, NEW r \in Repos, agents'[r] > agents[r]
    PROVE  \E g \in Launches : child[r][g] = "cleared"
  <1>1. agents' # agents
    BY DEF TypeOK
  <1>2. ~SchedulerStep /\ ~DiskChanges /\ ~Relaunch /\ ~UNCHANGED vars
    BY <1>1 DEF SchedulerStep, Fill, FillDone, WaitDone, Refill, RefillHeld, BatchDone,
                Drained, Aggregate, Reap, DiskChanges, Relaunch, vars
  <1>3. ASSUME NEW q \in Repos, ThreadStep(q) PROVE FALSE
    BY <1>1, <1>3 DEF ThreadStep, SkipSettled, Spawn, SpawnFails, HardKill, Collect
  <1>4. ASSUME NEW q \in Repos, NEW g \in Launches, ChildStep(q, g)
        PROVE  q = r /\ child[r][g] = "cleared"
    <2>1. Invoke(q, g)
      BY <1>1, <1>4 DEF ChildStep, Boot, Invoke, AgentReports, AgentReturns, OpenRow, WriteRow,
               ChildExits
    <2>2. child[q][g] = "cleared" /\ agents' = [agents EXCEPT ![q] = @ + 1]
      BY <2>1 DEF Invoke
    <2>3. q = r
      BY <2>2 DEF TypeOK
    <2> QED
      BY <2>2, <2>3
  <1> QED
    BY <1>2, <1>3, <1>4 DEF Next, Terminating

(* A row that parses is overwritten only by the hard wall of the thread that  *)
(* waits for this very child, through any number of relaunches.               *)
THEOREM RowFinal == Spec => SettledRowIsFinal
  <1>1. IInv /\ CoverInv /\ FreshInv /\ [Next]_vars =>
            [\A r \in Repos :
                (~orphaned /\ Readable(r) /\ row'[r] # row[r]) =>
                    (thread[r] = "wait" /\ thread'[r] = "done" /\ child[r][run] \in Live)]_vars
    BY RowTouched
  <1> QED
    BY <1>1, FreshAlways, PTL DEF Spec, SettledRowIsFinal

(* A relaunch never invokes an agent for a repository that is settled.        *)
THEOREM PaidOnce == Spec => ReinvokedOnlyIfUnsettled
  <1>1. IInv /\ CoverInv /\ FreshInv /\ [Next]_vars =>
            [\A r \in Repos :
                (~orphaned /\ agents'[r] > agents[r] /\ agents[r] > 0) =>
                    (~marker[r] /\ ~Readable(r))]_vars
    <2> SUFFICES ASSUME IInv, CoverInv, FreshInv, [Next]_vars, NEW r \in Repos, ~orphaned,
                        agents'[r] > agents[r]
                 PROVE  ~marker[r] /\ ~Readable(r)
      OBVIOUS
    <2>1. PICK g \in Launches : child[r][g] = "cleared"
      BY AgentInvoked DEF IInv
    <2>2. g = run
      BY <2>1 DEF CoverInv, OwnChildren, Live
    <2> QED
      BY <2>1, <2>2 DEF FreshInv
  <1> QED
    BY <1>1, FreshAlways, PTL DEF Spec, ReinvokedOnlyIfUnsettled

-----------------------------------------------------------------------------
(* A repository as the contract of its workers sees it.                       *)
View(r) == <<child[r], RowOf(r), marker[r]>>
Keeps(r) == Contract(r)!Next \/ UNCHANGED View(r)

LEMMA ViewFrame ==
    ASSUME NEW r \in Repos, child'[r] = child[r], row'[r] = row[r], marker'[r] = marker[r]
    PROVE  UNCHANGED View(r)
  BY DEF View, RowOf, Readable

(* A launch makes at most one child of a repository: before its thread has     *)
(* looked for a row there is none, and what is pending has not been submitted. *)
SpawnInv ==
    /\ \A r \in Repos : thread[r] \in {"idle", "start"} => child[r][run] = "none"
    /\ \A i \in DOMAIN pending : thread[pending[i]] = "idle"

LEMMA SpawnSubmit ==
    ASSUME IInv, SpawnInv, Submit, UNCHANGED <<run, child>>
    PROVE  SpawnInv'
  <1> USE DEF IInv
  <1>1. pending \in Seq(Repos) /\ pending # <<>>
    BY DEF TypeOK, Submit
  <1>2. /\ \A i \in DOMAIN Tail(pending) : i + 1 \in DOMAIN pending
                                           /\ Tail(pending)[i] = pending[i + 1]
        /\ 1 \in DOMAIN pending
        /\ Head(pending) = pending[1]
    BY <1>1, TailFacts
  <1>3. Head(pending) \in Repos /\ pending' = Tail(pending)
        /\ thread' = [thread EXCEPT ![Head(pending)] = "start"]
    BY SubmitFacts
  <1>4. thread[Head(pending)] = "idle"
    BY <1>2 DEF SpawnInv
  <1>5. ASSUME NEW r \in Repos, thread'[r] \in {"idle", "start"} PROVE child'[r][run'] = "none"
    <2>1. thread[r] \in {"idle", "start"}
      BY <1>3, <1>4, <1>5 DEF TypeOK
    <2> QED
      BY <2>1 DEF SpawnInv
  <1>6. ASSUME NEW i \in DOMAIN Tail(pending) PROVE thread'[Tail(pending)[i]] = "idle"
    <2>1. i \in Nat \ {0} /\ i + 1 # 1
      BY <1>1
    <2>2. pending[i + 1] # pending[1] /\ pending[i + 1] \in Repos
      BY <1>1, <1>2, <2>1 DEF PendingInv
    <2>3. thread[pending[i + 1]] = "idle"
      BY <1>2 DEF SpawnInv
    <2> QED
      BY <1>2, <1>3, <2>2, <2>3 DEF TypeOK
  <1> QED
    BY <1>3, <1>5, <1>6 DEF SpawnInv

LEMMA SpawnStep == IInv /\ SpawnInv /\ [Next]_vars => SpawnInv'
  <1> SUFFICES ASSUME IInv, SpawnInv, [Next]_vars PROVE SpawnInv'
    OBVIOUS
  <1> USE DEF IInv
  <1>1. CASE Fill \/ Refill
    BY <1>1, SpawnSubmit DEF Fill, Refill
  <1>2. CASE SchedulerStep \/ DiskChanges \/ Terminating \/ UNCHANGED vars
    <2>1. CASE ~(Fill \/ Refill)
      BY <1>2, <2>1 DEF SchedulerStep, FillDone, WaitDone, RefillHeld, BatchDone, Drained,
                        Aggregate, Reap, DiskChanges, Terminating, vars, SpawnInv, schedVars
    <2> QED
      BY <1>1, <2>1
  <1>3. ASSUME NEW q \in Repos, ThreadStep(q) PROVE SpawnInv'
    <2>1. /\ thread[q] \in {"start", "wait"} /\ UNCHANGED <<run, pending>>
          /\ thread' = [thread EXCEPT ![q] = "wait"] \/ thread' = [thread EXCEPT ![q] = "done"]
          /\ \A r \in Repos : r # q => child'[r] = child[r]
      BY <1>3 DEF ThreadStep, SkipSettled, Spawn, SpawnFails, HardKill, Collect, SetChild,
                  ThreadDone, TypeOK, schedVars
    <2>2. \A i \in DOMAIN pending : pending[i] \in Repos /\ pending[i] # q
      BY <2>1 DEF SpawnInv, TypeOK
    <2> QED
      BY <2>1, <2>2 DEF SpawnInv, TypeOK
  <1>4. ASSUME NEW q \in Repos, NEW g \in Launches, ChildStep(q, g) PROVE SpawnInv'
    <2>1. PICK s \in Stages : child' = [child EXCEPT ![q][g] = s]
      BY <1>4, ChildMoves
    <2>2. child[q][g] # "none" /\ UNCHANGED <<thread, run, pending>>
      BY <1>4 DEF ChildStep, Boot, Invoke, AgentReports, AgentReturns, OpenRow, WriteRow,
                  ChildExits, Live, schedVars
    <2> QED
      BY <2>1, <2>2 DEF SpawnInv, TypeOK
  <1>5. CASE Relaunch
    <2>1. run' \in Launches /\ run' > run
      BY <1>5, BoundAssumption DEF Relaunch, TypeOK, Launches
    <2>2. \A r \in Repos : child[r][run'] = "none"
      BY <2>1 DEF ThreadInv
    <2>3. \A i \in DOMAIN RepoList : RepoList[i] \in Repos
      BY ListAssumption
    <2> QED
      BY <1>5, <2>1, <2>2, <2>3 DEF Relaunch, SpawnInv, Live
  <1> QED
    BY <1>2, <1>3, <1>4, <1>5 DEF Next

LEMMA OneChildPerLaunch == Spec => []SpawnInv
  <1>1. Init => SpawnInv
    BY BoundAssumption, ListAssumption DEF Init, SpawnInv, Launches
  <1> QED
    BY <1>1, SpawnStep, AlwaysInv, PTL DEF Spec

(* Another repository's thread or child is not seen. *)
LEMMA OthersKeep ==
    ASSUME TypeOK, NEW r \in Repos, NEW q \in Repos, q # r,
           ThreadStep(q) \/ \E g \in Launches : ChildStep(q, g)
    PROVE  Keeps(r)
  <1>1. child'[r] = child[r] /\ row'[r] = row[r] /\ marker'[r] = marker[r]
    <2>1. CASE ThreadStep(q)
      BY <2>1 DEF ThreadStep, SkipSettled, Spawn, SpawnFails, HardKill, Collect, Synthesize,
                  SetChild, TypeOK, diskVars
    <2>2. ASSUME NEW g \in Launches, ChildStep(q, g)
          PROVE  child'[r] = child[r] /\ row'[r] = row[r] /\ marker'[r] = marker[r]
      BY <2>2 DEF ChildStep, Boot, Invoke, AgentReports, AgentReturns, OpenRow, WriteRow,
                  ChildExits, SetChild, TypeOK, diskVars
    <2> QED
      BY <2>1, <2>2
  <1> QED
    BY <1>1, ViewFrame DEF Keeps

(* The thread: a child is made once, and a row without a child that ends is    *)
(* replaced only if it does not parse.                                         *)
LEMMA ThreadKeeps ==
    ASSUME TypeOK, ThreadInv, NEW r \in Repos, ThreadStep(r), SpawnInv
    PROVE  Keeps(r)
  <1>0. run \in Launches /\ marker' = marker /\ child[r] \in [Launches -> Stages]
    BY DEF ThreadStep, SkipSettled, Spawn, SpawnFails, HardKill, Collect, Synthesize, TypeOK,
           diskVars
  <1>1. CASE SkipSettled(r)
    BY <1>1, ViewFrame DEF SkipSettled, Keeps, diskVars
  <1>2. CASE Spawn(r)
    <2>1. child[r][run] = "none"
      BY <1>2 DEF Spawn, SpawnInv
    <2>2. child'[r] = [child[r] EXCEPT ![run] = "boot"] /\ RowOf(r)' = RowOf(r)
      BY <1>2 DEF Spawn, SetChild, TypeOK, diskVars, RowOf, Readable
    <2>3. Contract(r)!Take(run)
      BY <1>0, <2>1, <2>2 DEF Contract!Take, Contract!Moves
    <2> QED
      BY <1>0, <2>3 DEF Keeps, Contract!Next, Contract!WorkerStep
  <1>3. CASE (SpawnFails(r) \/ Collect(r)) /\ ~Readable(r)
    <2>1. RowOf(r) # "whole" /\ RowOf(r)' \in {"torn", "whole"} /\ child' = child
      BY <1>3 DEF SpawnFails, Collect, Synthesize, RowOf, Readable, TypeOK, Rows
    <2> QED
      BY <1>0, <2>1 DEF Keeps, Contract!Next, Contract!StandIn
  <1>4. CASE HardKill(r)
    <2>1. child[r][run] \in Live /\ child'[r] = [child[r] EXCEPT ![run] = "dead"]
      BY <1>4 DEF HardKill, SetChild, TypeOK
    <2>2. RowOf(r)' \in {"torn", "whole"}
      BY <1>4 DEF HardKill, Synthesize, RowOf, Readable, TypeOK, Rows
    <2>3. Contract(r)!End(run)
      BY <1>0, <2>1, <2>2 DEF Contract!End, Contract!AtWork, Live
    <2> QED
      BY <1>0, <2>3 DEF Keeps, Contract!Next, Contract!WorkerStep
  <1>5. CASE Collect(r) /\ Readable(r)
    BY <1>0, <1>5, ViewFrame DEF Collect, Keeps, diskVars
  <1> QED
    BY <1>1, <1>2, <1>3, <1>4, <1>5 DEF ThreadStep, SpawnFails

(* Every child goes from stage to stage, an orphan like one of this launch.    *)
LEMMA ChildKeeps ==
    ASSUME TypeOK, NEW r \in Repos, NEW g \in Launches, ChildStep(r, g)
    PROVE  Keeps(r)
  <1> DEFINE To(s) == child'[r] = [child[r] EXCEPT ![g] = s]
  <1>0. child[r] \in [Launches -> Stages] /\ marker[r] \in BOOLEAN
    BY DEF TypeOK
  <1>1. CASE Boot(r, g)
    <2>1. RowOf(r)' = RowOf(r) /\ marker'[r] = marker[r] /\ child[r][g] = "boot"
      BY <1>1 DEF Boot, diskVars, RowOf, Readable
    <2>2. CASE marker[r] /\ Readable(r)
      <3>1. To("dead")
        BY <1>1, <2>2 DEF Boot, SetChild, TypeOK
      <3>2. Contract(r)!End(g)
        BY <2>1, <3>1 DEF Contract!End, Contract!AtWork
      <3> QED
        BY <3>2 DEF Keeps, Contract!Next, Contract!WorkerStep
    <2>3. CASE marker[r] /\ ~Readable(r)
      <3>1. To("emit") /\ RowOf(r) # "whole"
        BY <1>1, <2>3 DEF Boot, SetChild, TypeOK, RowOf, Readable, Rows
      <3>2. Contract(r)!Resume(g)
        BY <2>1, <2>3, <3>1 DEF Contract!Resume, Contract!Moves
      <3> QED
        BY <3>2 DEF Keeps, Contract!Next, Contract!WorkerStep
    <2>4. CASE ~marker[r]
      <3>1. To("cleared")
        BY <1>1, <2>4 DEF Boot, SetChild, TypeOK
      <3>2. Contract(r)!Clear(g)
        BY <2>1, <2>4, <3>1 DEF Contract!Clear, Contract!Moves
      <3> QED
        BY <3>2 DEF Keeps, Contract!Next, Contract!WorkerStep
    <2> QED
      BY <2>2, <2>3, <2>4
  <1>2. CASE Invoke(r, g)
    <2>1. /\ child[r][g] = "cleared" /\ To("agent")
          /\ RowOf(r)' = RowOf(r) /\ marker'[r] = marker[r]
      BY <1>2 DEF Invoke, SetChild, TypeOK, diskVars, RowOf, Readable
    <2>2. Contract(r)!Invoke(g)
      BY <2>1 DEF Contract!Invoke, Contract!Moves
    <2> QED
      BY <2>2 DEF Keeps, Contract!Next, Contract!WorkerStep
  <1>3. CASE AgentReports(r, g)
    <2>1. /\ child[r][g] = "agent" /\ child'[r] = child[r]
          /\ RowOf(r)' = RowOf(r) /\ marker'[r] = TRUE
      BY <1>3 DEF AgentReports, TypeOK, RowOf, Readable
    <2>2. Contract(r)!Report(g)
      BY <2>1 DEF Contract!Report
    <2> QED
      BY <2>2 DEF Keeps, Contract!Next, Contract!WorkerStep
  <1>4. CASE AgentReturns(r, g)
    <2>1. /\ child[r][g] = "agent" /\ To("emit")
          /\ RowOf(r)' = RowOf(r) /\ marker'[r] \in {marker[r], TRUE}
      BY <1>4 DEF AgentReturns, SetChild, TypeOK, RowOf, Readable
    <2>2. Contract(r)!Return(g)
      BY <2>1 DEF Contract!Return, Contract!Moves
    <2> QED
      BY <2>2 DEF Keeps, Contract!Next, Contract!WorkerStep
  <1>5. CASE OpenRow(r, g)
    <2>1. /\ child[r][g] = "emit" /\ To("rowing")
          /\ RowOf(r)' = "torn" /\ marker'[r] = marker[r]
      BY <1>5 DEF OpenRow, SetChild, TypeOK, RowOf, Readable
    <2>2. Contract(r)!OpenRow(g)
      BY <2>1 DEF Contract!OpenRow, Contract!Moves
    <2> QED
      BY <2>2 DEF Keeps, Contract!Next, Contract!WorkerStep
  <1>6. CASE WriteRow(r, g)
    <2>1. /\ child[r][g] = "rowing" /\ To("tail")
          /\ RowOf(r)' \in {RowOf(r), "whole"} /\ marker'[r] = marker[r]
      BY <1>6 DEF WriteRow, SetChild, TypeOK, RowOf, Readable
    <2>2. Contract(r)!WriteRow(g)
      BY <2>1 DEF Contract!WriteRow, Contract!Moves
    <2> QED
      BY <2>2 DEF Keeps, Contract!Next, Contract!WorkerStep
  <1>7. CASE ChildExits(r, g)
    <2>1. /\ child[r][g] \in Live /\ To("dead")
          /\ RowOf(r)' = RowOf(r) /\ marker'[r] = marker[r]
      BY <1>7 DEF ChildExits, SetChild, TypeOK, diskVars, RowOf, Readable
    <2>2. Contract(r)!End(g)
      BY <2>1 DEF Contract!End, Contract!AtWork, Live
    <2> QED
      BY <2>2 DEF Keeps, Contract!Next, Contract!WorkerStep
  <1> QED
    BY <1>1, <1>2, <1>3, <1>4, <1>5, <1>6, <1>7 DEF ChildStep

(* A relaunch leaves the children as they are, or the machine took all of them. *)
LEMMA RelaunchKeeps ==
    ASSUME TypeOK, NEW r \in Repos, Relaunch
    PROVE  Keeps(r)
  <1>0. RowOf(r)' = RowOf(r) /\ row'[r] = row[r] /\ marker'[r] = marker[r]
    BY DEF Relaunch, diskVars, RowOf, Readable
  <1>1. CASE child' = child
    BY <1>0, <1>1, ViewFrame DEF Keeps
  <1>2. CASE child' = [p \in Repos |-> [g \in Launches |->
                          IF child[p][g] \in Live THEN "dead" ELSE child[p][g]]]
    <2>1. child'[r] = [g \in Launches |-> IF child[r][g] \in Live THEN "dead" ELSE child[r][g]]
      BY <1>2
    <2>2. \A g \in Launches : child[r][g] \in Live <=>
                                child[r][g] \in Contract(r)!AtWork \cup {"killed"}
      BY DEF TypeOK, Stages, Live, Contract!AtWork
    <2>3. child'[r] = [g \in Launches |->
                         IF child[r][g] \in Contract(r)!AtWork \cup {"killed"} THEN "dead"
                         ELSE child[r][g]]
      BY <2>1, <2>2
    <2>4. Contract(r)!Crash
      BY <1>0, <2>3 DEF Contract!Crash
    <2> QED
      BY <2>4 DEF Keeps, Contract!Next
  <1> QED
    BY <1>1, <1>2 DEF Relaunch

LEMMA StepKeeps ==
    ASSUME IInv, SpawnInv, [Next]_vars, NEW r \in Repos
    PROVE  Keeps(r)
  <1> USE DEF IInv
  <1>1. CASE SchedulerStep \/ DiskChanges \/ Terminating \/ UNCHANGED vars
    <2>1. UNCHANGED <<child, row, marker>>
      BY <1>1 DEF SchedulerStep, Fill, FillDone, WaitDone, Refill, RefillHeld, BatchDone, Drained,
                  Aggregate, Reap, DiskChanges, Terminating, vars, diskVars
    <2> QED
      BY <2>1, ViewFrame DEF Keeps
  <1>2. ASSUME NEW q \in Repos, ThreadStep(q) PROVE Keeps(r)
    BY <1>2, OthersKeep, ThreadKeeps
  <1>3. ASSUME NEW q \in Repos, NEW g \in Launches, ChildStep(q, g) PROVE Keeps(r)
    BY <1>3, OthersKeep, ChildKeeps
  <1> QED
    BY <1>1, <1>2, <1>3, RelaunchKeeps DEF Next

(* Refinement: the children of a repository implement the contract of its      *)
(* workers, those of this launch and the orphans of earlier ones beside them,  *)
(* for any list, disk, number of relaunches and kind of crash: an agent is     *)
(* invoked only by a child whose own check found the repository unmarked, no   *)
(* marking file is ever taken back, and a row that parses is replaced only by  *)
(* a child past its agent or in the step that ends one.                        *)
THEOREM ContractKept == Spec => ChildrenKeepContract
  <1> DEFINE Initially == \A r \in Repos : Contract(r)!Init
             AllKeep == \A r \in Repos :
                           [Contract(r)!Next]_<<child[r], RowOf(r), marker[r]>>
  <1>1. Init => Initially
    <2> SUFFICES ASSUME Init, NEW r \in Repos PROVE Contract(r)!Init
      OBVIOUS
    <2>1. child[r] = [g \in Launches |-> "none"] /\ RowOf(r) = "none" /\ marker[r] = FALSE
      BY DEF Init, RowOf, Readable
    <2> QED
      BY <2>1 DEF Contract!Init
  <1>2. IInv /\ SpawnInv /\ [Next]_vars => [AllKeep]_vars
    BY StepKeeps DEF Keeps, View
  <1> QED
    BY <1>1, <1>2, AlwaysInv, OneChildPerLaunch, PTL DEF Spec, ChildrenKeepContract

=============================================================================
