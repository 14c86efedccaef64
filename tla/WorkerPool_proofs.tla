-------------------------- MODULE WorkerPool_proofs --------------------------
(* What every implementation of the pool may count on, for any list and size. *)
EXTENDS WorkerPool, Integers, FiniteSetTheorems, SequenceTheorems, TLAPS

(* The pool never has more than Size jobs active (scheduler's docstring: "at *)
(* most `concurrency` in flight").                                           *)
THEOREM PoolIsBounded ==
    ASSUME Size \in Nat
    PROVE  Spec => []Bounded
<1>1. Init => Bounded
    BY FS_EmptySet DEF Init, Bounded
<1>2. Bounded /\ [Next]_<<queue, active>> => Bounded'
    <2> SUFFICES ASSUME Bounded, [Next]_<<queue, active>> PROVE Bounded'
        OBVIOUS
    <2>0. Cardinality(active) \in Nat
        BY FS_CardinalityType DEF Bounded
    <2>1. CASE Start
        <3>1. /\ IsFiniteSet(active \cup {Head(queue)})
              /\ Cardinality(active \cup {Head(queue)}) = Cardinality(active) + 1
            BY <2>1, FS_AddElement DEF Start, Bounded
        <3> QED
            BY <2>0, <2>1, <3>1 DEF Start, Bounded
    <2>2. ASSUME NEW j \in Jobs, Retire(j) PROVE Bounded'
        <3>1. active' \subseteq active
            BY <2>2 DEF Retire
        <3>2. IsFiniteSet(active') /\ Cardinality(active') <= Cardinality(active)
            BY <3>1, FS_Subset DEF Bounded
        <3>3. Cardinality(active') \in Nat
            BY <3>2, FS_CardinalityType
        <3> QED
            BY <2>0, <3>2, <3>3 DEF Bounded
    <2>3. CASE Restart
        BY <2>3, FS_EmptySet DEF Restart, Bounded
    <2>4. CASE UNCHANGED <<queue, active>>
        BY <2>4 DEF Bounded
    <2> QED
        BY <2>1, <2>2, <2>3, <2>4 DEF Next
<1> QED
    BY <1>1, <1>2, PTL DEF Spec

(* The first k jobs started, the others still queued. *)
StartedTo(k) ==
    /\ queue = SubSeq(JobList, k + 1, Len(JobList))
    /\ active \subseteq {JobList[i] : i \in 1..k}

(* One more start takes the next job of the list. *)
LEMMA NextOfList ==
    ASSUME JobList \in Seq(Jobs), NEW k \in 0..Len(JobList),
           SubSeq(JobList, k + 1, Len(JobList)) # <<>>
    PROVE  /\ k + 1 \in 1..Len(JobList)
           /\ Head(SubSeq(JobList, k + 1, Len(JobList))) = JobList[k + 1]
           /\ Tail(SubSeq(JobList, k + 1, Len(JobList))) = SubSeq(JobList, k + 2, Len(JobList))
<1>1. Len(JobList) \in Nat /\ k \in 0..Len(JobList)
    OBVIOUS
<1>2. k # Len(JobList)
    BY <1>1, SubSeqEmpty
<1>3. k + 1 \in 1..Len(JobList) /\ Len(JobList) \in (k + 1)..Len(JobList)
    BY <1>1, <1>2
<1>4. (k + 1) + 1 = k + 2
    BY <1>1
<1> QED
    BY <1>3, <1>4, HeadTailOfSubSeq

(* Jobs start in the order of the list, and each of them once between two    *)
(* restarts, in whatever order they retire (scheduler, pending.pop(0)).      *)
THEOREM PoolKeepsOrder ==
    ASSUME JobList \in Seq(Jobs)
    PROVE  Spec => []InListOrder
<1>0. Len(JobList) \in Nat
    OBVIOUS
<1>a. ASSUME NEW k \in 0..Len(JobList), StartedTo(k)' PROVE InListOrder'
    BY <1>a DEF InListOrder, StartedTo
<1>b. ASSUME queue' = JobList, active' = {} PROVE InListOrder'
    <2>1. SubSeq(JobList, 1, Len(JobList)) = JobList
        BY <1>0, SubSeqFull
    <2> QED
        BY <1>0, <1>b, <2>1 DEF InListOrder
<1>1. Init => InListOrder
    <2>1. SubSeq(JobList, 1, Len(JobList)) = JobList
        BY <1>0, SubSeqFull
    <2> QED
        BY <1>0, <2>1 DEF Init, InListOrder
<1>2. InListOrder /\ [Next]_<<queue, active>> => InListOrder'
    <2> SUFFICES ASSUME InListOrder, [Next]_<<queue, active>> PROVE InListOrder'
        OBVIOUS
    <2>0. PICK k \in 0..Len(JobList) : StartedTo(k)
        BY DEF InListOrder, StartedTo
    <2>1. CASE Start
        <3>1. /\ k + 1 \in 1..Len(JobList)
              /\ Head(queue) = JobList[k + 1]
              /\ Tail(queue) = SubSeq(JobList, k + 2, Len(JobList))
              /\ (k + 1) + 1 = k + 2
            BY <1>0, <2>0, <2>1, NextOfList DEF Start, StartedTo
        <3>2. active' \subseteq {JobList[i] : i \in 1..(k + 1)}
            BY <1>0, <2>0, <2>1, <3>1 DEF Start, StartedTo
        <3>3. StartedTo(k + 1)'
            BY <2>1, <3>1, <3>2 DEF Start, StartedTo
        <3>4. k + 1 \in 0..Len(JobList)
            BY <1>0, <3>1
        <3> QED
            BY <1>a, <3>3, <3>4
    <2>2. ASSUME NEW j \in Jobs, Retire(j) PROVE InListOrder'
        BY <1>a, <2>0, <2>2 DEF Retire, StartedTo
    <2>3. CASE Restart
        BY <1>b, <2>3 DEF Restart
    <2>4. CASE UNCHANGED <<queue, active>>
        BY <2>4 DEF InListOrder
    <2> QED
        BY <2>1, <2>2, <2>3, <2>4 DEF Next
<1> QED
    BY <1>1, <1>2, PTL DEF Spec
=============================================================================
