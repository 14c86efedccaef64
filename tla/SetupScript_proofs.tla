-------------------------- MODULE SetupScript_proofs --------------------------
(* What holds of the rendered script, and of the id that is handed to the *)
(* repair, for every graph, every set of blocks and every text.           *)
EXTENDS SetupScript, TLAPS, WellFoundedInduction

(* The index sets of a sequence that grows by one entry. *)
LEMMA Grown ==
    ASSUME NEW s \in Seq(Entry), NEW e \in Entry
    PROVE  /\ Append(s, e) \in Seq(Entry)
           /\ Len(Append(s, e)) = Len(s) + 1
           /\ \A k \in 1..Len(s) : Append(s, e)[k] = s[k]
           /\ Append(s, e)[Len(s) + 1] = e
           /\ Len(s) \in Nat
    OBVIOUS

(* A set of numbers that is not empty has a least one. *)
LEMMA Least ==
    ASSUME NEW S \in SUBSET Nat, S # {}
    PROVE  \E k \in S : \A j \in S : k <= j
<1> DEFINE R == OpToRel(<, Nat)
<1>1. IsWellFoundedOn(R, Nat)
    BY NatLessThanWellFounded
<1>2. PICK k \in S : \A j \in S : ~(<<j, k>> \in R)
    <2> HIDE DEF R
    <2> QED BY <1>1, WFMin
<1>3. \A j \in S : ~(j < k)
    BY <1>2 DEF OpToRel
<1> QED BY <1>3

(* Everything of the layers behind, and of this one what topo_order() has placed, *)
(* is in the script; what it still has belongs to this layer.                     *)
WalkInv ==
    /\ left \subseteq NodesOf(level) /\ waiting \subseteq BlocksOf(level)
    /\ stage = "render" => level <= Layers
    /\ stage # "render" => left = {}
    /\ Len(script) >= 1 /\ script[1] = Start[1]

PlacedInv ==
    \A n \in Node : layer[n] < level \/ (layer[n] = level /\ n \notin left)
                    => \E i \in 1..Len(script) : At(i, n)

(* An item that failed is one of the script. *)
FailedInv ==
    /\ failed # NoFailure => failed.at \in 1..Len(script) /\ stage # "render"
    /\ failed.part = "body" => failed # NoFailure

BlameInv ==
    stage = "end" /\ failed # NoFailure /\ Localized(report) # Preamble
        => blamed = Localized(report)

IInv == TypeOK /\ WalkInv /\ PlacedInv /\ DependenciesFirst /\ FailedInv /\ BlameInv

-----------------------------------------------------------------------------
(* Writing an item keeps what is in the script where it is. *)
LEMMA Written ==
    ASSUME TypeOK, NEW i \in Item, NEW apt \in BOOLEAN, Write(i, apt)
    PROVE  /\ script' \in Seq(Entry) /\ aptDone' \in BOOLEAN
           /\ Len(script') = Len(script) + 1 /\ Len(script) \in Nat
           /\ \A k \in 1..Len(script) : script'[k] = script[k]
           /\ script'[Len(script) + 1].id = i
<1> DEFINE e == [id |-> i, update |-> apt /\ ~aptDone]
<1>1. e \in Entry
    BY DEF Entry, TypeOK
<1>2. script \in Seq(Entry) /\ script' = Append(script, e)
    BY DEF TypeOK, Write
<1>3. /\ script' \in Seq(Entry) /\ Len(script') = Len(script) + 1 /\ Len(script) \in Nat
      /\ \A k \in 1..Len(script) : script'[k] = script[k]
      /\ script'[Len(script) + 1] = e
    <2> HIDE DEF e
    <2> QED BY <1>1, <1>2, Grown
<1>4. aptDone' \in BOOLEAN
    BY DEF Write, TypeOK
<1> QED BY <1>3, <1>4

(* So what is required of earlier entries stays true, and so does their presence. *)
LEMMA OrderGrows ==
    ASSUME TypeOK, DependenciesFirst, NEW i \in Item, NEW apt \in BOOLEAN, Write(i, apt),
           UNCHANGED graph,
           i \in Node => \A d \in requires[i] :
               \/ layer[d] > layer[i]
               \/ layer[d] = layer[i] /\ ~SoundlyPlaced(i)
               \/ \E k \in 1..Len(script) : At(k, d)
    PROVE  DependenciesFirst'
<1>1. requires' = requires /\ layer' = layer
    BY DEF graph
<1>2. \A n \in Node : SoundlyPlaced(n)' <=> SoundlyPlaced(n)
    BY <1>1 DEF SoundlyPlaced, Grounded, NodesOf
<1> SUFFICES ASSUME NEW j \in 1..Len(script'), NEW n \in Node, At(j, n)',
                    NEW d \in requires[n]
             PROVE  \/ layer[d] > layer[n]
                    \/ layer[d] = layer[n] /\ ~SoundlyPlaced(n)
                    \/ \E k \in 1..(j - 1) : At(k, d)'
    BY <1>1, <1>2 DEF DependenciesFirst
<1>3. CASE j \in 1..Len(script)
    <2>1. At(j, n)
        BY <1>3, Written DEF At
    <2>2. \/ layer[d] > layer[n]
          \/ layer[d] = layer[n] /\ ~SoundlyPlaced(n)
          \/ \E k \in 1..(j - 1) : At(k, d)
        BY <1>3, <2>1 DEF DependenciesFirst
    <2>3. ASSUME NEW k \in 1..(j - 1), At(k, d) PROVE At(k, d)'
        BY <1>3, <2>3, Written DEF At
    <2> QED BY <2>2, <2>3
<1>4. CASE j = Len(script) + 1
    <2>1. n = i
        BY <1>4, Written DEF At
    <2>2. ASSUME NEW k \in 1..Len(script), At(k, d) PROVE At(k, d)'
        BY <2>2, Written DEF At
    <2>3. 1..(j - 1) = 1..Len(script)
        BY <1>4, Written
    <2> QED BY <2>1, <2>2, <2>3
<1> QED BY <1>3, <1>4, Written

LEMMA PlacedGrows ==
    ASSUME TypeOK, NEW i \in Item, NEW apt \in BOOLEAN, Write(i, apt)
    PROVE  /\ \A n \in Node : (\E k \in 1..Len(script) : At(k, n))
                              => \E k \in 1..Len(script') : At(k, n)'
           /\ \E k \in 1..Len(script') : At(k, i)'
<1>1. ASSUME NEW n \in Node, NEW k \in 1..Len(script), At(k, n)
      PROVE  \E j \in 1..Len(script') : At(j, n)'
    <2>1. k \in 1..Len(script') /\ At(k, n)'
        BY <1>1, Written DEF At
    <2> QED BY <2>1
<1>2. \E k \in 1..Len(script') : At(k, i)'
    <2> DEFINE k == Len(script) + 1
    <2>1. k \in 1..Len(script') /\ script'[k].id = i
        BY Written
    <2> HIDE DEF k
    <2> QED BY <2>1 DEF At
<1> QED BY <1>1, <1>2

(* Only what leads into a cycle is placed before something it requires: in a set *)
(* without one, some node is ready.                                            *)
LEMMA CycleBehind ==
    ASSUME TypeOK, WalkInv, Ready = {}, NEW n \in left
    PROVE  ~SoundlyPlaced(n)
<1>1. layer[n] = level /\ left \subseteq NodesOf(level)
    BY DEF WalkInv, NodesOf
<1> SUFFICES ASSUME NEW D \in SUBSET NodesOf(level), n \in D, Grounded(D, NodesOf(level))
             PROVE  FALSE
    BY <1>1 DEF SoundlyPlaced
<1>2. PICK m \in D \cap left : requires[m] \cap (D \cap left) = {}
    BY DEF Grounded
<1>3. requires[m] \cap NodesOf(level) \subseteq D
    BY DEF Grounded
<1>4. requires[m] \cap left = {}
    BY <1>1, <1>2, <1>3
<1> QED BY <1>2, <1>4 DEF Ready

-----------------------------------------------------------------------------
LEMMA InitInv == Init => IInv
<1> SUFFICES ASSUME Init PROVE IInv
    OBVIOUS
<1> USE ItemAssumption, RankAssumption, LayersAssumption, TextAssumption
<1>1. Start \in Seq(Entry) /\ Len(Start) = 1 /\ Start[1].id = Preamble
    <2> DEFINE e == [id |-> Preamble, update |-> FALSE]
    <2>1. e \in Entry /\ e.id = Preamble
        BY DEF Entry, Item
    <2>2. Start = <<e>>
        BY DEF Start
    <2> HIDE DEF e
    <2> QED BY <2>1, <2>2
<1>2. layer \in [Node \cup Block -> 1..Layers]
    BY DEF Init
<1>3. TypeOK
    <2>1. script \in Seq(Entry)
        BY <1>1 DEF Init
    <2>2. failed \in [at : Nat, part : {"none", "update", "body"}]
        BY DEF Init, NoFailure
    <2>3. blamed \in Item /\ report \in Text \cup {NoReport}
        BY DEF Init, Item
    <2>4. level \in 0..(Layers + 1) /\ pos \in Nat \ {0}
        BY DEF Init
    <2> QED BY <2>1, <2>2, <2>3, <2>4 DEF Init, TypeOK
<1>4. WalkInv
    BY <1>1 DEF Init, WalkInv
<1>5. PlacedInv
    <2>1. \A n \in Node : layer[n] \in 1..Layers
        BY <1>2
    <2> QED BY <2>1 DEF Init, PlacedInv
<1>6. DependenciesFirst
    BY <1>1 DEF Init, DependenciesFirst, At
<1>7. FailedInv
    BY DEF Init, FailedInv, NoFailure
<1>8. BlameInv
    BY DEF Init, BlameInv
<1> QED BY <1>3, <1>4, <1>5, <1>6, <1>7, <1>8 DEF IInv

(* The line the search stops at, and the header it goes up to. *)
LEMMA FirstHit ==
    ASSUME TypeOK, NEW t, Hits(t) # {}
    PROVE  \E k \in Hits(t) : /\ \A j \in Hits(t) : k <= j
                              /\ k \in 1..Len(script) /\ script[k] \in Entry
                              /\ Localized(t) = HeaderAt(k, t)
<1> DEFINE Stop(k) == k \in Hits(t) /\ \A j \in Hits(t) : k <= j
<1>1. Hits(t) \subseteq 1..Len(script) /\ Hits(t) \in SUBSET Nat
    BY DEF Hits, TypeOK
<1>2. \E k \in Hits(t) : \A j \in Hits(t) : k <= j
    BY <1>1, Least
<1> DEFINE k0 == CHOOSE k \in Hits(t) : \A j \in Hits(t) : k <= j
<1>3. k0 \in Hits(t) /\ \A j \in Hits(t) : k0 <= j
    BY <1>2
<1>4. Localized(t) = HeaderAt(k0, t)
    BY DEF Localized
<1>5. k0 \in 1..Len(script) /\ script[k0] \in Entry
    BY <1>1, <1>3 DEF TypeOK
<1> HIDE DEF k0
<1> QED BY <1>3, <1>4, <1>5

LEMMA LocalizedIsItem ==
    ASSUME TypeOK, WalkInv, NEW t
    PROVE  Localized(t) \in Item
<1>1. CASE Hits(t) = {}
    BY <1>1 DEF Localized, Item
<1>2. CASE Hits(t) # {}
    <2>1. PICK k \in 1..Len(script) :
              script[k] \in Entry /\ Localized(t) = HeaderAt(k, t)
        BY <1>2, FirstHit
    <2>2. CASE script[k].update /\ t = Refresh
        <3>1. k # 1
            BY <2>2 DEF WalkInv, Start
        <3>2. k - 1 \in 1..Len(script)
            BY <2>1, <3>1 DEF TypeOK
        <3>3. script[k - 1] \in Entry
            BY <3>2 DEF TypeOK
        <3> QED BY <2>1, <2>2, <3>3 DEF HeaderAt, Entry
    <2>3. CASE ~(script[k].update /\ t = Refresh)
        BY <2>1, <2>3 DEF HeaderAt, Entry
    <2> QED BY <2>2, <2>3
<1> QED BY <1>1, <1>2

(* Every step keeps the types. *)
LEMMA TypeStep == TypeOK /\ WalkInv /\ [Next]_vars => TypeOK'
<1> SUFFICES ASSUME TypeOK, WalkInv, [Next]_vars PROVE TypeOK'
    OBVIOUS
<1> USE LayersAssumption
<1>1. CASE NextLayer
    BY <1>1 DEF NextLayer, TypeOK, NodesOf, BlocksOf, graph, replay, verdict
<1>2. ASSUME NEW n \in left, NEW C, Place(n, C), stage = "render"
      PROVE  TypeOK'
    <2>1. n \in Item /\ (n \in AptNode) \in BOOLEAN /\ Write(n, n \in AptNode)
        BY <1>2 DEF TypeOK, Item, Place
    <2>2. script' \in Seq(Entry) /\ aptDone' \in BOOLEAN
        BY <2>1, Written
    <2> QED BY <1>2, <2>2 DEF Place, TypeOK, graph, replay, verdict
<1>3. CASE PlaceReady
    BY <1>2, <1>3 DEF PlaceReady, Ready
<1>4. CASE PlaceInCycle
    BY <1>2, <1>4 DEF PlaceInCycle
<1>5. CASE PlaceBlock
    <2>1. PICK b \in waiting : waiting' = waiting \ {b} /\ Write(b, FALSE)
        BY <1>5 DEF PlaceBlock
    <2>2. b \in Item
        BY DEF TypeOK, Item
    <2>3. script' \in Seq(Entry) /\ aptDone' \in BOOLEAN
        BY <2>1, <2>2, Written
    <2> QED BY <1>5, <2>1, <2>3 DEF PlaceBlock, TypeOK, graph, replay, verdict
<1>6. CASE Finish
    <2>1. CASE editable
        <3>1. Project \in Item /\ Write(Project, FALSE)
            BY <1>6, <2>1 DEF Finish, Item
        <3>2. script' \in Seq(Entry) /\ aptDone' \in BOOLEAN
            BY <3>1, Written
        <3> QED BY <1>6, <3>2 DEF Finish, TypeOK, graph, replay, verdict
    <2>2. CASE ~editable
        BY <1>6, <2>2 DEF Finish, TypeOK, graph, replay, verdict
    <2> QED BY <2>1, <2>2
<1>7. CASE RunsThrough
    BY <1>7 DEF RunsThrough, TypeOK, graph, walk, verdict
<1>8. CASE Replayed
    BY <1>8 DEF Replayed, TypeOK, graph, walk, replay, verdict
<1>9. CASE UpdateFails
    BY <1>9, TextAssumption DEF UpdateFails, Fails, TypeOK, graph, walk, verdict
<1>10. CASE BodyFails
    <2>1. pos \in 1..Len(script)
        BY <1>10 DEF BodyFails, TypeOK
    <2>2. Reports[script[pos].id] \subseteq Text
        <3>1. script[pos] \in Entry
            BY <2>1 DEF TypeOK
        <3> QED BY <3>1, TextAssumption DEF Entry
    <2>3. failed' \in [at : Nat, part : {"none", "update", "body"}]
        BY <1>10, <2>1 DEF BodyFails, Fails
    <2> QED BY <1>10, <2>2, <2>3 DEF BodyFails, Fails, TypeOK, graph, walk, verdict
<1>11. CASE Blame
    <2>1. Localized(report) \in Item
        BY LocalizedIsItem
    <2>2. blamed' \in Item
        BY <1>11, <2>1 DEF Blame, Item
    <2> QED BY <1>11, <2>2 DEF Blame, TypeOK, graph, walk, replay
<1>12. CASE UNCHANGED vars
    BY <1>12 DEF vars, TypeOK, graph, walk, replay, verdict
<1> QED BY <1>1, <1>3, <1>4, <1>5, <1>6, <1>7, <1>8, <1>9, <1>10, <1>11, <1>12
        DEF Next, Render, Run

-----------------------------------------------------------------------------
LEMMA WalkStep == TypeOK /\ WalkInv /\ [Next]_vars => WalkInv'
<1> SUFFICES ASSUME TypeOK, WalkInv, [Next]_vars PROVE WalkInv'
    OBVIOUS
<1> USE LayersAssumption
<1>1. CASE NextLayer
    BY <1>1 DEF NextLayer, WalkInv, TypeOK, NodesOf, BlocksOf, graph
<1>2. ASSUME NEW i \in Item, NEW apt \in BOOLEAN, Write(i, apt)
      PROVE  Len(script') >= 1 /\ script'[1] = Start[1]
    <2>1. 1 \in 1..Len(script) /\ script[1] = Start[1]
        BY DEF WalkInv, TypeOK
    <2> QED BY <1>2, <2>1, Written
<1>3. ASSUME NEW n \in left, NEW C, Place(n, C), stage = "render"
      PROVE  WalkInv'
    <2>1. n \in Item /\ (n \in AptNode) \in BOOLEAN /\ Write(n, n \in AptNode)
        BY <1>3 DEF TypeOK, Item, Place
    <2>2. Len(script') >= 1 /\ script'[1] = Start[1]
        BY <2>1, <1>2
    <2> QED BY <1>3, <2>2 DEF Place, WalkInv, NodesOf, BlocksOf, graph
<1>4. CASE PlaceReady
    BY <1>3, <1>4 DEF PlaceReady, Ready
<1>5. CASE PlaceInCycle
    BY <1>3, <1>5 DEF PlaceInCycle
<1>6. CASE PlaceBlock
    <2>1. PICK b \in waiting : waiting' = waiting \ {b} /\ Write(b, FALSE)
        BY <1>6 DEF PlaceBlock
    <2>2. b \in Item
        BY DEF TypeOK, Item
    <2>3. Len(script') >= 1 /\ script'[1] = Start[1]
        BY <2>1, <2>2, <1>2
    <2> QED BY <1>6, <2>1, <2>3 DEF PlaceBlock, WalkInv, NodesOf, BlocksOf, graph
<1>7. CASE Finish
    <2>1. Len(script') >= 1 /\ script'[1] = Start[1]
        <3>1. CASE editable
            <4>1. Project \in Item /\ Write(Project, FALSE)
                BY <1>7, <3>1 DEF Finish, Item
            <4> QED BY <4>1, <1>2
        <3>2. CASE ~editable
            BY <1>7, <3>2 DEF Finish, WalkInv
        <3> QED BY <3>1, <3>2
    <2> QED BY <1>7, <2>1 DEF Finish, WalkInv
<1>8. CASE Run \/ Blame
    BY <1>8 DEF Run, RunsThrough, Replayed, UpdateFails, BodyFails, Fails, Blame, WalkInv, TypeOK,
                NodesOf, BlocksOf, graph, walk
<1>9. CASE UNCHANGED vars
    BY <1>9 DEF vars, WalkInv, NodesOf, BlocksOf, graph, walk
<1> QED BY <1>1, <1>4, <1>5, <1>6, <1>7, <1>8, <1>9 DEF Next, Render

(* A step that writes an item and takes nothing but it off what is left. *)
LEMMA PlacedAfter ==
    ASSUME TypeOK, PlacedInv, NEW i \in Item, NEW apt \in BOOLEAN, Write(i, apt),
           UNCHANGED <<graph, level>>, left' = left \ {i}
    PROVE  PlacedInv'
<1>1. layer' = layer /\ level' = level
    BY DEF graph
<1> SUFFICES ASSUME NEW n \in Node, layer[n] < level \/ (layer[n] = level /\ n \notin left')
             PROVE  \E k \in 1..Len(script') : At(k, n)'
    BY <1>1 DEF PlacedInv
<1>2. CASE n = i
    BY <1>2, PlacedGrows
<1>3. CASE n # i
    <2>1. \E k \in 1..Len(script) : At(k, n)
        BY <1>3 DEF PlacedInv
    <2> QED BY <2>1, PlacedGrows
<1> QED BY <1>2, <1>3

LEMMA PlacedStep == TypeOK /\ WalkInv /\ PlacedInv /\ [Next]_vars => PlacedInv'
<1> SUFFICES ASSUME TypeOK, WalkInv, PlacedInv, [Next]_vars PROVE PlacedInv'
    OBVIOUS
<1> USE LayersAssumption, ItemAssumption
<1>1. CASE NextLayer
    <2>1. ASSUME NEW n \in Node, layer[n] < level + 1 \/ (layer[n] = level + 1 /\ n \notin NodesOf(level + 1))
          PROVE  \E k \in 1..Len(script) : At(k, n)
        <3>1. layer[n] \in Nat /\ level \in Nat
            BY DEF TypeOK
        <3>2. layer[n] < level \/ layer[n] = level
            BY <2>1, <3>1 DEF NodesOf
        <3> QED BY <1>1, <3>2 DEF NextLayer, PlacedInv
    <2> QED BY <1>1, <2>1 DEF NextLayer, PlacedInv, graph, At
<1>2. ASSUME NEW n \in left, NEW C, Place(n, C) PROVE PlacedInv'
    <2>1. n \in Item /\ (n \in AptNode) \in BOOLEAN /\ Write(n, n \in AptNode)
        BY <1>2 DEF TypeOK, Item, Place
    <2>2. UNCHANGED <<graph, level>> /\ left' = left \ {n}
        BY <1>2 DEF Place
    <2> QED BY <2>1, <2>2, PlacedAfter
<1>3. CASE PlaceReady
    BY <1>2, <1>3 DEF PlaceReady, Ready
<1>4. CASE PlaceInCycle
    BY <1>2, <1>4 DEF PlaceInCycle
<1>5. CASE PlaceBlock
    <2>1. PICK b \in waiting : Write(b, FALSE)
        BY <1>5 DEF PlaceBlock
    <2>2. b \in Item /\ left' = left \ {b} /\ UNCHANGED <<graph, level>>
        BY <1>5 DEF TypeOK, Item, PlaceBlock
    <2> QED BY <2>1, <2>2, PlacedAfter
<1>6. CASE Finish
    <2>1. \A n \in Node : \E k \in 1..Len(script) : At(k, n)
        <3>1. \A n \in Node : layer[n] \in 1..Layers
            BY DEF TypeOK
        <3>2. left = {} /\ level = Layers
            BY <1>6 DEF Finish
        <3>3. \A n \in Node : layer[n] < level \/ layer[n] = level
            BY <3>1, <3>2
        <3> QED BY <3>2, <3>3 DEF PlacedInv
    <2>2. \A n \in Node : \E k \in 1..Len(script') : At(k, n)'
        <3>1. CASE editable
            <4>1. Project \in Item /\ Write(Project, FALSE)
                BY <1>6, <3>1 DEF Finish, Item
            <4> QED BY <2>1, <4>1, PlacedGrows
        <3>2. CASE ~editable
            BY <1>6, <2>1, <3>2 DEF Finish, At
        <3> QED BY <3>1, <3>2
    <2> QED BY <2>2 DEF PlacedInv
<1>7. CASE Run \/ Blame \/ UNCHANGED vars
    BY <1>7 DEF Run, RunsThrough, Replayed, UpdateFails, BodyFails, Fails, Blame, PlacedInv, At,
                graph, walk, vars
<1> QED BY <1>1, <1>3, <1>4, <1>5, <1>6, <1>7 DEF Next, Render

(* What a node requires is either behind it already, or it is none of those the *)
(* order is promised to.                                                       *)
LEMMA OrderStep ==
    TypeOK /\ WalkInv /\ PlacedInv /\ DependenciesFirst /\ [Next]_vars => DependenciesFirst'
<1> SUFFICES ASSUME TypeOK, WalkInv, PlacedInv, DependenciesFirst, [Next]_vars
             PROVE  DependenciesFirst'
    OBVIOUS
<1> USE LayersAssumption, ItemAssumption
<1>1. CASE UNCHANGED <<script, graph>>
    BY <1>1 DEF DependenciesFirst, At, SoundlyPlaced, Grounded, NodesOf, graph
<1>2. ASSUME NEW n \in left, NEW C, Place(n, C),
             \A d \in requires[n] : d \in left => ~SoundlyPlaced(n)
      PROVE  DependenciesFirst'
    <2>1. n \in Item /\ (n \in AptNode) \in BOOLEAN /\ Write(n, n \in AptNode)
          /\ UNCHANGED graph
        BY <1>2 DEF TypeOK, Item, Place
    <2>2. layer[n] = level /\ n \in Node
        BY DEF WalkInv, NodesOf
    <2>3. ASSUME NEW d \in requires[n]
          PROVE  \/ layer[d] > layer[n]
                 \/ layer[d] = layer[n] /\ ~SoundlyPlaced(n)
                 \/ \E k \in 1..Len(script) : At(k, d)
        <3>1. d \in Node /\ layer[d] \in Nat /\ level \in Nat
            BY <2>2 DEF TypeOK
        <3>2. CASE layer[d] > level
            BY <2>2, <3>2
        <3>3. CASE layer[d] < level \/ (d \notin left /\ layer[d] = level)
            BY <3>1, <3>3 DEF PlacedInv
        <3>4. CASE d \in left
            <4>1. layer[d] = level
                BY <3>4 DEF WalkInv, NodesOf
            <4> QED BY <1>2, <2>2, <3>4, <4>1
        <3> QED BY <3>1, <3>2, <3>3, <3>4
    <2> QED BY <2>1, <2>3, OrderGrows
<1>3. CASE PlaceReady
    <2>1. PICK n \in Ready : Place(n, Ready)
        BY <1>3 DEF PlaceReady
    <2>2. n \in left /\ requires[n] \cap left = {}
        BY DEF Ready
    <2>3. \A d \in requires[n] : d \in left => ~SoundlyPlaced(n)
        BY <2>2
    <2> QED BY <2>1, <2>2, <2>3, <1>2
<1>4. CASE PlaceInCycle
    <2>1. PICK n \in left : Place(n, left)
        BY <1>4 DEF PlaceInCycle
    <2>2. ~SoundlyPlaced(n)
        BY <1>4, CycleBehind DEF PlaceInCycle
    <2> QED BY <2>1, <2>2, <1>2
<1>5. ASSUME NEW i \in Item \ Node, Write(i, FALSE), UNCHANGED graph
      PROVE  DependenciesFirst'
    BY <1>5, OrderGrows
<1>6. CASE PlaceBlock
    <2>1. PICK b \in waiting : Write(b, FALSE)
        BY <1>6 DEF PlaceBlock
    <2>2. b \in Item \ Node /\ UNCHANGED graph
        BY <1>6 DEF TypeOK, Item, PlaceBlock
    <2> QED BY <2>1, <2>2, <1>5
<1>7. CASE Finish
    <2>1. CASE editable
        <3>1. Project \in Item \ Node /\ Write(Project, FALSE) /\ UNCHANGED graph
            BY <1>7, <2>1 DEF Finish, Item
        <3> QED BY <3>1, <1>5
    <2>2. CASE ~editable
        BY <1>1, <1>7, <2>2 DEF Finish
    <2> QED BY <2>1, <2>2
<1>8. CASE NextLayer \/ Run \/ Blame \/ UNCHANGED vars
    BY <1>1, <1>8 DEF NextLayer, Run, RunsThrough, Replayed, UpdateFails, BodyFails, Fails, Blame,
                      walk, vars
<1> QED BY <1>3, <1>4, <1>6, <1>7, <1>8 DEF Next, Render

LEMMA FailedStep == TypeOK /\ FailedInv /\ [Next]_vars => FailedInv'
<1> SUFFICES ASSUME TypeOK, FailedInv, [Next]_vars PROVE FailedInv'
    OBVIOUS
<1>1. CASE Render
    <2>1. stage = "render" /\ failed' = failed
        BY <1>1 DEF Render, NextLayer, PlaceReady, PlaceInCycle, Place, PlaceBlock, Finish, replay
    <2> QED BY <2>1 DEF FailedInv
<1>2. CASE UpdateFails \/ BodyFails
    <2>1. pos \in 1..Len(script) /\ failed'.at = pos /\ script' = script /\ stage' # "render"
        BY <1>2 DEF UpdateFails, BodyFails, Fails, TypeOK, walk
    <2>2. failed'.part = "body" => failed' # NoFailure
        BY DEF NoFailure
    <2> QED BY <2>1, <2>2 DEF FailedInv
<1>3. CASE RunsThrough \/ Replayed \/ Blame \/ UNCHANGED vars
    BY <1>3 DEF RunsThrough, Replayed, Blame, vars, walk, replay, FailedInv
<1> QED BY <1>1, <1>2, <1>3 DEF Next, Run

LEMMA BlameStep == BlameInv /\ [Next]_vars => BlameInv'
<1> SUFFICES ASSUME BlameInv, [Next]_vars PROVE BlameInv'
    OBVIOUS
<1>1. CASE Render \/ Run
    <2>1. stage' # "end"
        BY <1>1 DEF Render, NextLayer, PlaceReady, PlaceInCycle, Place, PlaceBlock, Finish,
                    Run, RunsThrough, Replayed, UpdateFails, BodyFails, Fails
    <2> QED BY <2>1 DEF BlameInv
<1>2. CASE Blame
    <2>1. failed' = failed /\ report' = report /\ script' = script
        BY <1>2 DEF Blame, walk, replay
    <2>2. Localized(report)' = Localized(report)
        BY <2>1 DEF Localized, Hits, Found, HeaderAt
    <2>3. failed # NoFailure /\ Localized(report) # Preamble => blamed' = Localized(report)
        BY <1>2 DEF Blame
    <2> QED BY <2>1, <2>2, <2>3 DEF BlameInv
<1>3. CASE UNCHANGED vars
    BY <1>3 DEF vars, walk, replay, verdict, BlameInv, Localized, Hits, Found, HeaderAt
<1> QED BY <1>1, <1>2, <1>3 DEF Next

-----------------------------------------------------------------------------
LEMMA Inductive == Spec => []IInv
<1>1. Init => IInv
    BY InitInv
<1>2. IInv /\ [Next]_vars => IInv'
    BY TypeStep, WalkStep, PlacedStep, OrderStep, FailedStep, BlameStep DEF IInv
<1> QED BY <1>1, <1>2, PTL DEF Spec

(* The variables of render, replay and localization keep their types, for any graph. *)
THEOREM TypeCorrect == Spec => []TypeOK
<1>1. IInv => TypeOK
    BY DEF IInv
<1> QED BY <1>1, Inductive, PTL

(* For every graph, cyclic or not, the script installs what a node requires above it, *)
(* unless a later layer or a cycle it leads into stands in the way.                  *)
THEOREM OrderIsSound == Spec => []DependenciesFirst
<1>1. IInv => DependenciesFirst
    BY DEF IInv
<1> QED BY <1>1, Inductive, PTL

(* The search goes wrong in one way only: an earlier line contains the text. *)
THEOREM BlameIsSound == Spec => []BlamedUnlessSeenBefore
<1>1. IInv => BlamedUnlessSeenBefore
    <2> SUFFICES ASSUME IInv, CommandReported, ~SeenBefore
                 PROVE  blamed = script[failed.at].id
        BY DEF BlamedUnlessSeenBefore
    <2> DEFINE at == failed.at
    <2>1. failed # NoFailure
        BY DEF CommandReported, NoFailure
    <2>2. at \in 1..Len(script)
        BY <2>1 DEF IInv, FailedInv
    <2>3. at \in Hits(report)
        BY <2>2 DEF CommandReported, Hits, Found
    <2>4. PICK k \in Hits(report) : /\ \A j \in Hits(report) : k <= j
                                    /\ k \in 1..Len(script)
                                    /\ Localized(report) = HeaderAt(k, report)
        BY <2>3, FirstHit DEF IInv
    <2>5. k <= at /\ k \in 1..at
        BY <2>2, <2>3, <2>4
    <2>6. Found(k, report)
        BY <2>4 DEF Hits
    <2>7. ~(script[k].update /\ report = Refresh)
        BY <2>5 DEF SeenBefore
    <2>8. ~(k < at)
        BY <2>5, <2>6, <2>7 DEF SeenBefore, Found
    <2>9. k = at
        BY <2>2, <2>4, <2>5, <2>8
    <2>10. Localized(report) = script[at].id
        BY <2>4, <2>7, <2>9 DEF HeaderAt
    <2> QED BY <2>1, <2>10 DEF IInv, BlameInv, CommandReported
<1> QED BY <1>1, Inductive, PTL

-----------------------------------------------------------------------------
(* The script is complete and in order.  What stands in it: nothing that is still *)
(* to come, the project at the end only; what is behind: all blocks, too.         *)
OnlyPlaced ==
    \A k \in 1..Len(script) :
        /\ script[k].id \in Node =>
               layer[script[k].id] <= level /\ script[k].id \notin left
        /\ script[k].id \in Block =>
               /\ layer[script[k].id] <= level /\ script[k].id \notin waiting
               /\ layer[script[k].id] = level => left = {}
        /\ script[k].id = Project => stage # "render" /\ editable

BlocksPlaced ==
    \A b \in Block : layer[b] < level \/ (layer[b] = level /\ b \notin waiting)
                     => Installed(b)

Ended ==
    stage # "render" =>
        /\ waiting = {} /\ level = Layers + 1
        /\ editable => Installed(Project)

NothingTwice ==
    \A j, k \in 1..Len(script) : script[j].id = script[k].id => j = k

Refreshed == aptDone <=> \E k \in 1..Len(script) : script[k].update

Complete ==
    /\ OnlyPlaced /\ BlocksPlaced /\ Ended /\ NothingTwice
    /\ Refreshed /\ RefreshedOnce /\ LayersInOrder

(* The entries after an item is written: those before, where they were, and its own. *)
LEMMA Entries ==
    ASSUME TypeOK, NEW i \in Item, NEW apt \in BOOLEAN, Write(i, apt)
    PROVE  /\ \A k \in 1..Len(script') :
                  \/ k \in 1..Len(script) /\ script'[k] = script[k]
                  \/ k = Len(script) + 1
           /\ \A k \in 1..Len(script) : k \in 1..Len(script') /\ script'[k] = script[k]
           /\ Len(script) + 1 \in 1..Len(script') /\ Len(script) \in Nat
           /\ script'[Len(script) + 1].id = i
           /\ script'[Len(script) + 1].update <=> apt /\ ~aptDone
<1> DEFINE e == [id |-> i, update |-> apt /\ ~aptDone]
<1>1. e \in Entry /\ e.id = i /\ (e.update <=> apt /\ ~aptDone)
    BY DEF Entry, TypeOK
<1>2. script \in Seq(Entry) /\ script' = Append(script, e)
    BY DEF TypeOK, Write
<1>3. /\ Len(script') = Len(script) + 1 /\ Len(script) \in Nat
      /\ \A k \in 1..Len(script) : script'[k] = script[k]
      /\ script'[Len(script) + 1] = e
    <2> HIDE DEF e
    <2> QED BY <1>1, <1>2, Grown
<1> HIDE DEF e
<1> QED BY <1>1, <1>3

(* What was in the script still is, and so is the item; nothing else has come. *)
LEMMA InstalledAfter ==
    ASSUME TypeOK, NEW i \in Item, NEW apt \in BOOLEAN, Write(i, apt)
    PROVE  \A x \in Item : Installed(x)' <=> Installed(x) \/ x = i
<1> SUFFICES ASSUME NEW x \in Item PROVE Installed(x)' <=> Installed(x) \/ x = i
    OBVIOUS
<1>1. ASSUME NEW k \in 1..Len(script), At(k, x) PROVE Installed(x)'
    BY <1>1, Entries DEF Installed, At
<1>2. ASSUME x = i PROVE Installed(x)'
    BY <1>2, Entries DEF Installed, At
<1>3. ASSUME NEW k \in 1..Len(script'), At(k, x)' PROVE Installed(x) \/ x = i
    BY <1>3, Entries DEF Installed, At
<1> QED BY <1>1, <1>2, <1>3 DEF Installed

LEMMA OnceAfter ==
    ASSUME TypeOK, NothingTwice, NEW i \in Item, NEW apt \in BOOLEAN, Write(i, apt),
           ~Installed(i)
    PROVE  NothingTwice'
<1> SUFFICES ASSUME NEW j \in 1..Len(script'), NEW k \in 1..Len(script'),
                    script'[j].id = script'[k].id
             PROVE  j = k
    BY DEF NothingTwice
<1>1. \A l \in 1..Len(script) : script'[l].id # i
    BY Entries DEF Installed, At
<1>2. CASE j = Len(script) + 1 \/ k = Len(script) + 1
    BY <1>1, <1>2, Entries
<1>3. CASE j # Len(script) + 1 /\ k # Len(script) + 1
    BY <1>3, Entries DEF NothingTwice
<1> QED BY <1>2, <1>3

LEMMA RefreshAfter ==
    ASSUME TypeOK, Refreshed, RefreshedOnce, NEW i \in Item, NEW apt \in BOOLEAN,
           Write(i, apt), apt <=> i \in AptNode
    PROVE  Refreshed' /\ RefreshedOnce'
<1> DEFINE last == Len(script) + 1
<1>1. aptDone' <=> aptDone \/ apt
    BY DEF Write, TypeOK
<1>2. ASSUME NEW k \in 1..Len(script), script[k].update PROVE aptDone
    BY <1>2 DEF Refreshed
<1>3. aptDone => \E k \in 1..Len(script') : script'[k].update
    <2>1. aptDone => \E k \in 1..Len(script) : script[k].update
        BY DEF Refreshed
    <2> QED BY <2>1, Entries
<1>4. apt /\ ~aptDone => \E k \in 1..Len(script') : script'[k].update
    BY Entries
<1>5. ASSUME NEW k \in 1..Len(script'), script'[k].update PROVE aptDone \/ apt
    BY <1>2, <1>5, Entries
<1>6. Refreshed'
    BY <1>1, <1>3, <1>4, <1>5 DEF Refreshed
<1>7. ASSUME NEW j \in 1..Len(script'), NEW k \in 1..Len(script'),
             script'[j].update, script'[k].update
      PROVE  j = k
    <2>1. CASE j = last /\ k = last
        BY <2>1
    <2>2. CASE j # last /\ k # last
        BY <1>7, <2>2, Entries DEF RefreshedOnce
    <2>3. CASE j = last /\ k # last
        <3>1. ~aptDone
            BY <1>7, <2>3, Entries
        <3>2. k \in 1..Len(script) /\ script[k].update
            BY <1>7, <2>3, Entries
        <3> QED BY <1>2, <3>1, <3>2
    <2>4. CASE j # last /\ k = last
        <3>1. ~aptDone
            BY <1>7, <2>4, Entries
        <3>2. j \in 1..Len(script) /\ script[j].update
            BY <1>7, <2>4, Entries
        <3> QED BY <1>2, <3>1, <3>2
    <2> QED BY <2>1, <2>2, <2>3, <2>4
<1>8. ASSUME NEW k \in 1..Len(script'), script'[k].update PROVE script'[k].id \in AptNode
    BY <1>8, Entries DEF RefreshedOnce
<1>9. ASSUME NEW k \in 1..Len(script'), script'[k].id \in AptNode
      PROVE  \E j \in 1..k : script'[j].update
    <2>1. CASE k # last
        <3>1. k \in 1..Len(script) /\ script[k].id \in AptNode
            BY <1>9, <2>1, Entries
        <3>2. PICK j \in 1..k : script[j].update
            BY <3>1 DEF RefreshedOnce
        <3>3. j \in 1..Len(script)
            BY <3>1, <3>2, Entries
        <3> QED BY <3>2, <3>3, Entries
    <2>2. CASE k = last
        <3>1. apt
            BY <1>9, <2>2, Entries
        <3>2. CASE aptDone
            <4>1. PICK j \in 1..Len(script) : script[j].update
                BY <3>2 DEF Refreshed
            <4>2. j \in 1..k /\ script'[j].update
                BY <2>2, <4>1, Entries
            <4> QED BY <4>2
        <3>3. CASE ~aptDone
            <4>1. script'[last].update <=> apt /\ ~aptDone
                BY Entries
            <4>2. k \in 1..k
                BY Entries
            <4> QED BY <2>2, <3>1, <3>3, <4>1, <4>2
        <3> QED BY <3>2, <3>3
    <2> QED BY <2>1, <2>2
<1>10. RefreshedOnce'
    BY <1>7, <1>8, <1>9 DEF RefreshedOnce
<1> QED BY <1>6, <1>10

(* An item of this layer can be added: nothing of a later one is there yet. *)
LEMMA LayersAfter ==
    ASSUME TypeOK, LayersInOrder, OnlyPlaced, NEW i \in Item, NEW apt \in BOOLEAN,
           Write(i, apt), UNCHANGED graph,
           i \in Node \cup Block => layer[i] = level,
           i \in Node => left # {}
    PROVE  LayersInOrder'
<1>1. layer' = layer
    BY DEF graph
<1> SUFFICES ASSUME NEW k \in 1..Len(script'), NEW j \in 1..(k - 1),
                    NEW x \in Node \cup Block, NEW y \in Node \cup Block,
                    script'[j].id = x, script'[k].id = y
             PROVE  \/ layer[x] < layer[y]
                    \/ layer[x] = layer[y] /\ (x \in Block => y \in Block)
    BY <1>1 DEF LayersInOrder, At
<1>2. j \in 1..Len(script) /\ script[j].id = x
    BY Entries
<1>3. CASE k # Len(script) + 1
    <2>1. k \in 1..Len(script) /\ script[k].id = y
        BY <1>3, Entries
    <2> QED BY <1>2, <2>1 DEF LayersInOrder, At
<1>4. CASE k = Len(script) + 1
    <2>1. y = i /\ layer[y] = level
        BY <1>4, Entries
    <2>2. layer[x] <= level /\ (x \in Block /\ layer[x] = level => left = {})
        BY <1>2 DEF OnlyPlaced
    <2>3. layer[x] \in Nat /\ level \in Nat
        BY DEF TypeOK
    <2> QED BY <2>1, <2>2, <2>3
<1> QED BY <1>3, <1>4

LEMMA BlocksAfter ==
    ASSUME TypeOK, BlocksPlaced, NEW i \in Item, NEW apt \in BOOLEAN, Write(i, apt),
           UNCHANGED <<graph, level>>, \A b \in waiting : b \in waiting' \/ b = i
    PROVE  BlocksPlaced'
<1>1. layer' = layer /\ level' = level
    BY DEF graph
<1> SUFFICES ASSUME NEW b \in Block, layer[b] < level \/ (layer[b] = level /\ b \notin waiting')
             PROVE  Installed(b)'
    BY <1>1 DEF BlocksPlaced
<1>2. Installed(b) \/ b = i
    BY DEF BlocksPlaced
<1> QED BY <1>2, InstalledAfter DEF Item

-----------------------------------------------------------------------------
(* A node: it was left, so it is in no entry yet. *)
LEMMA NodeWritten ==
    ASSUME TypeOK, WalkInv, Complete, NEW n \in left, NEW C, Place(n, C), stage = "render"
    PROVE  Complete'
<1> USE ItemAssumption DEF Complete
<1>1. n \in Node /\ n \in Item /\ layer[n] = level /\ n \notin Block /\ n # Project
    BY DEF TypeOK, Item, WalkInv, NodesOf
<1>2. (n \in AptNode) \in BOOLEAN /\ Write(n, n \in AptNode)
    BY DEF Place
<1>3. left' = left \ {n} /\ UNCHANGED <<graph, stage, level, waiting>>
    BY DEF Place
<1>4. layer' = layer /\ editable' = editable
    BY <1>3 DEF graph
<1>5. ~Installed(n)
    BY <1>1 DEF OnlyPlaced, Installed, At
<1>6. OnlyPlaced'
    <2> SUFFICES ASSUME NEW k \in 1..Len(script')
                 PROVE  /\ script'[k].id \in Node =>
                               layer[script'[k].id] <= level /\ script'[k].id \notin left'
                        /\ script'[k].id \in Block =>
                               /\ layer[script'[k].id] <= level /\ script'[k].id \notin waiting
                               /\ layer[script'[k].id] = level => left' = {}
                        /\ script'[k].id = Project => stage # "render" /\ editable
        BY <1>3, <1>4 DEF OnlyPlaced
    <2>1. CASE k = Len(script) + 1
        <3>1. script'[k].id = n
            BY <1>1, <1>2, <2>1, Entries
        <3>2. level \in Nat
            BY LayersAssumption DEF TypeOK
        <3>3. n \notin left' /\ level <= level
            BY <1>3, <3>2
        <3> QED BY <1>1, <3>1, <3>3
    <2>2. CASE k # Len(script) + 1
        <3>1. k \in 1..Len(script) /\ script'[k] = script[k]
            BY <1>1, <1>2, <2>2, Entries
        <3> QED BY <1>3, <3>1 DEF OnlyPlaced
    <2> QED BY <2>1, <2>2
<1>7. BlocksPlaced'
    BY <1>1, <1>2, <1>3, BlocksAfter
<1>8. Ended'
    BY <1>3 DEF Ended
<1>9. NothingTwice'
    BY <1>1, <1>2, <1>5, OnceAfter
<1>10. Refreshed' /\ RefreshedOnce'
    BY <1>1, <1>2, RefreshAfter
<1>11. LayersInOrder'
    BY <1>1, <1>2, <1>3, LayersAfter
<1> QED BY <1>6, <1>7, <1>8, <1>9, <1>10, <1>11

(* A block: it was waiting, and no node of its layer is left. *)
LEMMA BlockWritten == TypeOK /\ WalkInv /\ Complete /\ PlaceBlock => Complete'
<1> SUFFICES ASSUME TypeOK, WalkInv, Complete, PlaceBlock PROVE Complete'
    OBVIOUS
<1> USE ItemAssumption DEF Complete
<1>1. PICK b \in waiting : waiting' = waiting \ {b} /\ Write(b, FALSE)
    BY DEF PlaceBlock
<1>2. b \in Block /\ b \in Item /\ layer[b] = level /\ b \notin Node /\ b # Project
    BY DEF TypeOK, Item, WalkInv, BlocksOf
<1>3. left = {} /\ stage = "render" /\ UNCHANGED <<graph, stage, level, left>>
    BY DEF PlaceBlock
<1>4. layer' = layer /\ editable' = editable
    BY <1>3 DEF graph
<1>5. ~Installed(b)
    BY <1>2 DEF OnlyPlaced, Installed, At
<1>6. OnlyPlaced'
    <2> SUFFICES ASSUME NEW k \in 1..Len(script')
                 PROVE  /\ script'[k].id \in Node =>
                               layer[script'[k].id] <= level /\ script'[k].id \notin left
                        /\ script'[k].id \in Block =>
                               /\ layer[script'[k].id] <= level /\ script'[k].id \notin waiting'
                               /\ layer[script'[k].id] = level => left = {}
                        /\ script'[k].id = Project => stage # "render" /\ editable
        BY <1>3, <1>4 DEF OnlyPlaced
    <2>1. CASE k = Len(script) + 1
        <3>1. script'[k].id = b
            BY <1>1, <1>2, <2>1, Entries
        <3>2. level \in Nat
            BY LayersAssumption DEF TypeOK
        <3>3. b \notin waiting' /\ level <= level
            BY <1>1, <3>2
        <3> QED BY <1>2, <1>3, <3>1, <3>3
    <2>2. CASE k # Len(script) + 1
        <3>1. k \in 1..Len(script) /\ script'[k] = script[k]
            BY <1>1, <1>2, <2>2, Entries
        <3> QED BY <1>1, <1>3, <3>1 DEF OnlyPlaced
    <2> QED BY <2>1, <2>2
<1>7. BlocksPlaced'
    BY <1>1, <1>2, <1>3, BlocksAfter
<1>8. Ended'
    BY <1>3 DEF Ended
<1>9. NothingTwice'
    BY <1>1, <1>2, <1>5, OnceAfter
<1>10. Refreshed' /\ RefreshedOnce'
    BY <1>1, <1>2, RefreshAfter
<1>11. LayersInOrder'
    BY <1>1, <1>2, <1>3, LayersAfter
<1> QED BY <1>6, <1>7, <1>8, <1>9, <1>10, <1>11

(* The end: every layer is behind, and the project is in no entry yet. *)
LEMMA FinishWritten == TypeOK /\ WalkInv /\ Complete /\ Finish => Complete'
<1> SUFFICES ASSUME TypeOK, WalkInv, Complete, Finish PROVE Complete'
    OBVIOUS
<1> USE ItemAssumption, LayersAssumption DEF Complete
<1>1. /\ stage = "render" /\ left = {} /\ waiting = {} /\ level = Layers
      /\ level' = Layers + 1 /\ stage' # "render"
      /\ left' = {} /\ waiting' = {} /\ layer' = layer /\ editable' = editable
      /\ UNCHANGED graph
    BY DEF Finish, graph
<1>2. \A b \in Block : Installed(b)
    <2>1. \A b \in Block : layer[b] \in 1..Layers
        BY DEF TypeOK
    <2>2. \A b \in Block : layer[b] < level \/ (layer[b] = level /\ b \notin waiting)
        BY <1>1, <2>1
    <2> QED BY <2>2 DEF BlocksPlaced
<1>3. \A k \in 1..Len(script) :
          /\ script[k].id # Project
          /\ script[k].id \in Node \cup Block =>
                 layer[script[k].id] <= level' /\ layer[script[k].id] # level'
    <2>1. \A k \in 1..Len(script) : script[k].id \in Node \cup Block =>
              layer[script[k].id] <= level /\ layer[script[k].id] \in Nat
        BY DEF OnlyPlaced, TypeOK
    <2> QED BY <1>1, <2>1 DEF OnlyPlaced
<1>4. CASE editable
    <2>1. Project \in Item /\ Project \notin Node \cup Block /\ Write(Project, FALSE)
        BY <1>4 DEF Finish, Item
    <2>2. ~Installed(Project)
        BY <1>3 DEF Installed, At
    <2>3. NothingTwice'
        BY <2>1, <2>2, OnceAfter
    <2>4. Refreshed' /\ RefreshedOnce'
        BY <2>1, RefreshAfter
    <2>5. LayersInOrder'
        BY <1>1, <2>1, LayersAfter
    <2>6. BlocksPlaced' /\ Ended'
        BY <1>1, <1>2, <2>1, InstalledAfter DEF BlocksPlaced, Ended, Item
    <2>7. OnlyPlaced'
        <3> SUFFICES ASSUME NEW k \in 1..Len(script')
                     PROVE  script'[k].id \in Node \cup Block =>
                                layer[script'[k].id] <= level' /\ layer[script'[k].id] # level'
            BY <1>1, <1>4 DEF OnlyPlaced
        <3> QED BY <1>3, <2>1, Entries
    <2> QED BY <2>3, <2>4, <2>5, <2>6, <2>7
<1>5. CASE ~editable
    <2>1. script' = script /\ aptDone' = aptDone
        BY <1>5 DEF Finish
    <2>2. BlocksPlaced' /\ Ended'
        BY <1>1, <1>2, <1>5, <2>1 DEF BlocksPlaced, Ended, Installed, At
    <2>3. OnlyPlaced'
        BY <1>1, <1>3, <2>1 DEF OnlyPlaced
    <2>4. NothingTwice' /\ Refreshed' /\ RefreshedOnce' /\ LayersInOrder'
        BY <1>1, <2>1 DEF NothingTwice, Refreshed, RefreshedOnce, LayersInOrder, At
    <2> QED BY <2>2, <2>3, <2>4
<1> QED BY <1>4, <1>5

(* The next layer begins when nothing of this one is left. *)
LEMMA LayerBegun == TypeOK /\ WalkInv /\ Complete /\ NextLayer => Complete'
<1> SUFFICES ASSUME TypeOK, WalkInv, Complete, NextLayer PROVE Complete'
    OBVIOUS
<1> USE LayersAssumption DEF Complete
<1>1. /\ stage = "render" /\ stage' = stage /\ left = {} /\ waiting = {}
      /\ level' = level + 1 /\ level \in Nat
      /\ left' = NodesOf(level + 1) /\ waiting' = BlocksOf(level + 1)
      /\ script' = script /\ aptDone' = aptDone /\ layer' = layer /\ editable' = editable
    BY DEF NextLayer, graph, TypeOK
<1>2. OnlyPlaced'
    <2>1. \A k \in 1..Len(script) : script[k].id \in Node \cup Block =>
              /\ layer[script[k].id] <= level /\ layer[script[k].id] \in Nat
              /\ layer[script[k].id] <= level + 1 /\ layer[script[k].id] # level + 1
        <3>1. \A k \in 1..Len(script) : script[k].id \in Node \cup Block =>
                  layer[script[k].id] <= level /\ layer[script[k].id] \in Nat
            BY DEF OnlyPlaced, TypeOK
        <3> QED BY <1>1, <3>1
    <2> QED BY <1>1, <2>1 DEF OnlyPlaced, NodesOf, BlocksOf
<1>3. BlocksPlaced'
    <2> SUFFICES ASSUME NEW b \in Block,
                        layer[b] < level + 1 \/ (layer[b] = level + 1 /\ b \notin BlocksOf(level + 1))
                 PROVE  Installed(b)
        BY <1>1 DEF BlocksPlaced, Installed, At
    <2>1. layer[b] \in Nat
        BY DEF TypeOK
    <2>2. layer[b] < level \/ layer[b] = level
        BY <1>1, <2>1 DEF BlocksOf
    <2> QED BY <1>1, <2>2 DEF BlocksPlaced
<1>4. Ended' /\ NothingTwice' /\ Refreshed' /\ RefreshedOnce' /\ LayersInOrder'
    BY <1>1 DEF Ended, NothingTwice, Refreshed, RefreshedOnce, LayersInOrder, At
<1> QED BY <1>2, <1>3, <1>4

LEMMA CompleteStep == TypeOK /\ WalkInv /\ Complete /\ [Next]_vars => Complete'
<1> SUFFICES ASSUME TypeOK, WalkInv, Complete, [Next]_vars PROVE Complete'
    OBVIOUS
<1>1. CASE PlaceReady
    BY <1>1, NodeWritten DEF PlaceReady, Ready
<1>2. CASE PlaceInCycle
    BY <1>2, NodeWritten DEF PlaceInCycle
<1>3. CASE UNCHANGED <<graph, walk>> /\ (stage' = stage \/ "render" \notin {stage, stage'})
    <2>1. UNCHANGED <<layer, editable, level, left, waiting, script, aptDone>>
        BY <1>3 DEF graph, walk
    <2>2. OnlyPlaced'
        BY <1>3, <2>1 DEF Complete, OnlyPlaced
    <2>3. BlocksPlaced' /\ Ended'
        BY <1>3, <2>1 DEF Complete, BlocksPlaced, Ended, Installed, At
    <2>4. NothingTwice' /\ Refreshed' /\ RefreshedOnce' /\ LayersInOrder'
        BY <2>1 DEF Complete, NothingTwice, Refreshed, RefreshedOnce, LayersInOrder, At
    <2> QED BY <2>2, <2>3, <2>4 DEF Complete
<1>4. CASE Run \/ Blame \/ UNCHANGED vars
    <2>1. UNCHANGED <<graph, walk>> /\ (stage' = stage \/ "render" \notin {stage, stage'})
        BY <1>4 DEF Run, RunsThrough, Replayed, UpdateFails, BodyFails, Fails, Blame, vars
    <2> QED BY <1>3, <2>1
<1> QED BY <1>1, <1>2, <1>4, LayerBegun, BlockWritten, FinishWritten DEF Next, Render

LEMMA CompleteInit == Init => Complete
<1> SUFFICES ASSUME Init PROVE Complete
    OBVIOUS
<1> USE ItemAssumption
<1>1. script = Start /\ Len(script) = 1 /\ script[1].id = Preamble /\ ~script[1].update
    BY DEF Init, Start
<1>2. \A k \in 1..Len(script) : k = 1
    BY <1>1
<1>3. Preamble \notin Node \cup Block /\ Preamble # Project /\ Preamble \notin AptNode
    OBVIOUS
<1>4. OnlyPlaced /\ NothingTwice /\ Refreshed /\ RefreshedOnce
    BY <1>1, <1>2, <1>3 DEF Init, OnlyPlaced, NothingTwice, Refreshed, RefreshedOnce
<1>5. LayersInOrder
    BY <1>1, <1>2 DEF LayersInOrder
<1>6. BlocksPlaced
    <2>1. layer \in [Node \cup Block -> 1..Layers] /\ level = 0
        BY DEF Init
    <2>2. \A b \in Block : layer[b] \in 1..Layers
        BY <2>1
    <2> QED BY <2>1, <2>2, LayersAssumption DEF BlocksPlaced
<1>7. Ended
    BY DEF Init, Ended
<1> QED BY <1>4, <1>5, <1>6, <1>7 DEF Complete

LEMMA AlwaysComplete == Spec => [](IInv /\ Complete)
<1>1. Init => Complete
    BY CompleteInit
<1>2. IInv /\ Complete /\ [Next]_vars => Complete'
    BY CompleteStep DEF IInv
<1> QED BY <1>1, <1>2, Inductive, PTL DEF Spec

(* For every graph, the script that is replayed installs all of it, each item once. *)
THEOREM NothingLost == Spec => []WholeGraphOnce
<1>1. IInv /\ Complete => WholeGraphOnce
    <2> SUFFICES ASSUME IInv, Complete PROVE WholeGraphOnce
        OBVIOUS
    <2> USE ItemAssumption, LayersAssumption DEF IInv, Complete
    <2>1. ASSUME stage # "render", NEW x \in Item
          PROVE  Installed(x) <=> (x = Project => editable)
        <3>1. level = Layers + 1 /\ waiting = {} /\ (editable => Installed(Project))
            BY <2>1 DEF Ended
        <3>2. x \in Node \cup Block => layer[x] < level
            BY <3>1 DEF TypeOK
        <3>3. CASE x \in Node
            BY <3>2, <3>3 DEF PlacedInv, Installed
        <3>4. CASE x \in Block
            BY <3>2, <3>4 DEF BlocksPlaced
        <3>5. CASE x = Project
            BY <3>1, <3>5 DEF OnlyPlaced, Installed, At
        <3>6. CASE x = Preamble
            <4>1. 1 \in 1..Len(script) /\ script[1].id = Preamble
                BY DEF WalkInv, TypeOK, Start
            <4> QED BY <3>6, <4>1 DEF Installed, At
        <3> QED BY <3>3, <3>4, <3>5, <3>6 DEF Item
    <2> QED BY <2>1 DEF WholeGraphOnce, NothingTwice
<1> QED BY <1>1, AlwaysComplete, PTL

(* For every graph, the package lists are refreshed above the first apt node, and once. *)
THEOREM RefreshIsSound == Spec => []RefreshedOnce
<1>1. Complete => RefreshedOnce
    BY DEF Complete
<1> QED BY <1>1, AlwaysComplete, PTL

(* For every graph, nothing of a layer is installed before what an earlier one has. *)
THEOREM LayersAreSound == Spec => []LayersInOrder
<1>1. Complete => LayersInOrder
    BY DEF Complete
<1> QED BY <1>1, AlwaysComplete, PTL

(* The search ends at a line of the script or above the first of them. *)
LEMMA LocalizedInstalled ==
    ASSUME TypeOK, WalkInv, NEW t
    PROVE  Installed(Localized(t))
<1>1. 1 \in 1..Len(script) /\ script[1].id = Preamble
    BY DEF WalkInv, TypeOK, Start
<1>2. CASE Hits(t) = {}
    BY <1>1, <1>2 DEF Localized, Installed, At
<1>3. CASE Hits(t) # {}
    <2>1. PICK k \in 1..Len(script) : Localized(t) = HeaderAt(k, t)
        BY <1>3, FirstHit
    <2>2. CASE script[k].update /\ t = Refresh
        <3>1. k # 1
            BY <2>2 DEF WalkInv, Start
        <3>2. k - 1 \in 1..Len(script)
            BY <3>1 DEF TypeOK
        <3> QED BY <2>1, <2>2, <3>2 DEF HeaderAt, Installed, At
    <2>3. CASE ~(script[k].update /\ t = Refresh)
        BY <2>1, <2>3 DEF HeaderAt, Installed, At
    <2> QED BY <2>2, <2>3
<1> QED BY <1>2, <1>3

LEMMA BlamedStep == IInv /\ Complete /\ BlamedIsInstalled /\ [Next]_vars => BlamedIsInstalled'
<1> SUFFICES ASSUME IInv, Complete, BlamedIsInstalled, [Next]_vars PROVE BlamedIsInstalled'
    OBVIOUS
<1> USE DEF IInv
<1>1. CASE Render \/ Run
    <2>1. stage' # "end"
        BY <1>1 DEF Render, NextLayer, PlaceReady, PlaceInCycle, Place, PlaceBlock, Finish,
                    Run, RunsThrough, Replayed, UpdateFails, BodyFails, Fails
    <2> QED BY <2>1 DEF BlamedIsInstalled
<1>2. CASE Blame
    <2>1. stage = "certify" /\ script' = script /\ unsat' \subseteq Node
        BY <1>2 DEF Blame, walk
    <2>2. \A n \in Node : Installed(n)
        <3>1. level = Layers + 1 /\ level \in Nat
            BY <2>1, LayersAssumption DEF Complete, Ended
        <3>2. \A n \in Node : layer[n] \in 1..Layers
            BY DEF TypeOK
        <3>3. \A n \in Node : layer[n] < level
            BY <3>1, <3>2, LayersAssumption
        <3> QED BY <3>3 DEF PlacedInv, Installed
    <2>3. Installed(Preamble)
        <3>1. 1 \in 1..Len(script) /\ script[1].id = Preamble
            BY DEF WalkInv, TypeOK, Start
        <3> QED BY <3>1 DEF Installed, At
    <2>4. Installed(Localized(report))
        BY LocalizedInstalled
    <2>5. blamed' \in {Preamble, Localized(report)} \cup unsat'
        BY <1>2 DEF Blame
    <2>6. Installed(blamed')
        BY <2>1, <2>2, <2>3, <2>4, <2>5
    <2>7. Installed(blamed)' <=> Installed(blamed')
        BY <2>1 DEF Installed, At
    <2> QED BY <2>6, <2>7 DEF BlamedIsInstalled
<1>3. CASE UNCHANGED vars
    BY <1>3 DEF vars, walk, verdict, BlamedIsInstalled, Installed, At
<1> QED BY <1>1, <1>2, <1>3 DEF Next

(* Whatever the texts, the graph and the checks, what is repaired was installed. *)
THEOREM BlameIsInstalled == Spec => []BlamedIsInstalled
<1>1. Init => BlamedIsInstalled
    BY DEF Init, BlamedIsInstalled
<1>2. IInv /\ Complete /\ BlamedIsInstalled /\ [Next]_vars => BlamedIsInstalled'
    BY BlamedStep
<1> QED BY <1>1, <1>2, AlwaysComplete, PTL DEF Spec
=============================================================================
