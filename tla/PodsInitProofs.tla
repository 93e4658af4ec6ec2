--------------------------- MODULE PodsInitProofs ---------------------------
(***************************************************************************)
(* Proofs about the ordered start of Cassandra pods: whatever the number   *)
(* of DCs, replicas and seeds, nodes that are not seeds start one at a     *)
(* time, after the seeds of their DC, and DC after DC.                     *)
(***************************************************************************)
EXTENDS PodsInit, FiniteSetTheorems, WellFoundedInduction, TLAPS

\* The first start of the node is over: its pod has been ready, or it is in the ring.
Started(p) == mode[p] # "NEW"
Lower(q, p) == DCof(q) = DCof(p) /\ Ord(q) < Ord(p)

\* All nodes the spec asks for in DC d have started.
AllStarted(d) == \A p \in Pods : DCof(p) = d /\ Ord(p) < spec[d] => Started(p)

\* No scale up is taken back: a user shrinks a DC whose nodes have all started.
KeepsScaleUps == \A d \in DCs : spec'[d] < spec[d] => AllStarted(d)

\* A user enlarges a DC when the nodes of the DCs after it have all started.
GrowsInOrder == \A d, e \in DCs : d < e /\ spec'[d] > spec[d] => AllStarted(e)

\* hostPort does not switch the order off, no pod is lost before its node has
\* started, and no other node loses its data.
Orderly ==
    /\ ~HostPort
    /\ \A s \in Scenarios : s.budget["loseNew"] = 0
    /\ Persistence \/ /\ \A s \in Scenarios : s.budget["lose"] = 0
                      /\ \A e \in Edits, d \in DCs : e[1][d] <= e[2][d]

\* Ordinals have one digit, so that the names of the pods sort like them.
SortedNames == MaxReplicas <= Base

-----------------------------------------------------------------------------
(* The inductive invariant.                                                *)

Phases == {"absent", "pending", "waiting", "starting", "ready", "left"}
Modes == {"NEW", "JOINING", "NORMAL", "LEAVING", "DECOMMISSIONED"}
Entries == {"none", "paused", "go"}

TypeInv ==
    /\ spec \in Specs
    /\ sts \in [DCs -> -1..MaxReplicas]
    /\ status \in [DCs -> Nat]
    /\ phase \in [Pods -> Phases]
    /\ mode \in [Pods -> Modes]
    /\ seed \subseteq Pods
    /\ cm \in [Pods -> Entries] /\ mounted \in [Pods -> Entries]
    /\ dirty \in BOOLEAN
    /\ pc \in {"idle", "config", "cassandra", "scale"}
    /\ cc \in Specs
    /\ list \in [Pods -> Phases]
    /\ listSeed \subseteq Pods /\ replaced \subseteq Pods
    /\ budget \in [FaultKinds -> Nat]

BudgetInv == budget["loseNew"] = 0 /\ (Persistence \/ budget["lose"] = 0)

\* Without persistence no statefulset ever shrinks, so no pod is ever removed.
GrowthInv ==
    ~Persistence =>
        /\ \A d \in DCs : sts[d] <= spec[d] /\ (pc # "idle" => sts[d] <= cc[d] /\ cc[d] <= spec[d])
        /\ \A p \in Pods : phase[p] # "absent" => Ord(p) < sts[DCof(p)]

\* While a DC has a node that has not started, its statefulset only grows.
SizeInv ==
    \A p \in Pods : ~Started(p) =>
        /\ Ord(p) < sts[DCof(p)] =>
            /\ sts[DCof(p)] <= spec[DCof(p)]
            /\ pc # "idle" => sts[DCof(p)] <= cc[DCof(p)]
        /\ pc # "idle" /\ (Ord(p) < cc[DCof(p)] \/ Ord(p) < sts[DCof(p)]) =>
            cc[DCof(p)] <= spec[DCof(p)]

\* A node that has not started: it never was ready, and its pod stays.
NewInv ==
    \A p \in Pods : ~Started(p) =>
        /\ phase[p] \in {"absent", "pending", "waiting", "starting"}
        /\ phase[p] # "absent" => Ord(p) < sts[DCof(p)]
        /\ phase[p] \in {"absent", "pending"} => mounted[p] = "none"
        /\ phase[p] = "absent" => cm[p] = "none"

\* Pods are created in the order of their ordinals.
RankInv ==
    \A p, q \in Pods : Lower(q, p) /\ ~Started(q) =>
        /\ phase[p] # "absent" => phase[q] # "absent"
        /\ Started(p) => Ord(p) < sts[DCof(p)] /\ phase[q] # "absent"

\* What the pass listed: a pod whose node has not started is still there.
ListInv ==
    pc # "idle" => \A p \in Pods : list[p] # "absent" =>
        /\ ~Started(p) => phase[p] # "absent" /\ list[p] # "ready"
        /\ \A q \in Pods : Lower(q, p) => list[q] # "absent" \/ Started(q)

\* Seed labels, and the copy the pass listed.
SeedInv ==
    \A p \in Pods : ~Started(p) /\ (p \in seed \/ (pc # "idle" /\ p \in listSeed)) =>
        phase[p] # "absent" /\ Ord(p) < dcNumberOfSeeds(spec[DCof(p)])

StartedIn(d) == {p \in Pods : DCof(p) = d /\ Started(p)}

\* A statefulset never reports more pods than have started.
StatusInv == \A d \in DCs : status[d] <= Cardinality(StartedIn(d))

\* The pod of a node that has not started runs, or is told to.
Released(p) == ~Started(p) /\ (phase[p] = "starting" \/ cm[p] = "go" \/ mounted[p] = "go")

\* A node that is no seed is released after all nodes before it have started.
OrderInv ==
    \A p, q \in Pods : Released(p) /\ Lower(q, p) /\ Ord(p) >= dcNumberOfSeeds(spec[DCof(p)])
        => Started(q)

\* A node that is no seed is released after all seeds of its DC have started.
SeedOrderInv ==
    \A p, q \in Pods : /\ Released(p) /\ DCof(q) = DCof(p)
                       /\ Ord(p) >= dcNumberOfSeeds(spec[DCof(p)])
                       /\ Ord(q) < dcNumberOfSeeds(spec[DCof(p)])
        => Started(q)

\* The DCs before that of a released pod have started.  If one was enlarged
\* since the pass began, no pod of a later DC is left for this pass to release.
DCsInv ==
    /\ \A p, q \in Pods : Released(p) /\ DCof(q) < DCof(p) /\ Ord(q) < spec[DCof(q)] => Started(q)
    /\ \A d \in DCs, p \in Pods :
         pc # "idle" /\ d < DCof(p) /\ cc[d] < spec[d] /\ Ord(p) < cc[DCof(p)] => Started(p)

IInv == /\ TypeInv /\ BudgetInv /\ GrowthInv /\ SizeInv /\ NewInv /\ RankInv /\ ListInv
        /\ SeedInv /\ StatusInv

-----------------------------------------------------------------------------
(* The constants.                                                          *)

LEMMA PodFacts ==
    /\ DCs \subseteq Int
    /\ MaxReplicas \in Nat /\ MaxReplicas > 0
    /\ \A p \in Pods : DCof(p) \in DCs /\ Ord(p) \in 0..MaxReplicas - 1
                       /\ p = <<DCof(p), Ord(p)>>
    /\ \A d \in DCs, i \in 0..MaxReplicas - 1 :
          <<d, i>> \in Pods /\ DCof(<<d, i>>) = d /\ Ord(<<d, i>>) = i
BY PodsInitAssumption DEF Pods, DCof, Ord

LEMMA PodType ==
    ASSUME NEW p \in Pods
    PROVE  DCof(p) \in DCs /\ Ord(p) \in Nat /\ Ord(p) \in Int /\ Ord(p) < MaxReplicas
<1>1. DCof(p) \in DCs /\ Ord(p) \in 0..MaxReplicas - 1
  BY DEF Pods, DCof, Ord
<1> QED BY <1>1, PodsInitAssumption

\* dcNumberOfSeeds never falls when a DC grows, and stays within numSeeds.
LEMMA SeedsGrow ==
    ASSUME NEW r \in Nat, NEW s \in Nat, r <= s
    PROVE  /\ dcNumberOfSeeds(r) \in Nat /\ dcNumberOfSeeds(r) <= NumSeeds
           /\ dcNumberOfSeeds(r) <= r
           /\ dcNumberOfSeeds(r) <= dcNumberOfSeeds(s)
BY PodsInitAssumption DEF dcNumberOfSeeds

\* A DC that grows gets no further seed below a pod that is none.
LEMMA SeedsSettled ==
    ASSUME NEW r \in Nat, NEW s \in Nat, r <= s, NEW i \in Nat, i < r, i >= dcNumberOfSeeds(s)
    PROVE  dcNumberOfSeeds(r) = dcNumberOfSeeds(s)
BY PodsInitAssumption DEF dcNumberOfSeeds

\* As long as ordinals have one digit, the names of pods sort by ordinal.
LEMMA NamesSortByOrdinal ==
    ASSUME SortedNames, NEW p \in Pods, NEW q \in Pods, SortedBefore(p, q)
    PROVE  Ord(p) < Ord(q)
<1> DEFINE i == Ord(p)
           j == Ord(q)
<1>1. i \in Nat /\ j \in Nat /\ i < Base /\ j < Base /\ Base \in Nat
  BY PodFacts, PodsInitAssumption DEF SortedNames
<1>2. i * (Base + 1) < j * (Base + 1)
  BY <1>1 DEF SortedBefore, NameKey
<1>3. i < j
  <2> SUFFICES ASSUME j <= i PROVE FALSE
    BY <1>1
  <2>1. PICK k \in Nat : i = j + k
    <3>1. i - j \in Nat /\ i = j + (i - j)
      BY <1>1
    <3> QED BY <3>1
  <2>2. i * (Base + 1) = j * (Base + 1) + k * (Base + 1)
    BY <1>1, <2>1
  <2>3. k * (Base + 1) \in Nat /\ i * (Base + 1) \in Nat /\ j * (Base + 1) \in Nat
    BY <1>1, <2>1
  <2> HIDE DEF i, j
  <2> QED BY <1>2, <2>2, <2>3
<1> QED BY <1>3

\* In any case the first two pods sort first.
LEMMA FirstNames ==
    ASSUME NEW p \in Pods, NEW q \in Pods, Ord(q) < Ord(p), Ord(q) < 2
    PROVE  ~SortedBefore(p, q)
<1> DEFINE i == Ord(p)
           j == Ord(q)
           k == i \div Base
<1>1. i \in Nat /\ j \in {0, 1} /\ i > j /\ i < MaxReplicas
  BY PodType
<1>2. Base \in Nat /\ Base > 1
  <2>1. Base \in Nat /\ Base > 0 /\ MaxReplicas \in Nat /\ MaxReplicas <= Base * Base
    BY PodsInitAssumption
  <2>2. Base = 1 => MaxReplicas <= 1
    BY <2>1
  <2> HIDE DEF i, j
  <2> QED BY <1>1, <2>1, <2>2
<1>3. NameKey(j) = j * (Base + 1)
  BY <1>1, <1>2 DEF NameKey
<1>4. CASE i < Base
  <2>1. NameKey(i) = i * (Base + 1)
    BY <1>4 DEF NameKey
  <2>2. i * (Base + 1) >= Base + 1
    BY <1>1, <1>2
  <2>3. NameKey(j) <= Base + 1 /\ NameKey(j) \in Nat /\ NameKey(i) \in Nat
    BY <1>1, <1>2, <1>3, <2>1
  <2> QED BY <1>2, <2>1, <2>2, <2>3 DEF SortedBefore
<1>5. CASE ~(i < Base)
  <2>1. k \in Nat /\ k >= 1 /\ i % Base \in Nat
    BY <1>1, <1>2, <1>5
  <2>2. NameKey(i) = k * (Base + 1) + 1 + (i % Base)
    BY <1>5 DEF NameKey
  <2> HIDE DEF k
  <2>3. k * (Base + 1) >= Base + 1 /\ k * (Base + 1) \in Nat
    BY <1>2, <2>1
  <2>4. NameKey(j) <= Base + 1 /\ NameKey(j) \in Nat
    BY <1>1, <1>2, <1>3
  <2> QED BY <1>2, <2>1, <2>2, <2>3, <2>4 DEF SortedBefore
<1> QED BY <1>4, <1>5

-----------------------------------------------------------------------------
(* Types.                                                                  *)

LEMMA InitType == Init => TypeInv
<1> SUFFICES ASSUME Init PROVE TypeInv
  OBVIOUS
<1>1. PICK s \in Scenarios : InitPods(s)
  BY DEF Init
<1>2. s \in [spec : Specs, deployed : BOOLEAN, budget : [FaultKinds -> Nat]]
  BY PodsInitAssumption
<1>3. s.spec \in [DCs -> 0..MaxReplicas] /\ s.budget \in [FaultKinds -> Nat]
      /\ s.deployed \in BOOLEAN
  BY <1>2 DEF Specs
<1>4. spec \in Specs /\ sts \in [DCs -> -1..MaxReplicas] /\ status \in [DCs -> Nat]
  BY <1>1, <1>3, PodFacts DEF InitPods, Specs, NoSts
<1>5. phase \in [Pods -> Phases] /\ mode \in [Pods -> Modes] /\ seed \subseteq Pods
      /\ cm \in [Pods -> Entries] /\ mounted \in [Pods -> Entries]
  BY <1>1 DEF InitPods, Phases, Modes, Entries, SeedPods
<1>6. cc \in Specs /\ list \in [Pods -> Phases]
  BY PodFacts DEF Init, Specs, NoPods, Phases
<1> QED BY <1>1, <1>3, <1>4, <1>5, <1>6 DEF Init, InitPods, TypeInv

LEMMA PodsFinite == IsFiniteSet(Pods)
<1>1. IsFiniteSet(0..MaxReplicas - 1)
  BY PodFacts, FS_Interval
<1> QED BY <1>1, PodsInitAssumption, FS_Product DEF Pods

LEMMA ReadyIsNat ==
    ASSUME NEW d \in DCs
    PROVE  ReadyPods(d) \in Nat
<1>1. IsFiniteSet({p \in Pods : DCof(p) = d /\ phase[p] = "ready"})
  BY PodsFinite, FS_Subset
<1> QED BY <1>1, FS_CardinalityType DEF ReadyPods

LEMMA SpendType ==
    ASSUME TypeInv, NEW k \in FaultKinds, Spend(k)
    PROVE  budget' \in [FaultKinds -> Nat]
BY DEF TypeInv, Spend

LEMMA TypeStep == TypeInv /\ [Next]_vars => TypeInv'
<1> SUFFICES ASSUME TypeInv, [Next]_vars PROVE TypeInv'
  OBVIOUS
<1> USE DEF TypeInv, Phases, Modes, Entries
<1>0. {"edit", "crash", "lose", "loseNew", "abort"} = FaultKinds
  BY DEF FaultKinds
<1>r. ASSUME NEW b, Return(b)
      PROVE  cc' \in Specs /\ list' \in [Pods -> Phases] /\ listSeed' \subseteq Pods
             /\ replaced' \subseteq Pods /\ pc' = "idle" /\ dirty' \in BOOLEAN
  BY <1>r, PodFacts DEF Return, Specs, NoPods
<1>g. Grown \in [DCs -> -1..MaxReplicas]
  BY PodFacts DEF Grown, Specs
<1>1. CASE Begin
  BY <1>1 DEF Begin, podVars
<1>2. CASE WaitForAddresses
  BY <1>2, <1>r DEF WaitForAddresses, podVars
<1>3. CASE WritePodsConfig
  BY <1>3 DEF WritePodsConfig, podVars
<1>4. CASE ReconcileCassandra
  <2>1. sts' \in [DCs -> -1..MaxReplicas]
    BY <1>4, PodFacts DEF ReconcileCassandra, Specs, NoSts
  <2>2. seed' \subseteq Pods /\ dirty' \in BOOLEAN /\ pc' = "scale"
    BY <1>4 DEF ReconcileCassandra, SeedPods
  <2> QED BY <1>4, <2>1, <2>2 DEF ReconcileCassandra
<1>5. CASE ScaleUp
  BY <1>5, <1>r, <1>g DEF ScaleUp, podVars
<1>6. ASSUME NEW d \in DCs, ScaleDown(d) PROVE TypeInv'
  <2>1. PICK b : Return(b)
    BY <1>6 DEF ScaleDown
  <2>2. mode' \in [Pods -> Modes]
    <3>1. UNCHANGED mode \/ mode' = [mode EXCEPT ![<<d, sts[d] - 1>>] = "LEAVING"]
      BY <1>6 DEF ScaleDown
    <3> QED BY <3>1
  <2>3. sts' = Grown \/ sts' = [Grown EXCEPT ![d] = @ - 1]
    BY <1>6 DEF ScaleDown
  <2>4. Grown[d] > -1
    <3>1. d \in Shrinking
      BY <1>6 DEF ScaleDown
    <3> QED BY <3>1, PodFacts DEF Shrinking, DesiredDCs, Grown, Specs, NoSts
  <2>5. sts' \in [DCs -> -1..MaxReplicas]
    <3>1. Grown[d] - 1 \in -1..MaxReplicas
      BY <1>g, <2>4, PodFacts
    <3> HIDE DEF TypeInv
    <3> QED BY <1>g, <2>3, <3>1
  <2>6. UNCHANGED <<spec, status, phase, seed, mounted, cm, budget>>
    BY <1>6 DEF ScaleDown
  <2> QED BY <1>r, <2>1, <2>2, <2>5, <2>6
<1>7. CASE AbortPass
  BY <1>0, <1>7, <1>r, SpendType DEF AbortPass, podVars
<1>8. ASSUME NEW p \in Pods, CreatePod(p) \/ SchedulePod(p) \/ SyncVolume(p) \/ StartNode(p)
      PROVE  TypeInv'
  BY <1>8 DEF CreatePod, SchedulePod, SyncVolume, StartNode, passVars
<1>9. ASSUME NEW p \in Pods, Remove(p), budget' \in [FaultKinds -> Nat]
      PROVE  TypeInv'
  BY <1>9 DEF Remove, AfterRestart
<1>10. ASSUME NEW p \in Pods, NodeJoin(p) \/ PodReady(p) \/ NodeLeft(p)
       PROVE  TypeInv'
  BY <1>10 DEF NodeJoin, PodReady, NodeLeft, passVars
<1>11. ASSUME NEW p \in Pods, NodeCrash(p) PROVE TypeInv'
  BY <1>0, <1>11, SpendType DEF NodeCrash, AfterRestart, passVars
<1>12. ASSUME NEW d \in DCs, UpdateStatus(d) PROVE TypeInv'
  BY <1>12, ReadyIsNat DEF UpdateStatus, podVars, passVars
<1>13. ASSUME NEW new \in Specs, EditSpec(new) PROVE TypeInv'
  BY <1>0, <1>13, SpendType DEF EditSpec, podVars, passVars
<1>14. ASSUME NEW p \in Pods, DeletePod(p) PROVE TypeInv'
  BY <1>9, <1>14 DEF DeletePod
<1>15. ASSUME NEW p \in Pods, LosePod(p) PROVE TypeInv'
  BY <1>0, <1>9, <1>15, SpendType DEF LosePod
<1>16. CASE UNCHANGED vars
  BY <1>16 DEF vars, podVars, passVars
<1> QED
  BY <1>1, <1>2, <1>3, <1>4, <1>5, <1>6, <1>7, <1>8, <1>10, <1>11, <1>12, <1>13, <1>14,
     <1>15, <1>16 DEF Next, PassStep, PodStep

-----------------------------------------------------------------------------
(* What every step keeps.                                                  *)

LEMMA SizeTypes ==
    ASSUME TypeInv, NEW d \in DCs
    PROVE  /\ sts[d] \in Int /\ sts[d] >= -1 /\ sts[d] <= MaxReplicas
           /\ cc[d] \in Nat /\ spec[d] \in Nat /\ cc[d] <= MaxReplicas /\ spec[d] <= MaxReplicas
           /\ status[d] \in Nat
BY PodFacts DEF TypeInv, Specs

LEMMA NextSizeTypes ==
    ASSUME TypeInv', NEW d \in DCs
    PROVE  /\ sts'[d] \in Int /\ sts'[d] >= -1 /\ sts'[d] <= MaxReplicas
           /\ cc'[d] \in Nat /\ spec'[d] \in Nat
<1>1. /\ sts' \in [DCs -> -1..MaxReplicas] /\ cc' \in [DCs -> 0..MaxReplicas]
      /\ spec' \in [DCs -> 0..MaxReplicas]
  BY DEF TypeInv, Specs
<1> QED BY <1>1, PodFacts

LEMMA BudgetStep ==
    ASSUME TypeInv, BudgetInv, [Next]_vars
    PROVE  BudgetInv'
<1> USE DEF BudgetInv
<1>0. budget \in [FaultKinds -> Nat]
  BY DEF TypeInv
<1>1. ASSUME NEW k \in FaultKinds, Spend(k) PROVE BudgetInv'
  <2>1. \A j \in FaultKinds : budget[j] = 0 => budget'[j] = 0
    BY <1>0, <1>1 DEF Spend
  <2>2. "loseNew" \in FaultKinds /\ "lose" \in FaultKinds
    BY DEF FaultKinds
  <2> QED BY <2>1, <2>2
<1>2. CASE UNCHANGED budget
  BY <1>2
<1>3. UNCHANGED budget \/ \E k \in FaultKinds : Spend(k)
  <2>1. "abort" \in FaultKinds /\ "loseNew" \in FaultKinds /\ "lose" \in FaultKinds
        /\ "crash" \in FaultKinds /\ "edit" \in FaultKinds
    BY DEF FaultKinds
  <2>2. ASSUME PassStep PROVE UNCHANGED budget
    BY <2>2 DEF PassStep, Begin, WaitForAddresses, WritePodsConfig, ReconcileCassandra,
       ScaleUp, ScaleDown
  <2>3. ASSUME NEW p \in Pods, PodStep(p) PROVE UNCHANGED budget
    BY <2>3 DEF PodStep, CreatePod, DeletePod, SchedulePod, SyncVolume, StartNode,
       NodeJoin, PodReady, NodeLeft
  <2>4. ASSUME NEW d \in DCs, UpdateStatus(d) PROVE UNCHANGED budget
    BY <2>4 DEF UpdateStatus
  <2>5. ASSUME NEW p \in Pods, LosePod(p) PROVE \E k \in FaultKinds : Spend(k)
    BY <2>1, <2>5 DEF LosePod
  <2> QED BY <2>1, <2>2, <2>3, <2>4, <2>5 DEF Next, AbortPass, NodeCrash, EditSpec, vars
<1> QED BY <1>1, <1>2, <1>3

\* A pod is removed only when its node has started, and then it keeps its data.
LEMMA RemovedHasStarted ==
    ASSUME TypeInv, BudgetInv, GrowthInv, NewInv, NEW p \in Pods,
           DeletePod(p) \/ LosePod(p)
    PROVE  Started(p) /\ Persistence /\ Remove(p)
<1>0. budget \in [FaultKinds -> Nat] /\ "loseNew" \in FaultKinds /\ "lose" \in FaultKinds
  BY DEF TypeInv, FaultKinds
<1>1. CASE DeletePod(p)
  <2>1. sts[DCof(p)] \in Int /\ Ord(p) \in Int
    BY PodType, SizeTypes
  <2>2. phase[p] # "absent" /\ ~(Ord(p) < sts[DCof(p)]) /\ Remove(p)
    BY <1>1, <2>1 DEF DeletePod
  <2>3. Persistence
    BY <2>2 DEF GrowthInv
  <2>4. Started(p)
    BY <2>2 DEF NewInv
  <2> QED BY <2>2, <2>3, <2>4
<1>2. CASE LosePod(p)
  BY <1>0, <1>2 DEF LosePod, Spend, BudgetInv, Started
<1> QED BY <1>1, <1>2

\* What happens to a pod in a step: a first start that is over stays over, and before
\* it is the pod stays.
LEMMA PodStays ==
    ASSUME TypeInv, BudgetInv, GrowthInv, NewInv, [Next]_vars, NEW p \in Pods
    PROVE  /\ Started(p) => Started(p)'
           /\ ~Started(p) /\ phase[p] # "absent" => phase'[p] # "absent"
<1> USE DEF Started
<1>1. ASSUME UNCHANGED <<phase, mode>>
      PROVE  /\ Started(p) => Started(p)'
             /\ ~Started(p) /\ phase[p] # "absent" => phase'[p] # "absent"
  BY <1>1
<1>2. CASE PassStep \/ AbortPass
  <2>1. CASE \E d \in DCs : ScaleDown(d)
    <3>1. UNCHANGED phase
      BY <2>1 DEF ScaleDown
    <3>2. UNCHANGED mode \/ \E t \in Pods : mode' = [mode EXCEPT ![t] = "LEAVING"]
      <4>1. PICK d \in DCs : ScaleDown(d)
        BY <2>1
      <4>2. UNCHANGED mode \/ (<<d, sts[d] - 1>> \in Listed
                               /\ mode' = [mode EXCEPT ![<<d, sts[d] - 1>>] = "LEAVING"])
        BY <4>1 DEF ScaleDown
      <4> QED BY <4>2 DEF Listed
    <3> QED BY <3>1, <3>2 DEF TypeInv
  <2> QED BY <1>1, <1>2, <2>1 DEF PassStep, Begin, WaitForAddresses, WritePodsConfig,
       ReconcileCassandra, ScaleUp, AbortPass, podVars
<1>3. ASSUME NEW q \in Pods, DeletePod(q) \/ LosePod(q)
      PROVE  /\ Started(p) => Started(p)'
             /\ ~Started(p) /\ phase[p] # "absent" => phase'[p] # "absent"
  <2>1. Started(q) /\ Persistence /\ Remove(q)
    BY <1>3, RemovedHasStarted
  <2> QED BY <2>1 DEF Remove, AfterRestart, TypeInv
<1>4. ASSUME NEW q \in Pods,
             CreatePod(q) \/ SchedulePod(q) \/ SyncVolume(q) \/ StartNode(q) \/ NodeJoin(q) \/ PodReady(q)
             \/ NodeLeft(q) \/ NodeCrash(q)
      PROVE  /\ Started(p) => Started(p)'
             /\ ~Started(p) /\ phase[p] # "absent" => phase'[p] # "absent"
  BY <1>4 DEF CreatePod, SchedulePod, SyncVolume, StartNode, NodeJoin, PodReady, NodeLeft, NodeCrash,
     AfterRestart, TypeInv
<1>5. ASSUME (\E d \in DCs : UpdateStatus(d)) \/ (\E new \in Specs : EditSpec(new))
             \/ UNCHANGED vars
      PROVE  UNCHANGED <<phase, mode>>
  BY <1>5 DEF UpdateStatus, EditSpec, vars, podVars
<1> QED BY <1>1, <1>2, <1>3, <1>4, <1>5 DEF Next, PodStep

\* A pod appears when the statefulset controller creates it.
LEMMA PodAppears ==
    ASSUME TypeInv, [Next]_vars, NEW p \in Pods, phase[p] = "absent", phase'[p] # "absent"
    PROVE  CreatePod(p)
<1>0. phase \in [Pods -> Phases]
  BY DEF TypeInv
<1>1. ASSUME PassStep \/ AbortPass PROVE UNCHANGED phase
  BY <1>1 DEF PassStep, Begin, WaitForAddresses, WritePodsConfig, ReconcileCassandra, ScaleUp,
     ScaleDown, AbortPass, podVars
<1>2. ASSUME NEW q \in Pods, PodStep(q) \/ LosePod(q) \/ NodeCrash(q), q # p
      PROVE  phase'[p] = phase[p]
  BY <1>0, <1>2 DEF PodStep, CreatePod, DeletePod, Remove, SchedulePod, SyncVolume, StartNode,
     NodeJoin, PodReady, NodeLeft, LosePod, NodeCrash
<1>3. ASSUME PodStep(p) \/ LosePod(p) \/ NodeCrash(p) PROVE CreatePod(p)
  BY <1>0, <1>3 DEF PodStep, DeletePod, Remove, SchedulePod, SyncVolume, StartNode, NodeJoin,
     PodReady, NodeLeft, Answers, LosePod, NodeCrash
<1>4. ASSUME (\E d \in DCs : UpdateStatus(d)) \/ (\E new \in Specs : EditSpec(new))
             \/ UNCHANGED vars
      PROVE  UNCHANGED phase
  BY <1>4 DEF UpdateStatus, EditSpec, vars, podVars
<1> QED BY <1>1, <1>2, <1>3, <1>4 DEF Next

\* How a pass moves: the sizes it works with come from the spec, and are kept.
LEMMA SizesStep ==
    ASSUME TypeInv, [Next]_vars, NEW d \in DCs
    PROVE  \/ UNCHANGED <<spec, sts, cc, pc>>
           \/ Begin
           \/ UNCHANGED <<spec, sts, cc>> /\ pc # "idle" /\ pc' # "idle"
           \/ /\ UNCHANGED <<spec, cc>> /\ pc # "idle" /\ pc' # "idle"
              /\ sts'[d] = IF cc[d] > 0 /\ sts[d] = NoSts THEN cc[d] ELSE sts[d]
           \/ /\ UNCHANGED spec /\ pc # "idle" /\ pc' = "idle"
              /\ \/ sts'[d] = sts[d]
                 \/ sts[d] < cc[d] /\ sts'[d] = cc[d]
                 \/ sts[d] > cc[d] /\ sts'[d] = sts[d] - 1
           \/ UNCHANGED <<sts, cc, pc>> /\ <<spec, spec'>> \in Edits
<1>1. CASE WaitForAddresses \/ AbortPass
  BY <1>1 DEF WaitForAddresses, AbortPass, Return, TypeInv
<1>2. CASE WritePodsConfig
  BY <1>2 DEF WritePodsConfig
<1>3. CASE ReconcileCassandra
  BY <1>3 DEF ReconcileCassandra
<1>4. CASE ScaleUp
  <2>1. sts' = Grown
    BY <1>4 DEF ScaleUp
  <2>2. sts'[d] = sts[d] \/ (sts[d] < cc[d] /\ sts'[d] = cc[d])
    BY <2>1 DEF Grown
  <2> QED BY <1>4, <2>2 DEF ScaleUp, Return
<1>5. ASSUME NEW e \in DCs, ScaleDown(e)
      PROVE  /\ UNCHANGED spec /\ pc # "idle" /\ pc' = "idle"
             /\ \/ sts'[d] = sts[d]
                \/ sts[d] < cc[d] /\ sts'[d] = cc[d]
                \/ sts[d] > cc[d] /\ sts'[d] = sts[d] - 1
  <2>1. Grown[d] = sts[d] \/ (sts[d] < cc[d] /\ Grown[d] = cc[d])
    BY DEF Grown
  <2>2. sts[e] > cc[e]
    BY <1>5 DEF ScaleDown, Shrinking
  <2>3. sts[e] \in Int /\ cc[e] \in Int
    BY PodFacts DEF TypeInv, Specs
  <2>4. Grown[e] = sts[e]
    BY <2>2, <2>3 DEF Grown
  <2>5. sts' = Grown \/ sts' = [Grown EXCEPT ![e] = @ - 1]
    BY <1>5 DEF ScaleDown
  <2>6. sts'[d] = Grown[d] \/ (d = e /\ sts'[d] = Grown[d] - 1)
    BY <2>5 DEF Grown
  <2>7. UNCHANGED spec /\ pc # "idle" /\ pc' = "idle"
    BY <1>5 DEF ScaleDown, Return
  <2> QED BY <2>1, <2>2, <2>4, <2>6, <2>7
<1>6. ASSUME NEW p \in Pods, PodStep(p) \/ LosePod(p) \/ NodeCrash(p)
      PROVE  UNCHANGED <<spec, sts, cc, pc>>
  BY <1>6 DEF PodStep, LosePod, NodeCrash, CreatePod, DeletePod, Remove, SchedulePod,
     SyncVolume, StartNode, NodeJoin, PodReady, NodeLeft, passVars
<1>7. ASSUME (\E e \in DCs : UpdateStatus(e)) \/ UNCHANGED vars
      PROVE  UNCHANGED <<spec, sts, cc, pc>>
  BY <1>7 DEF UpdateStatus, vars, passVars
<1>8. ASSUME NEW new \in Specs, EditSpec(new)
      PROVE  UNCHANGED <<sts, cc, pc>> /\ <<spec, spec'>> \in Edits
  BY <1>8 DEF EditSpec, passVars
<1> QED BY <1>1, <1>2, <1>3, <1>4, <1>5, <1>6, <1>7, <1>8 DEF Next, PassStep

-----------------------------------------------------------------------------
(* Sizes.                                                                  *)

LEMMA GrowthStep ==
    ASSUME Orderly, IInv, TypeInv', [Next]_vars
    PROVE  GrowthInv'
<1> SUFFICES ASSUME ~Persistence PROVE GrowthInv'
  BY DEF GrowthInv
<1> USE DEF GrowthInv
<1>0. TypeInv /\ GrowthInv /\ BudgetInv /\ NewInv
  BY DEF IInv
<1>1. ASSUME NEW d \in DCs
      PROVE  /\ sts'[d] <= spec'[d] /\ (pc' # "idle" => sts'[d] <= cc'[d] /\ cc'[d] <= spec'[d])
             /\ sts[d] <= sts'[d]
  <2>1. sts[d] <= spec[d] /\ (pc # "idle" => sts[d] <= cc[d] /\ cc[d] <= spec[d])
    BY <1>0
  <2>2. sts[d] \in Int /\ cc[d] \in Nat /\ spec[d] \in Nat /\ sts'[d] \in Int /\ cc'[d] \in Nat
        /\ spec'[d] \in Nat /\ sts[d] >= -1
    BY <1>0, PodFacts DEF TypeInv, Specs
  <2>3. CASE Begin
    BY <2>1, <2>2, <2>3 DEF Begin
  <2>4. CASE UNCHANGED <<sts, cc, pc>> /\ <<spec, spec'>> \in Edits
    <3>1. spec[d] <= spec'[d]
      BY <2>4 DEF Orderly
    <3> QED BY <2>1, <2>2, <2>4, <3>1
  <2> QED BY <1>0, <2>1, <2>2, <2>3, <2>4, SizesStep DEF NoSts
<1>2. ASSUME NEW p \in Pods, phase'[p] # "absent"
      PROVE  Ord(p) < sts'[DCof(p)]
  <2>1. Ord(p) \in Int /\ sts[DCof(p)] \in Int /\ sts'[DCof(p)] \in Int /\ DCof(p) \in DCs
    <3>1. Ord(p) \in Int /\ DCof(p) \in DCs
      BY PodType
    <3>2. sts \in [DCs -> -1..MaxReplicas] /\ sts' \in [DCs -> -1..MaxReplicas]
      BY <1>0 DEF TypeInv
    <3> QED BY <3>1, <3>2
  <2>2. Ord(p) < sts[DCof(p)]
    <3>1. CASE phase[p] # "absent"
      BY <1>0, <3>1
    <3>2. CASE phase[p] = "absent"
      <4>1. CreatePod(p)
        BY <1>0, <1>2, <3>2, PodAppears
      <4> QED BY <4>1 DEF CreatePod
    <3> QED BY <3>1, <3>2
  <2> QED BY <1>1, <2>1, <2>2
<1> QED BY <1>1, <1>2

LEMMA SizeStep ==
    ASSUME IInv, TypeInv', [Next]_vars, KeepsScaleUps \/ UNCHANGED vars
    PROVE  SizeInv'
<1>0. TypeInv /\ GrowthInv /\ BudgetInv /\ NewInv /\ SizeInv
  BY DEF IInv
<1> SUFFICES ASSUME NEW p \in Pods, ~Started(p)'
             PROVE  /\ Ord(p) < sts'[DCof(p)] =>
                        /\ sts'[DCof(p)] <= spec'[DCof(p)]
                        /\ pc' # "idle" => sts'[DCof(p)] <= cc'[DCof(p)]
                    /\ pc' # "idle" /\ (Ord(p) < cc'[DCof(p)] \/ Ord(p) < sts'[DCof(p)]) =>
                        cc'[DCof(p)] <= spec'[DCof(p)]
  BY DEF SizeInv
<1> DEFINE d == DCof(p)
           i == Ord(p)
<1>1. d \in DCs /\ i \in Nat
  BY PodType
<1>2. ~Started(p)
  BY <1>0, PodStays
<1>3. /\ i < sts[d] => sts[d] <= spec[d] /\ (pc # "idle" => sts[d] <= cc[d])
      /\ pc # "idle" /\ (i < cc[d] \/ i < sts[d]) => cc[d] <= spec[d]
  BY <1>0, <1>2 DEF SizeInv
<1>4. sts[d] \in Int /\ cc[d] \in Nat /\ spec[d] \in Nat /\ sts[d] >= -1
  BY <1>0, <1>1, SizeTypes
<1>5. sts'[d] \in Int /\ cc'[d] \in Nat /\ spec'[d] \in Nat
  BY <1>1, NextSizeTypes
<1>6. spec'[d] < spec[d] => spec[d] <= i \/ UNCHANGED vars
  <2>1. CASE KeepsScaleUps
    BY <1>1, <1>2, <1>4, <2>1 DEF KeepsScaleUps, AllStarted
  <2> QED BY <2>1
<1>7. spec[d] <= spec'[d] \/ spec[d] <= i
  <2>1. UNCHANGED vars => spec'[d] = spec[d]
    BY DEF vars
  <2> QED BY <1>4, <1>5, <1>6, <2>1
<1> SUFFICES /\ i < sts'[d] => sts'[d] <= spec'[d] /\ (pc' # "idle" => sts'[d] <= cc'[d])
             /\ pc' # "idle" /\ (i < cc'[d] \/ i < sts'[d]) => cc'[d] <= spec'[d]
  OBVIOUS
<1> HIDE DEF d, i
<1>8. CASE Begin
  BY <1>1, <1>3, <1>4, <1>5, <1>8 DEF Begin
<1>9. CASE UNCHANGED <<sts, cc, pc>> /\ <<spec, spec'>> \in Edits
  BY <1>1, <1>3, <1>4, <1>5, <1>7, <1>9
<1> QED BY <1>0, <1>1, <1>3, <1>4, <1>5, <1>8, <1>9, SizesStep DEF NoSts

-----------------------------------------------------------------------------
(* Pods whose nodes have not started.                                      *)

\* How the life of a pod changes in a step, while its node has not started.
LEMMA NewPodStep ==
    ASSUME IInv, [Next]_vars, NEW p \in Pods, ~Started(p), ~Started(p)'
    PROVE  /\ \/ phase'[p] = phase[p]
              \/ phase[p] = "absent" /\ CreatePod(p)
              \/ phase[p] = "pending" /\ phase'[p] = "waiting" /\ UNCHANGED <<cm, mounted>>
              \/ /\ phase[p] = "waiting" /\ mounted[p] = "go" /\ phase'[p] = "starting"
                 /\ UNCHANGED <<cm, mounted>>
           /\ \/ mounted'[p] = mounted[p]
              \/ phase[p] = "waiting" /\ phase'[p] = "waiting" /\ mounted'[p] = cm[p]
           /\ cm'[p] = cm[p] \/ WritePodsConfig
<1> DEFINE A == \/ phase'[p] = phase[p]
                \/ phase[p] = "absent" /\ CreatePod(p)
                \/ phase[p] = "pending" /\ phase'[p] = "waiting" /\ UNCHANGED <<cm, mounted>>
                \/ /\ phase[p] = "waiting" /\ mounted[p] = "go" /\ phase'[p] = "starting"
                   /\ UNCHANGED <<cm, mounted>>
           B == \/ mounted'[p] = mounted[p]
                \/ phase[p] = "waiting" /\ phase'[p] = "waiting" /\ mounted'[p] = cm[p]
           C == cm'[p] = cm[p] \/ WritePodsConfig
<1> SUFFICES A /\ B /\ C
  OBVIOUS
<1>0. TypeInv /\ GrowthInv /\ BudgetInv /\ NewInv
  BY DEF IInv
<1>1. CASE PassStep \/ AbortPass
  BY <1>1 DEF PassStep, Begin, WaitForAddresses, WritePodsConfig, ReconcileCassandra, ScaleUp,
     ScaleDown, AbortPass, podVars
<1>2. ASSUME NEW q \in Pods, DeletePod(q) \/ LosePod(q) PROVE A /\ B /\ C
  <2>1. Started(q) /\ Persistence /\ Remove(q)
    BY <1>0, <1>2, RemovedHasStarted
  <2>2. p # q
    BY <2>1
  <2> QED BY <1>0, <2>1, <2>2 DEF Remove, TypeInv
<1>3. ASSUME NEW q \in Pods, CreatePod(q) PROVE A /\ B /\ C
  BY <1>0, <1>3 DEF CreatePod, TypeInv
<1>4. ASSUME NEW q \in Pods, SchedulePod(q) PROVE A /\ B /\ C
  BY <1>0, <1>4 DEF SchedulePod, TypeInv
<1>5. ASSUME NEW q \in Pods, SyncVolume(q) PROVE A /\ B /\ C
  BY <1>0, <1>5 DEF SyncVolume, TypeInv
<1>6. ASSUME NEW q \in Pods, StartNode(q) PROVE A /\ B /\ C
  BY <1>0, <1>6 DEF StartNode, TypeInv
<1>7. ASSUME NEW q \in Pods, NodeJoin(q) \/ PodReady(q) \/ NodeLeft(q) \/ NodeCrash(q) PROVE A /\ B /\ C
  <2>1. p # q
    BY <1>0, <1>7 DEF NodeJoin, PodReady, NodeLeft, NodeCrash, Started, NewInv, TypeInv
  <2> QED BY <1>0, <1>7, <2>1 DEF NodeJoin, PodReady, NodeLeft, NodeCrash, TypeInv
<1>8. CASE (\E d \in DCs : UpdateStatus(d)) \/ (\E new \in Specs : EditSpec(new))
           \/ UNCHANGED vars
  BY <1>8 DEF UpdateStatus, EditSpec, vars, podVars
<1> QED BY <1>1, <1>2, <1>3, <1>4, <1>5, <1>6, <1>7, <1>8 DEF Next, PodStep

\* A statefulset does not shrink below a pod whose node has not started.
LEMMA SizeKept ==
    ASSUME IInv, TypeInv', [Next]_vars, NEW p \in Pods, ~Started(p), Ord(p) < sts[DCof(p)]
    PROVE  sts[DCof(p)] <= sts'[DCof(p)]
<1> DEFINE d == DCof(p)
<1>1. TypeInv /\ SizeInv
  BY DEF IInv
<1>2. d \in DCs /\ Ord(p) \in Nat
  BY PodType
<1>3. pc # "idle" => sts[d] <= cc[d]
  BY <1>1 DEF SizeInv
<1>4. sts[d] \in Int /\ sts'[d] \in Int /\ cc[d] \in Nat /\ sts[d] >= -1
  BY <1>1, <1>2, SizeTypes, NextSizeTypes
<1> HIDE DEF d
<1>5. sts[d] <= sts'[d]
  <2>1. CASE UNCHANGED sts
    BY <1>4, <2>1
  <2>2. \/ UNCHANGED sts
        \/ sts'[d] = IF cc[d] > 0 /\ sts[d] = NoSts THEN cc[d] ELSE sts[d]
        \/ /\ pc # "idle"
           /\ \/ sts'[d] = sts[d]
              \/ sts[d] < cc[d] /\ sts'[d] = cc[d]
              \/ sts[d] > cc[d] /\ sts'[d] = sts[d] - 1
    <3>1. Begin => UNCHANGED sts
      BY DEF Begin
    <3> QED BY <1>1, <1>2, <3>1, SizesStep
  <2> QED BY <1>3, <1>4, <2>1, <2>2 DEF NoSts
<1> QED BY <1>5 DEF d

LEMMA NewStep ==
    ASSUME IInv, TypeInv', [Next]_vars
    PROVE  NewInv'
<1>0. TypeInv /\ GrowthInv /\ BudgetInv /\ NewInv /\ ListInv
  BY DEF IInv
<1> SUFFICES ASSUME NEW p \in Pods, ~Started(p)'
             PROVE  /\ phase'[p] \in {"absent", "pending", "waiting", "starting"}
                    /\ phase'[p] # "absent" => Ord(p) < sts'[DCof(p)]
                    /\ phase'[p] \in {"absent", "pending"} => mounted'[p] = "none"
                    /\ phase'[p] = "absent" => cm'[p] = "none"
  BY DEF NewInv
<1>1. ~Started(p)
  BY <1>0, PodStays
<1>2. /\ phase[p] \in {"absent", "pending", "waiting", "starting"}
      /\ phase[p] # "absent" => Ord(p) < sts[DCof(p)]
      /\ phase[p] \in {"absent", "pending"} => mounted[p] = "none"
      /\ phase[p] = "absent" => cm[p] = "none"
  BY <1>0, <1>1 DEF NewInv
<1>3. CreatePod(p) => phase'[p] = "pending" /\ mounted' = mounted /\ Ord(p) < sts[DCof(p)]
  BY <1>0 DEF CreatePod, TypeInv
<1>4. phase'[p] \in {"absent", "pending", "waiting", "starting"}
  BY <1>1, <1>2, <1>3, NewPodStep
<1>5. phase'[p] # "absent" => Ord(p) < sts'[DCof(p)]
  <2>1. phase'[p] # "absent" => Ord(p) < sts[DCof(p)]
    BY <1>1, <1>2, <1>3, NewPodStep
  <2>2. Ord(p) < sts[DCof(p)] => sts[DCof(p)] <= sts'[DCof(p)]
    BY <1>1, SizeKept
  <2>3. Ord(p) \in Int /\ sts[DCof(p)] \in Int /\ sts'[DCof(p)] \in Int
    BY <1>0, PodType, SizeTypes, NextSizeTypes
  <2> QED BY <2>1, <2>2, <2>3
<1>6. phase'[p] \in {"absent", "pending"} => mounted'[p] = "none"
  BY <1>1, <1>2, <1>3, NewPodStep
<1>7. phase'[p] = "absent" => cm'[p] = "none"
  <2>1. SUFFICES ASSUME phase'[p] = "absent" PROVE cm'[p] = "none"
    OBVIOUS
  <2>2. phase[p] = "absent"
    BY <1>1, <1>3, <2>1, NewPodStep
  <2>3. CASE cm'[p] = cm[p]
    BY <1>2, <2>2, <2>3
  <2>4. CASE WritePodsConfig
    <3>1. p \notin Listed
      BY <1>0, <1>1, <2>2, <2>4 DEF ListInv, Listed, WritePodsConfig
    <3> QED BY <2>4, <3>1 DEF WritePodsConfig
  <2> QED BY <1>1, <2>3, <2>4, NewPodStep
<1> QED BY <1>4, <1>5, <1>6, <1>7

\* A node starts in a pod that is there.
LEMMA FirstStartEnds ==
    ASSUME TypeInv, GrowthInv, BudgetInv, NewInv, [Next]_vars, NEW p \in Pods,
           ~Started(p), Started(p)'
    PROVE  phase[p] # "absent"
<1> USE DEF Started
<1>1. CASE \E d \in DCs : ScaleDown(d)
  <2>1. PICK d \in DCs : ScaleDown(d)
    BY <1>1
  <2>2. UNCHANGED mode \/ (/\ phase[<<d, sts[d] - 1>>] # "absent"
                           /\ mode' = [mode EXCEPT ![<<d, sts[d] - 1>>] = "LEAVING"])
    BY <2>1 DEF ScaleDown, Answers
  <2> QED BY <2>2 DEF TypeInv
<1>2. ASSUME NEW q \in Pods, DeletePod(q) \/ LosePod(q) PROVE phase[p] # "absent"
  <2>1. Started(q) /\ Persistence /\ Remove(q)
    BY <1>2, RemovedHasStarted
  <2> QED BY <2>1 DEF Remove, TypeInv
<1>3. ASSUME NEW q \in Pods, NodeJoin(q) \/ PodReady(q) \/ NodeLeft(q) \/ NodeCrash(q)
      PROVE  phase[p] # "absent"
  BY <1>3 DEF NodeJoin, PodReady, NodeLeft, NodeCrash, Answers, TypeInv
<1> QED BY <1>1, <1>2, <1>3 DEF Next, PassStep, Begin, WaitForAddresses, WritePodsConfig,
     ReconcileCassandra, ScaleUp, AbortPass, PodStep, CreatePod, SchedulePod, SyncVolume,
     StartNode, UpdateStatus, EditSpec, vars, podVars

LEMMA RankStep ==
    ASSUME IInv, TypeInv', [Next]_vars
    PROVE  RankInv'
<1>0. TypeInv /\ GrowthInv /\ BudgetInv /\ NewInv /\ RankInv
  BY DEF IInv
<1> SUFFICES ASSUME NEW p \in Pods, NEW q \in Pods, Lower(q, p), ~Started(q)'
             PROVE  /\ phase'[p] # "absent" => phase'[q] # "absent"
                    /\ Started(p)' => Ord(p) < sts'[DCof(p)] /\ phase'[q] # "absent"
  BY DEF RankInv, Lower
<1>1. ~Started(q) /\ (phase[q] # "absent" => phase'[q] # "absent")
  BY <1>0, PodStays
<1>2. /\ phase[p] # "absent" => phase[q] # "absent"
      /\ Started(p) => Ord(p) < sts[DCof(p)] /\ phase[q] # "absent"
  BY <1>0, <1>1 DEF RankInv
<1>3. CreatePod(p) => phase[q] # "absent"
  BY DEF CreatePod, Lower
<1>4. phase'[p] # "absent" => phase'[q] # "absent"
  BY <1>0, <1>1, <1>2, <1>3, PodAppears
<1>5. ASSUME Started(p)' PROVE Ord(p) < sts[DCof(p)] /\ phase[q] # "absent"
  <2>1. CASE Started(p)
    BY <1>2, <2>1
  <2>2. CASE ~Started(p)
    <3>1. phase[p] # "absent"
      BY <1>0, <1>5, <2>2, FirstStartEnds
    <3> QED BY <1>0, <1>2, <2>2, <3>1 DEF NewInv
  <2> QED BY <2>1, <2>2
<1>6. ASSUME Ord(p) < sts[DCof(p)] PROVE Ord(p) < sts'[DCof(p)]
  <2>1. Ord(p) \in Int /\ Ord(q) \in Int /\ sts[DCof(p)] \in Int /\ sts'[DCof(p)] \in Int
    BY <1>0, PodType, SizeTypes, NextSizeTypes
  <2>2. DCof(q) = DCof(p) /\ Ord(q) < Ord(p)
    BY DEF Lower
  <2>3. Ord(q) < sts[DCof(q)]
    BY <1>6, <2>1, <2>2
  <2>4. sts[DCof(q)] <= sts'[DCof(q)]
    BY <1>1, <2>3, SizeKept
  <2> QED BY <1>6, <2>1, <2>2, <2>4
<1> QED BY <1>1, <1>4, <1>5, <1>6

\* A pass works with what it read when it began.
LEMMA PassKeeps ==
    ASSUME [Next]_vars, pc' # "idle"
    PROVE  Begin \/ (pc # "idle" /\ UNCHANGED <<cc, list, listSeed>>)
BY DEF Next, PassStep, Begin, WaitForAddresses, WritePodsConfig, ReconcileCassandra, ScaleUp,
   ScaleDown, AbortPass, Return, PodStep, CreatePod, DeletePod, Remove, SchedulePod, SyncVolume,
   StartNode, NodeJoin, PodReady, NodeLeft, LosePod, NodeCrash, UpdateStatus, EditSpec, vars, passVars

LEMMA ListStep ==
    ASSUME IInv, TypeInv', [Next]_vars
    PROVE  ListInv'
<1>0. TypeInv /\ GrowthInv /\ BudgetInv /\ NewInv /\ RankInv /\ ListInv
  BY DEF IInv
<1> SUFFICES ASSUME pc' # "idle", NEW p \in Pods, list'[p] # "absent"
             PROVE  /\ ~Started(p)' => phase'[p] # "absent" /\ list'[p] # "ready"
                    /\ \A q \in Pods : Lower(q, p) => list'[q] # "absent" \/ Started(q)'
  BY DEF ListInv, Lower
<1>1. CASE Begin
  <2>1. list' = phase /\ mode' = mode /\ phase' = phase
    BY <1>1 DEF Begin, podVars
  <2> QED BY <1>0, <2>1 DEF NewInv, RankInv, Started
<1>2. CASE pc # "idle" /\ UNCHANGED list
  <2>1. ~Started(p) => phase[p] # "absent" /\ list[p] # "ready"
    BY <1>0, <1>2 DEF ListInv
  <2>2. \A q \in Pods : Lower(q, p) => list[q] # "absent" \/ Started(q)
    BY <1>0, <1>2 DEF ListInv
  <2>3. \A q \in Pods : Started(q) => Started(q)'
    BY <1>0, PodStays
  <2> QED BY <1>0, <1>2, <2>1, <2>2, <2>3, PodStays
<1> QED BY <1>1, <1>2, PassKeeps

\* The user does not shrink a DC with a pod whose node has not started.
LEMMA SpecKept ==
    ASSUME IInv, TypeInv', [Next]_vars, KeepsScaleUps \/ UNCHANGED vars,
           NEW p \in Pods, ~Started(p), phase[p] # "absent"
    PROVE  /\ spec[DCof(p)] <= spec'[DCof(p)]
           /\ dcNumberOfSeeds(spec[DCof(p)]) <= dcNumberOfSeeds(spec'[DCof(p)])
<1> DEFINE d == DCof(p)
<1>0. TypeInv /\ NewInv /\ SizeInv
  BY DEF IInv
<1>1. d \in DCs /\ Ord(p) \in Nat
  BY PodType
<1>2. sts[d] \in Int /\ spec[d] \in Nat /\ spec'[d] \in Nat
  BY <1>0, <1>1, SizeTypes, NextSizeTypes
<1>3. Ord(p) < spec[d]
  <2>1. Ord(p) < sts[d]
    BY <1>0 DEF NewInv
  <2>2. sts[d] <= spec[d]
    BY <1>0, <2>1 DEF SizeInv
  <2> QED BY <1>1, <1>2, <2>1, <2>2
<1>4. ~(spec'[d] < spec[d])
  <2>1. CASE KeepsScaleUps
    BY <1>1, <1>3, <2>1 DEF KeepsScaleUps, AllStarted
  <2>2. CASE UNCHANGED vars
    BY <1>2, <2>2 DEF vars
  <2> QED BY <2>1, <2>2
<1>5. spec[d] <= spec'[d]
  BY <1>2, <1>4
<1> QED BY <1>2, <1>5, SeedsGrow

LEMMA SeedStep ==
    ASSUME IInv, TypeInv', [Next]_vars, KeepsScaleUps \/ UNCHANGED vars
    PROVE  SeedInv'
<1>0. TypeInv /\ GrowthInv /\ BudgetInv /\ NewInv /\ SizeInv /\ SeedInv
  BY DEF IInv
<1> SUFFICES ASSUME NEW p \in Pods, ~Started(p)',
                    p \in seed' \/ (pc' # "idle" /\ p \in listSeed')
             PROVE  phase'[p] # "absent" /\ Ord(p) < dcNumberOfSeeds(spec'[DCof(p)])
  BY DEF SeedInv
<1> DEFINE d == DCof(p)
<1>1. ~Started(p) /\ (phase[p] # "absent" => phase'[p] # "absent")
  BY <1>0, PodStays
<1>2. d \in DCs /\ Ord(p) \in Nat
  BY PodType
<1>3. /\ sts[d] \in Int /\ cc[d] \in Nat /\ spec[d] \in Nat /\ spec'[d] \in Nat
  BY <1>0, <1>2, SizeTypes, NextSizeTypes
<1>4. phase[p] # "absent" /\ Ord(p) < dcNumberOfSeeds(spec[d])
  <2>1. CASE p \in seed \/ (pc # "idle" /\ p \in listSeed)
    BY <1>0, <1>1, <2>1 DEF SeedInv
  <2>2. CASE ReconcileCassandra /\ p \in seed'
    <3>1. phase[p] # "absent" /\ Ord(p) < dcNumberOfSeeds(cc[d]) /\ pc # "idle"
      BY <2>2 DEF ReconcileCassandra, SeedPods
    <3>2. Ord(p) < sts[d]
      BY <1>0, <1>1, <3>1 DEF NewInv
    <3>3. cc[d] <= spec[d]
      BY <1>0, <1>1, <3>1, <3>2 DEF SizeInv
    <3>4. /\ dcNumberOfSeeds(cc[d]) \in Nat /\ dcNumberOfSeeds(spec[d]) \in Nat
          /\ dcNumberOfSeeds(cc[d]) <= dcNumberOfSeeds(spec[d])
      BY <1>3, <3>3, SeedsGrow
    <3> QED BY <1>2, <3>1, <3>4
  <2>3. p \in seed' => p \in seed \/ ReconcileCassandra
    BY DEF Next, PassStep, Begin, WaitForAddresses, WritePodsConfig, ScaleUp, ScaleDown,
       AbortPass, PodStep, CreatePod, DeletePod, Remove, SchedulePod, SyncVolume, StartNode,
       NodeJoin, PodReady, NodeLeft, LosePod, NodeCrash, UpdateStatus, EditSpec, vars, podVars
  <2>4. pc' # "idle" /\ p \in listSeed' => p \in seed \/ (pc # "idle" /\ p \in listSeed)
    BY PassKeeps DEF Begin
  <2> QED BY <2>1, <2>2, <2>3, <2>4
<1>5. dcNumberOfSeeds(spec[d]) <= dcNumberOfSeeds(spec'[d])
  BY <1>1, <1>4, SpecKept
<1>6. dcNumberOfSeeds(spec[d]) \in Nat /\ dcNumberOfSeeds(spec'[d]) \in Nat
  BY <1>3, SeedsGrow
<1> QED BY <1>1, <1>2, <1>4, <1>5, <1>6

-----------------------------------------------------------------------------
(* Counting: what status.readyReplicas says about the nodes.               *)

Below(d, n) == {p \in Pods : DCof(p) = d /\ Ord(p) < n}

LEMMA CardBelow ==
    ASSUME NEW d \in DCs, NEW n \in Nat, n <= MaxReplicas
    PROVE  IsFiniteSet(Below(d, n)) /\ Cardinality(Below(d, n)) = n
<1> DEFINE f == [i \in 0..n - 1 |-> <<d, i>>]
<1>1. IsFiniteSet(0..n - 1) /\ Cardinality(0..n - 1) = n
  BY FS_Interval
<1>2. \A i \in 0..n - 1 : f[i] \in Below(d, n)
  BY PodFacts DEF Below
<1>3. \A i, j \in 0..n - 1 : f[i] = f[j] => i = j
  OBVIOUS
<1>4. \A p \in Below(d, n) : \E i \in 0..n - 1 : f[i] = p
  <2> SUFFICES ASSUME NEW p \in Below(d, n) PROVE \E i \in 0..n - 1 : f[i] = p
    OBVIOUS
  <2>1. Ord(p) \in 0..n - 1 /\ p = <<d, Ord(p)>>
    BY PodFacts DEF Below
  <2> QED BY <2>1
<1>5. f \in Bijection(0..n - 1, Below(d, n))
  <2>1. f \in [0..n - 1 -> Below(d, n)]
    BY <1>2
  <2> HIDE DEF f
  <2> QED BY <1>3, <1>4, <2>1 DEF Bijection, Injection, Surjection, IsInjective
<1> QED BY <1>1, <1>5, FS_Bijection DEF ExistsBijection

LEMMA StartedFinite ==
    ASSUME NEW d
    PROVE  IsFiniteSet(StartedIn(d)) /\ Cardinality(StartedIn(d)) \in Nat
BY PodsFinite, FS_Subset, FS_CardinalityType DEF StartedIn

LEMMA StatusStep ==
    ASSUME IInv, TypeInv', [Next]_vars
    PROVE  StatusInv'
<1>0. TypeInv /\ GrowthInv /\ BudgetInv /\ NewInv /\ StatusInv
  BY DEF IInv
<1> SUFFICES ASSUME NEW d \in DCs PROVE status'[d] <= Cardinality(StartedIn(d)')
  BY DEF StatusInv
<1> DEFINE R == StartedIn(d)
           S == {p \in Pods : DCof(p) = d /\ Started(p)'}
<1>1. StartedIn(d)' = S
  BY DEF StartedIn
<1>2. R \subseteq S
  BY <1>0, PodStays DEF StartedIn
<1>3. IsFiniteSet(S) /\ Cardinality(S) \in Nat
  BY PodsFinite, FS_Subset, FS_CardinalityType
<1>4. Cardinality(R) \in Nat /\ Cardinality(R) <= Cardinality(S)
  BY <1>2, <1>3, StartedFinite, FS_Subset
<1>5. status[d] <= Cardinality(R)
  BY <1>0 DEF StatusInv
<1>6. status'[d] = status[d] \/ UpdateStatus(d)
  BY <1>0 DEF Next, PassStep, Begin, WaitForAddresses, WritePodsConfig, ReconcileCassandra,
     ScaleUp, ScaleDown, AbortPass, PodStep, CreatePod, DeletePod, Remove, SchedulePod,
     SyncVolume, StartNode, NodeJoin, PodReady, NodeLeft, LosePod, NodeCrash, UpdateStatus, EditSpec,
     vars, TypeInv
<1>7. status[d] \in Nat
  BY <1>0, SizeTypes
<1>8. ASSUME UpdateStatus(d) PROVE status'[d] <= Cardinality(R) /\ status'[d] \in Nat
  <2>1. status'[d] = ReadyPods(d)
    BY <1>0, <1>8 DEF UpdateStatus, TypeInv
  <2>2. {p \in Pods : DCof(p) = d /\ phase[p] = "ready"} \subseteq R
    BY <1>0 DEF NewInv, StartedIn
  <2> QED BY <2>1, <2>2, StartedFinite, FS_Subset, ReadyIsNat DEF ReadyPods
<1> HIDE DEF R, S
<1> QED BY <1>1, <1>3, <1>4, <1>5, <1>6, <1>7, <1>8

\* A statefulset that reports as many ready pods as the pass wants of it: all these
\* pods have nodes that have started.
LEMMA FullDC ==
    ASSUME IInv, pc # "idle", NEW p \in Pods, status[DCof(p)] = cc[DCof(p)],
           Ord(p) < cc[DCof(p)]
    PROVE  Started(p)
<1> SUFFICES ASSUME ~Started(p) PROVE FALSE
  OBVIOUS
<1> DEFINE d == DCof(p)
           n == cc[d]
<1>0. TypeInv /\ SizeInv /\ RankInv /\ StatusInv
  BY DEF IInv
<1>1. d \in DCs /\ Ord(p) \in Nat
  BY PodType
<1>2. n \in Nat /\ n <= MaxReplicas /\ sts[d] \in Int
  BY <1>0, <1>1, SizeTypes
<1>3. IsFiniteSet(Below(d, n)) /\ Cardinality(Below(d, n)) = n
  BY <1>1, <1>2, CardBelow
<1>4. p \in Below(d, n)
  BY DEF Below
<1>5. StartedIn(d) \subseteq Below(d, n) \ {p}
  <2> SUFFICES ASSUME NEW q \in StartedIn(d) PROVE Ord(q) < n
    BY DEF StartedIn, Below
  <2>1. q \in Pods /\ DCof(q) = d /\ Started(q)
    BY DEF StartedIn
  <2>2. Ord(q) \in Nat
    BY <2>1, PodType
  <2>3. CASE Ord(p) < Ord(q)
    <3>1. Ord(q) < sts[d]
      BY <1>0, <2>1, <2>3 DEF RankInv, Lower
    <3>2. sts[d] <= n
      <4>1. Ord(p) < sts[d]
        BY <1>1, <1>2, <2>2, <2>3, <3>1
      <4> QED BY <1>0, <4>1 DEF SizeInv
    <3> QED BY <1>2, <2>2, <3>1, <3>2
  <2> QED BY <1>1, <1>2, <2>2, <2>3
<1>6. IsFiniteSet(Below(d, n) \ {p}) /\ Cardinality(Below(d, n) \ {p}) = n - 1
  BY <1>3, <1>4, FS_RemoveElement
<1>7. Cardinality(StartedIn(d)) <= n - 1
  BY <1>5, <1>6, FS_Subset
<1>8. n <= Cardinality(StartedIn(d)) /\ Cardinality(StartedIn(d)) \in Nat
  BY <1>0, <1>1, StartedFinite DEF StatusInv
<1> HIDE DEF n, d
<1> QED BY <1>2, <1>7, <1>8

-----------------------------------------------------------------------------
(* The order in which pods are released.                                   *)

LEMMA HasLeast ==
    ASSUME NEW S \in SUBSET Nat, S # {}
    PROVE  \E x \in S : \A y \in S : x <= y
<1> DEFINE R == OpToRel(<, Nat)
<1>1. IsWellFoundedOn(R, Nat)
  BY NatLessThanWellFounded
<1>2. \A x, y \in Nat : <<y, x>> \notin R => x <= y
  BY DEF OpToRel
<1> HIDE DEF R
<1>3. PICK x \in S : \A y \in S : <<y, x>> \notin R
  BY <1>1, WFMin
<1> QED BY <1>2, <1>3

\* getNextLocalDCToInit: all DCs before the one that may start are ready, and all
\* of them are if there is none.
LEMMA NextDC ==
    ASSUME ~HostPort, NEW d \in DesiredDCs(cc),
           NextDCToInit = None \/ d < NextDCToInit
    PROVE  ~Unready(d)
<1> SUFFICES ASSUME Unready(d) PROVE FALSE
  OBVIOUS
<1> DEFINE U == {e \in DesiredDCs(cc) : Unready(e)}
<1>1. U \in SUBSET Nat /\ U # {} /\ d \in U
  BY PodsInitAssumption DEF DesiredDCs
<1>2. \E x \in U : \A y \in U : x <= y
  BY <1>1, HasLeast
<1>3. NextDCToInit = CHOOSE x \in U : \A y \in U : x <= y
  BY <1>1 DEF NextDCToInit
<1>4. NextDCToInit \in U /\ NextDCToInit <= d
  <2> HIDE DEF U
  <2> QED BY <1>1, <1>2, <1>3
<1> HIDE DEF U
<1> QED BY <1>1, <1>4 DEF None

\* What the pass releases: only pods of one DC, the first that is not ready; a pod
\* that is no seed only after all pods whose names come before its own.
LEMMA Release ==
    ASSUME Orderly, IInv, WritePodsConfig, NEW p \in Pods, ~Started(p), cm'[p] = "go"
    PROVE  /\ phase[p] # "absent" /\ Ord(p) < cc[DCof(p)] /\ NextDCToInit = DCof(p)
           /\ p \in listSeed
              \/ \A q \in Pods : Lower(q, p) => Started(q) \/ SortedBefore(p, q)
<1> DEFINE d == DCof(p)
           dc == NextDCToInit
<1>0. TypeInv /\ NewInv /\ SizeInv /\ ListInv /\ pc = "config"
  BY DEF IInv, WritePodsConfig
<1>1. list[p] # "absent" /\ ~pausePodInit(p, dc)
  BY DEF WritePodsConfig, Listed
<1>2. phase[p] # "absent" /\ list[p] # "ready"
  BY <1>0, <1>1 DEF ListInv
<1>3. d \in DCs /\ Ord(p) \in Nat
  BY PodType
<1>4. Ord(p) < cc[d] /\ cc[d] > 0
  <2>1. Ord(p) < sts[d]
    BY <1>0, <1>2 DEF NewInv
  <2>2. sts[d] <= cc[d]
    BY <1>0, <2>1 DEF SizeInv
  <2>3. sts[d] \in Int /\ cc[d] \in Nat
    BY <1>0, <1>3, SizeTypes
  <2> QED BY <1>3, <2>1, <2>2, <2>3
<1>5. dc # None
  <2> SUFFICES ASSUME dc = None PROVE FALSE
    OBVIOUS
  <2>1. ~Unready(d)
    BY <1>3, <1>4, NextDC DEF DesiredDCs, Orderly
  <2> QED BY <1>0, <1>4, <2>1, FullDC DEF Unready
<1>6. d = dc /\ (p \in listSeed \/ (SeedsReady(dc) /\ IsNextNonSeed(p, dc)))
  BY <1>1, <1>2, <1>5 DEF pausePodInit
<1>7. ASSUME p \notin listSeed, NEW q \in Pods, Lower(q, p), ~Started(q)
      PROVE  SortedBefore(p, q)
  <2>1. list[q] # "absent"
    BY <1>0, <1>1, <1>7 DEF ListInv
  <2>2. list[q] # "ready"
    BY <1>0, <1>7, <2>1 DEF ListInv
  <2>3. DCof(q) = dc /\ q \in Listed /\ q # p /\ Ord(q) < Ord(p) /\ Ord(q) \in Nat
    BY <1>3, <1>6, <1>7, <2>1, PodType DEF Lower, Listed
  <2>4. q \notin listSeed
    BY <1>6, <1>7, <2>2, <2>3 DEF SeedsReady, WritePodsConfig
  <2> QED BY <1>6, <1>7, <2>2, <2>3, <2>4 DEF IsNextNonSeed
<1> QED BY <1>2, <1>4, <1>6, <1>7

\* A pod is released by the pods config map.
LEMMA ReleasedBy ==
    ASSUME IInv, [Next]_vars, NEW p \in Pods, Released(p)', ~Released(p)
    PROVE  ~Started(p) /\ WritePodsConfig /\ cm'[p] = "go"
<1>0. TypeInv /\ GrowthInv /\ BudgetInv /\ NewInv
  BY DEF IInv
<1>1. ~Started(p)' /\ (phase'[p] = "starting" \/ cm'[p] = "go" \/ mounted'[p] = "go")
  BY DEF Released
<1>2. ~Started(p)
  BY <1>0, <1>1, PodStays
<1>3. phase[p] # "starting" /\ cm[p] # "go" /\ mounted[p] # "go"
  BY <1>2 DEF Released
<1>4. CreatePod(p) => phase'[p] = "pending"
  BY <1>0 DEF CreatePod, TypeInv
<1>5. phase'[p] # "starting" /\ mounted'[p] # "go"
  BY <1>1, <1>2, <1>3, <1>4, NewPodStep
<1> QED BY <1>1, <1>2, <1>3, <1>5, NewPodStep

LEMMA ReleasedIsThere ==
    ASSUME NewInv, NEW p \in Pods, Released(p)
    PROVE  ~Started(p) /\ phase[p] # "absent"
BY DEF NewInv, Released

LEMMA OrderStep ==
    ASSUME Orderly, SortedNames, IInv, OrderInv, TypeInv', [Next]_vars,
           KeepsScaleUps \/ UNCHANGED vars
    PROVE  OrderInv'
<1>0. TypeInv /\ GrowthInv /\ BudgetInv /\ NewInv /\ SeedInv
  BY DEF IInv
<1> SUFFICES ASSUME NEW p \in Pods, NEW q \in Pods, Released(p)', Lower(q, p),
                    Ord(p) >= dcNumberOfSeeds(spec'[DCof(p)])
             PROVE  Started(q)'
  BY DEF OrderInv, Lower
<1> DEFINE d == DCof(p)
<1>1. Started(q) => Started(q)'
  BY <1>0, PodStays
<1>2. d \in DCs /\ Ord(p) \in Nat /\ spec[d] \in Nat /\ spec'[d] \in Nat
  BY <1>0, PodType, SizeTypes, NextSizeTypes
<1>3. dcNumberOfSeeds(spec[d]) \in Nat /\ dcNumberOfSeeds(spec'[d]) \in Nat
  BY <1>2, SeedsGrow
<1>4. CASE Released(p)
  <2>1. ~Started(p) /\ phase[p] # "absent"
    BY <1>0, <1>4, ReleasedIsThere
  <2>2. dcNumberOfSeeds(spec[d]) <= dcNumberOfSeeds(spec'[d])
    BY <2>1, SpecKept
  <2>3. Ord(p) >= dcNumberOfSeeds(spec[d])
    BY <1>2, <1>3, <2>2
  <2> QED BY <1>1, <1>4, <2>3 DEF OrderInv
<1>5. CASE ~Released(p)
  <2>1. ~Started(p) /\ WritePodsConfig /\ cm'[p] = "go"
    BY <1>5, ReleasedBy
  <2>2. p \in listSeed \/ Started(q)
    <3>1. SortedBefore(p, q) => Ord(p) < Ord(q)
      BY NamesSortByOrdinal
    <3>2. ~SortedBefore(p, q)
      <4>1. Ord(q) < Ord(p) /\ Ord(q) \in Nat
        BY PodType DEF Lower
      <4> QED BY <1>2, <3>1, <4>1
    <3> QED BY <2>1, <3>2, Release
  <2>3. spec' = spec /\ pc # "idle"
    BY <2>1 DEF WritePodsConfig
  <2>4. p \notin listSeed
    <3>1. p \in listSeed => Ord(p) < dcNumberOfSeeds(spec[d])
      BY <1>0, <2>1, <2>3 DEF SeedInv
    <3> QED BY <1>2, <1>3, <2>3, <3>1
  <2> QED BY <1>1, <2>2, <2>4
<1> QED BY <1>4, <1>5

LEMMA SeedOrderStep ==
    ASSUME Orderly, SortedNames \/ NumSeeds <= 2, IInv, SeedOrderInv, TypeInv', [Next]_vars,
           KeepsScaleUps \/ UNCHANGED vars
    PROVE  SeedOrderInv'
<1>0. TypeInv /\ GrowthInv /\ BudgetInv /\ NewInv /\ SizeInv /\ SeedInv
  BY DEF IInv
<1> SUFFICES ASSUME NEW p \in Pods, NEW q \in Pods, Released(p)', DCof(q) = DCof(p),
                    Ord(p) >= dcNumberOfSeeds(spec'[DCof(p)]),
                    Ord(q) < dcNumberOfSeeds(spec'[DCof(p)])
             PROVE  Started(q)'
  BY DEF SeedOrderInv
<1> DEFINE d == DCof(p)
<1>1. Started(q) => Started(q)'
  BY <1>0, PodStays
<1>2. /\ d \in DCs /\ Ord(p) \in Nat /\ Ord(q) \in Nat /\ sts[d] \in Int
      /\ spec[d] \in Nat /\ spec'[d] \in Nat
  BY <1>0, PodType, SizeTypes, NextSizeTypes
<1>3. /\ dcNumberOfSeeds(spec[d]) \in Nat /\ dcNumberOfSeeds(spec'[d]) \in Nat
      /\ dcNumberOfSeeds(spec'[d]) <= NumSeeds /\ NumSeeds \in Nat
  BY <1>2, SeedsGrow, PodsInitAssumption
<1>4. CASE Released(p)
  <2>1. ~Started(p) /\ phase[p] # "absent"
    BY <1>0, <1>4, ReleasedIsThere
  <2>2. spec[d] <= spec'[d]
    BY <2>1, SpecKept
  <2>3. Ord(p) < sts[d]
    BY <1>0, <2>1 DEF NewInv
  <2>4. sts[d] <= spec[d]
    BY <1>0, <2>1, <2>3 DEF SizeInv
  <2>5. Ord(p) < spec[d]
    BY <1>2, <2>3, <2>4
  <2>6. dcNumberOfSeeds(spec[d]) = dcNumberOfSeeds(spec'[d])
    BY <1>2, <2>2, <2>5, SeedsSettled
  <2> QED BY <1>1, <1>4, <2>6 DEF SeedOrderInv
<1>5. CASE ~Released(p)
  <2>1. ~Started(p) /\ WritePodsConfig /\ cm'[p] = "go"
    BY <1>5, ReleasedBy
  <2>2. spec' = spec /\ pc # "idle"
    BY <2>1 DEF WritePodsConfig
  <2>3. p \notin listSeed
    <3>1. p \in listSeed => Ord(p) < dcNumberOfSeeds(spec[d])
      BY <1>0, <2>1, <2>2 DEF SeedInv
    <3> QED BY <1>2, <1>3, <2>2, <3>1
  <2>4. Ord(q) < Ord(p) /\ Lower(q, p)
    BY <1>2, <1>3 DEF Lower
  <2>5. ~SortedBefore(p, q)
    <3>1. CASE SortedNames
      BY <1>2, <2>4, <3>1, NamesSortByOrdinal
    <3>2. CASE NumSeeds <= 2
      <4>1. Ord(q) < 2
        BY <1>2, <1>3, <3>2
      <4> QED BY <2>4, <4>1, FirstNames
    <3> QED BY <3>1, <3>2
  <2> QED BY <1>1, <2>1, <2>3, <2>4, <2>5, Release
<1> QED BY <1>4, <1>5

LEMMA DCsStep ==
    ASSUME Orderly, IInv, DCsInv, TypeInv', [Next]_vars,
           (KeepsScaleUps /\ GrowsInOrder) \/ UNCHANGED vars
    PROVE  DCsInv'
<1>0. TypeInv /\ GrowthInv /\ BudgetInv /\ NewInv /\ SizeInv
  BY DEF IInv
<1>s. \A d \in DCs : /\ spec[d] \in Nat /\ spec'[d] \in Nat /\ cc[d] \in Nat /\ cc'[d] \in Nat
                     /\ sts[d] \in Int /\ sts'[d] \in Int /\ d \in Int
  BY <1>0, SizeTypes, NextSizeTypes, PodFacts
<1>j. \A p \in Pods : Started(p) => Started(p)'
  BY <1>0, PodStays
\* What the user may enlarge while p has not started: no DC before it.
<1>g. ASSUME NEW p \in Pods, ~Started(p), Ord(p) < spec[DCof(p)],
             NEW d \in DCs, d < DCof(p)
      PROVE  spec'[d] <= spec[d]
  <2>1. DCof(p) \in DCs
    BY PodType
  <2>2. CASE GrowsInOrder
    <3>1. ~(spec'[d] > spec[d])
      BY <1>g, <2>1, <2>2 DEF GrowsInOrder, AllStarted
    <3> QED BY <1>s, <3>1
  <2>3. CASE UNCHANGED vars
    BY <1>s, <2>3 DEF vars
  <2> QED BY <2>2, <2>3
<1>1. ASSUME NEW p \in Pods, NEW q \in Pods, Released(p)', DCof(q) < DCof(p),
             Ord(q) < spec'[DCof(q)]
      PROVE  Started(q)'
  <2>0. DCof(p) \in DCs /\ DCof(q) \in DCs /\ Ord(p) \in Nat /\ Ord(q) \in Nat
    BY PodType
  <2>1. CASE Released(p)
    <3>1. ~Started(p) /\ phase[p] # "absent"
      BY <1>0, <2>1, ReleasedIsThere
    <3>2. Ord(p) < sts[DCof(p)]
      BY <1>0, <3>1 DEF NewInv
    <3>3. sts[DCof(p)] <= spec[DCof(p)]
      BY <1>0, <3>1, <3>2 DEF SizeInv
    <3>4. Ord(p) < spec[DCof(p)]
      BY <1>s, <2>0, <3>2, <3>3
    <3>5. spec'[DCof(q)] <= spec[DCof(q)]
      BY <1>1, <1>g, <2>0, <3>1, <3>4
    <3>6. Ord(q) < spec[DCof(q)]
      BY <1>1, <1>s, <2>0, <3>5
    <3> QED BY <1>1, <1>j, <2>1, <3>6 DEF DCsInv
  <2>2. CASE ~Released(p)
    <3>1. ~Started(p) /\ WritePodsConfig /\ cm'[p] = "go"
      BY <1>1, <2>2, ReleasedBy
    <3>2. spec' = spec /\ pc # "idle"
      BY <3>1 DEF WritePodsConfig
    <3>3. Ord(p) < cc[DCof(p)] /\ NextDCToInit = DCof(p)
      BY <3>1, Release
    <3>4. cc[DCof(q)] >= spec[DCof(q)]
      <4>1. ~(cc[DCof(q)] < spec[DCof(q)])
        BY <1>1, <2>0, <3>1, <3>2, <3>3 DEF DCsInv
      <4> QED BY <1>s, <2>0, <4>1
    <3>5. Ord(q) < cc[DCof(q)] /\ cc[DCof(q)] > 0
      BY <1>1, <1>s, <2>0, <3>2, <3>4
    <3>6. ~Unready(DCof(q))
      BY <1>1, <2>0, <3>3, <3>5, NextDC DEF DesiredDCs, Orderly
    <3>7. Started(q)
      BY <3>2, <3>5, <3>6, FullDC DEF Unready
    <3> QED BY <1>j, <3>7
  <2> QED BY <2>1, <2>2
<1>2. ASSUME NEW d \in DCs, NEW p \in Pods, pc' # "idle", d < DCof(p), cc'[d] < spec'[d],
             Ord(p) < cc'[DCof(p)], ~Started(p)'
      PROVE  FALSE
  <2>0. DCof(p) \in DCs /\ Ord(p) \in Nat /\ ~Started(p)
    BY <1>2, <1>j, PodType
  <2>1. CASE Begin
    BY <1>2, <1>s, <2>1 DEF Begin
  <2>2. CASE pc # "idle" /\ UNCHANGED cc
    <3>1. Ord(p) < cc[DCof(p)]
      BY <1>2, <2>2
    <3>2. cc[DCof(p)] <= spec[DCof(p)]
      BY <1>0, <2>0, <2>2, <3>1 DEF SizeInv
    <3>3. Ord(p) < spec[DCof(p)]
      BY <1>s, <2>0, <3>1, <3>2
    <3>4. spec'[d] <= spec[d]
      BY <1>2, <1>g, <2>0, <3>3
    <3>5. cc[d] < spec[d]
      BY <1>2, <1>s, <2>2, <3>4
    <3> QED BY <1>2, <2>0, <2>2, <3>1, <3>5 DEF DCsInv
  <2> QED BY <1>2, <2>1, <2>2, PassKeeps
<1> QED BY <1>1, <1>2 DEF DCsInv

-----------------------------------------------------------------------------
(* The theorems.                                                           *)

LEMMA InitInv ==
    ASSUME Orderly, Init
    PROVE  IInv /\ OrderInv /\ SeedOrderInv /\ DCsInv
<1>0. TypeInv /\ pc = "idle"
  BY InitType DEF Init
<1>1. PICK s \in Scenarios : InitPods(s)
  BY DEF Init
<1>2. /\ s.spec \in [DCs -> 0..MaxReplicas] /\ s.budget \in [FaultKinds -> Nat]
      /\ s.deployed \in BOOLEAN
  <2>1. s \in [spec : Specs, deployed : BOOLEAN, budget : [FaultKinds -> Nat]]
    BY PodsInitAssumption
  <2> QED BY <2>1 DEF Specs
<1> DEFINE running == IF s.deployed THEN SpecPods(s.spec) ELSE {}
<1>3. /\ spec = s.spec /\ budget = s.budget
      /\ sts = [d \in DCs |-> IF s.deployed /\ s.spec[d] > 0 THEN s.spec[d] ELSE NoSts]
      /\ status = [d \in DCs |-> IF s.deployed THEN s.spec[d] ELSE 0]
      /\ phase = [p \in Pods |-> IF p \in running THEN "ready" ELSE "absent"]
      /\ mode = [p \in Pods |-> IF p \in running THEN "NORMAL" ELSE "NEW"]
      /\ seed = running \cap SeedPods(s.spec)
      /\ cm = [p \in Pods |-> IF p \in running THEN "go" ELSE "none"]
      /\ mounted = cm
  BY <1>1 DEF InitPods
<1>4. /\ s.budget["loseNew"] = 0
      /\ Persistence \/ s.budget["lose"] = 0
  BY DEF Orderly
<1>5. BudgetInv
  BY <1>3, <1>4 DEF BudgetInv
<1>6. \A p \in Pods : Started(p) <=> p \in running
  BY <1>3 DEF Started
<1>7. \A p \in Pods : p \notin running =>
          phase[p] = "absent" /\ cm[p] = "none" /\ mounted[p] = "none" /\ p \notin seed
  BY <1>3
<1>8. \A d \in DCs : /\ sts[d] \in Int /\ spec[d] \in Nat /\ spec[d] <= MaxReplicas
                     /\ sts[d] = (IF s.deployed /\ spec[d] > 0 THEN spec[d] ELSE -1)
  BY <1>2, <1>3, PodFacts DEF NoSts
<1>9. \A p \in Pods : p \in running <=> Ord(p) < sts[DCof(p)]
  <2> SUFFICES ASSUME NEW p \in Pods PROVE p \in running <=> Ord(p) < sts[DCof(p)]
    OBVIOUS
  <2>1. DCof(p) \in DCs /\ Ord(p) \in Nat
    BY PodType
  <2>2. p \in running <=> s.deployed /\ Ord(p) < spec[DCof(p)]
    BY <1>3 DEF SpecPods
  <2> HIDE DEF running
  <2> QED BY <1>8, <2>1, <2>2
<1> HIDE DEF running
<1>10. SizeInv
  BY <1>0, <1>6, <1>9 DEF SizeInv
<1>11. NewInv
  BY <1>6, <1>7 DEF NewInv
<1>12. RankInv
  <2> SUFFICES ASSUME NEW p \in Pods, NEW q \in Pods, Lower(q, p), ~Started(q)
               PROVE  p \notin running
    BY <1>6, <1>7 DEF RankInv
  <2>1. q \notin running
    BY <1>6
  <2>2. Ord(p) \in Nat /\ Ord(q) \in Nat /\ sts[DCof(p)] \in Int /\ DCof(p) \in DCs
    BY <1>8, PodType
  <2>3. DCof(q) = DCof(p) /\ Ord(q) < Ord(p)
    BY DEF Lower
  <2>4. ~(Ord(q) < sts[DCof(p)])
    BY <1>9, <2>1, <2>3
  <2>5. ~(Ord(p) < sts[DCof(p)])
    BY <2>2, <2>3, <2>4
  <2> QED BY <1>9, <2>5
<1>13. ListInv /\ OrderInv /\ SeedOrderInv /\ DCsInv
  <2>1. \A p \in Pods : ~Released(p)
    BY <1>6, <1>7 DEF Released
  <2> QED BY <1>0, <2>1 DEF ListInv, OrderInv, SeedOrderInv, DCsInv
<1>14. SeedInv
  BY <1>0, <1>6, <1>7 DEF SeedInv
<1>15. GrowthInv
  <2>1. \A d \in DCs : sts[d] <= spec[d]
    BY <1>8
  <2>2. \A p \in Pods : phase[p] # "absent" => Ord(p) < sts[DCof(p)]
    BY <1>7, <1>9
  <2> QED BY <1>0, <2>1, <2>2 DEF GrowthInv
<1>16. StatusInv
  <2> SUFFICES ASSUME NEW d \in DCs PROVE status[d] <= Cardinality(StartedIn(d))
    BY DEF StatusInv
  <2>1. Cardinality(StartedIn(d)) \in Nat
    BY StartedFinite
  <2>2. CASE ~s.deployed
    BY <1>3, <2>1, <2>2
  <2>3. CASE s.deployed
    <3>1. StartedIn(d) = Below(d, spec[d])
      BY <1>3, <1>6, <2>3 DEF StartedIn, Below, SpecPods, running
    <3>2. Cardinality(Below(d, spec[d])) = spec[d]
      BY <1>8, CardBelow
    <3>3. status[d] = spec[d] /\ spec[d] \in Nat
      BY <1>3, <1>8, <2>3
    <3> QED BY <3>1, <3>2, <3>3
  <2> QED BY <2>2, <2>3
<1> QED BY <1>0, <1>5, <1>10, <1>11, <1>12, <1>13, <1>14, <1>15, <1>16 DEF IInv

LEMMA InvStep ==
    ASSUME Orderly, IInv, [Next]_vars, [KeepsScaleUps]_vars
    PROVE  IInv'
<1>1. TypeInv' /\ BudgetInv'
  BY TypeStep, BudgetStep DEF IInv
<1>2. KeepsScaleUps \/ UNCHANGED vars
  OBVIOUS
<1> QED BY <1>1, <1>2, GrowthStep, SizeStep, NewStep, RankStep, ListStep, SeedStep, StatusStep
     DEF IInv

\* The inductive invariant of the ordered start, for users who take no scale up back.
THEOREM PodsInitInvariant ==
    ASSUME Orderly
    PROVE  Spec /\ [][KeepsScaleUps]_vars => []IInv
<1>1. Init => IInv
  BY InitInv
<1>2. IInv /\ [Next]_vars /\ [KeepsScaleUps]_vars => IInv'
  BY InvStep
<1> QED BY <1>1, <1>2, PTL DEF Spec

LEMMA FirstStartIsReleased ==
    ASSUME NEW p \in FirstStarts
    PROVE  p \in Pods /\ Released(p)
BY DEF FirstStarts, Released, Started

LEMMA InvImpliesOneStart == IInv /\ OrderInv => OneStartPerDC
<1> SUFFICES ASSUME IInv, OrderInv, NEW p \in FirstStarts, NEW q \in FirstStarts, p # q, DCof(p) = DCof(q)
             PROVE  MayBeSeed(p)
  BY DEF OneStartPerDC
<1>0. TypeInv
  BY DEF IInv
<1>1. p \in Pods /\ q \in Pods /\ Released(p) /\ Released(q) /\ ~Started(p) /\ ~Started(q)
  BY FirstStartIsReleased DEF Released
<1>2. Ord(p) \in Nat /\ Ord(q) \in Nat /\ DCof(p) \in DCs
  BY <1>1, PodType
<1>3. Ord(p) # Ord(q)
  BY <1>1, PodFacts
<1>4. spec[DCof(p)] \in Nat
  BY <1>0, <1>2, SizeTypes
<1>5. /\ dcNumberOfSeeds(spec[DCof(p)]) \in Nat /\ dcNumberOfSeeds(spec[DCof(p)]) <= NumSeeds
      /\ NumSeeds \in Nat
  BY <1>4, SeedsGrow, PodsInitAssumption
<1>6. CASE Ord(q) < Ord(p)
  <2>1. ~(Ord(p) >= dcNumberOfSeeds(spec[DCof(p)]))
    BY <1>1, <1>6 DEF OrderInv, Lower
  <2> QED BY <1>2, <1>5, <2>1 DEF MayBeSeed
<1>7. CASE Ord(p) < Ord(q)
  <2>1. ~(Ord(q) >= dcNumberOfSeeds(spec[DCof(p)]))
    BY <1>1, <1>7 DEF OrderInv, Lower
  <2> QED BY <1>2, <1>5, <1>7, <2>1 DEF MayBeSeed
<1> QED BY <1>2, <1>3, <1>6, <1>7

LEMMA InvImpliesSeedsFirst == SeedOrderInv => SeedsFirst
<1> SUFFICES ASSUME SeedOrderInv, NEW p \in FirstStarts, NEW q \in SeedPods(spec),
                    Ord(p) >= dcNumberOfSeeds(spec[DCof(p)]), DCof(q) = DCof(p)
             PROVE  Started(q)
  BY DEF SeedsFirst, Started
<1>1. p \in Pods /\ Released(p) /\ q \in Pods /\ Ord(q) < dcNumberOfSeeds(spec[DCof(p)])
  BY FirstStartIsReleased DEF SeedPods
<1> QED BY <1>1 DEF SeedOrderInv

\* Apart from seeds, nodes of a DC start for the first time one after the other, whatever
\* the DCs, replicas and seeds: pausePodInit works on a list of pods and a count of
\* ready ones that both may be out of date.
THEOREM OneStartPerDCHolds ==
    ASSUME Orderly, SortedNames
    PROVE  Spec /\ [][KeepsScaleUps]_vars => []OneStartPerDC
<1>1. Init => IInv /\ OrderInv
  BY InitInv
<1>2. IInv /\ OrderInv /\ [Next]_vars /\ [KeepsScaleUps]_vars => (IInv /\ OrderInv)'
  <2> SUFFICES ASSUME IInv, OrderInv, [Next]_vars, [KeepsScaleUps]_vars
               PROVE  IInv' /\ OrderInv'
    OBVIOUS
  <2>1. IInv' /\ TypeInv'
    BY InvStep DEF IInv
  <2> QED BY <2>1, OrderStep
<1> QED BY <1>1, <1>2, InvImpliesOneStart, PTL DEF Spec

\* A node that is no seed starts after all seeds of its DC were ready.  The labels are
\* set after the first entries are written; that does no harm if names sort by ordinal
\* or if, as is the default, a DC has at most two seeds.
THEOREM SeedsFirstHolds ==
    ASSUME Orderly, SortedNames \/ NumSeeds <= 2
    PROVE  Spec /\ [][KeepsScaleUps]_vars => []SeedsFirst
<1>1. Init => IInv /\ SeedOrderInv
  BY InitInv
<1>2. IInv /\ SeedOrderInv /\ [Next]_vars /\ [KeepsScaleUps]_vars => (IInv /\ SeedOrderInv)'
  <2> SUFFICES ASSUME IInv, SeedOrderInv, [Next]_vars, [KeepsScaleUps]_vars
               PROVE  IInv' /\ SeedOrderInv'
    OBVIOUS
  <2>1. IInv' /\ TypeInv'
    BY InvStep DEF IInv
  <2> QED BY <2>1, SeedOrderStep
<1> QED BY <1>1, <1>2, InvImpliesSeedsFirst, PTL DEF Spec

\* A node of a DC starts only when all nodes of the DCs before it have started, if the
\* user also enlarges no DC before one whose nodes have not.
THEOREM DCsInOrderHolds ==
    ASSUME Orderly
    PROVE  Spec /\ [][KeepsScaleUps /\ GrowsInOrder]_vars => []DCsInOrder
<1>1. Init => IInv /\ DCsInv
  BY InitInv
<1>2. IInv /\ DCsInv /\ [Next]_vars /\ [KeepsScaleUps /\ GrowsInOrder]_vars => (IInv /\ DCsInv)'
  <2> SUFFICES ASSUME IInv, DCsInv, [Next]_vars, [KeepsScaleUps /\ GrowsInOrder]_vars
               PROVE  IInv' /\ DCsInv'
    OBVIOUS
  <2>1. IInv'
    BY InvStep
  <2>2. TypeInv'
    BY <2>1 DEF IInv
  <2> QED BY <2>1, <2>2, DCsStep
<1>3. IInv /\ DCsInv => DCsInOrder
  <2> SUFFICES ASSUME DCsInv, NEW p \in FirstStarts, NEW q \in SpecPods(spec), DCof(q) < DCof(p)
               PROVE  Started(q)
    BY DEF DCsInOrder, Started
  <2> QED BY FirstStartIsReleased DEF DCsInv, SpecPods
<1> QED BY <1>1, <1>2, <1>3, PTL DEF Spec

-----------------------------------------------------------------------------
(* Pausing does not stall a DC.                                            *)

\* Two numbers with the same quotient and remainder by n are the same.
LEMMA QuotientsDiffer ==
    ASSUME NEW n \in Nat, NEW a \in Nat, NEW b \in Nat, NEW r \in 0..n, NEW s \in 0..n,
           a * (n + 1) + r = b * (n + 1) + s
    PROVE  a = b /\ r = s
<1>1. ASSUME NEW x \in Nat, NEW y \in Nat, x < y PROVE y * (n + 1) >= x * (n + 1) + (n + 1)
  <2>1. y - x - 1 \in Nat /\ y = x + 1 + (y - x - 1)
    BY <1>1
  <2>2. y * (n + 1) = x * (n + 1) + (n + 1) + (y - x - 1) * (n + 1)
    BY <2>1
  <2>3. (y - x - 1) * (n + 1) \in Nat
    BY <2>1
  <2> QED BY <2>2, <2>3
<1>2. a * (n + 1) \in Nat /\ b * (n + 1) \in Nat
  OBVIOUS
<1>3. ~(a < b)
  <2> SUFFICES ASSUME a < b PROVE FALSE
    OBVIOUS
  <2>1. b * (n + 1) >= a * (n + 1) + (n + 1)
    BY <1>1
  <2> QED BY <1>2, <2>1
<1>4. ~(b < a)
  <2> SUFFICES ASSUME b < a PROVE FALSE
    OBVIOUS
  <2>1. a * (n + 1) >= b * (n + 1) + (n + 1)
    BY <1>1
  <2> QED BY <1>2, <2>1
<1>5. a = b
  BY <1>3, <1>4
<1> QED BY <1>2, <1>5

\* The names of the pods of a DC differ.
LEMMA NamesDiffer ==
    ASSUME NEW i \in Nat, NEW j \in Nat
    PROVE  /\ NameKey(i) \in Nat
           /\ NameKey(i) = NameKey(j) => i = j
<1>0. Base \in Nat /\ Base > 0
  BY PodsInitAssumption
<1> DEFINE quo(k) == IF k < Base THEN k ELSE k \div Base
           rem(k) == IF k < Base THEN 0 ELSE 1 + (k % Base)
<1>1. ASSUME NEW k \in Nat
      PROVE  /\ k \div Base \in Nat /\ k % Base \in 0..Base - 1
             /\ k = Base * (k \div Base) + (k % Base)
  BY <1>0
<1>2. ASSUME NEW k \in Nat
      PROVE  /\ quo(k) \in Nat /\ rem(k) \in 0..Base
             /\ NameKey(k) = quo(k) * (Base + 1) + rem(k)
             /\ k = IF rem(k) = 0 THEN quo(k) ELSE Base * quo(k) + rem(k) - 1
  <2>1. CASE k < Base
    BY <1>0, <2>1 DEF NameKey
  <2>2. CASE ~(k < Base)
    <3>1. quo(k) = k \div Base /\ rem(k) = 1 + (k % Base)
      BY <2>2
    <3>2. NameKey(k) = quo(k) * (Base + 1) + rem(k)
      <4>1. NameKey(k) = (k \div Base) * (Base + 1) + 1 + (k % Base)
        BY <2>2 DEF NameKey
      <4>2. (k \div Base) * (Base + 1) \in Nat /\ k % Base \in Nat
        BY <1>0, <1>1
      <4> QED BY <3>1, <4>1, <4>2
    <3>3. rem(k) # 0 /\ quo(k) \in Nat /\ rem(k) \in 0..Base
      BY <1>0, <1>1, <3>1
    <3>4. k = Base * quo(k) + rem(k) - 1
      BY <1>0, <1>1, <3>1
    <3> QED BY <3>2, <3>3, <3>4
  <2> QED BY <2>1, <2>2
<1> HIDE DEF quo, rem
<1>3. NameKey(i) \in Nat
  <2>1. quo(i) \in Nat /\ rem(i) \in Nat /\ NameKey(i) = quo(i) * (Base + 1) + rem(i)
    BY <1>0, <1>2
  <2>2. quo(i) * (Base + 1) \in Nat
    BY <1>0, <2>1
  <2> QED BY <2>1, <2>2
<1>4. ASSUME NameKey(i) = NameKey(j) PROVE i = j
  <2>1. quo(i) = quo(j) /\ rem(i) = rem(j)
    <3>1. quo(i) \in Nat /\ rem(i) \in 0..Base /\ quo(j) \in Nat /\ rem(j) \in 0..Base
      BY <1>2
    <3>2. quo(i) * (Base + 1) + rem(i) = quo(j) * (Base + 1) + rem(j)
      <4>1. NameKey(i) = quo(i) * (Base + 1) + rem(i)
        BY <1>2
      <4>2. NameKey(j) = quo(j) * (Base + 1) + rem(j)
        BY <1>2
      <4> QED BY <1>4, <4>1, <4>2
    <3> QED BY <1>0, <3>1, <3>2, QuotientsDiffer
  <2>2. i = IF rem(i) = 0 THEN quo(i) ELSE Base * quo(i) + rem(i) - 1
    BY <1>2
  <2>3. j = IF rem(j) = 0 THEN quo(j) ELSE Base * quo(j) + rem(j) - 1
    BY <1>2
  <2> QED BY <2>1, <2>2, <2>3
<1> QED BY <1>3, <1>4

\* Not everyone waits for everyone: if pods of the DC that may start are not ready,
\* one of them is not paused.
SomePodGoesOn ==
    \A d \in DCs : LET unready == {p \in Listed : DCof(p) = d /\ list[p] # "ready"}
                   IN  unready # {} => \E p \in unready : ~pausePodInit(p, d)

\* pausePodInit never stalls a DC, whatever was listed and whichever pods have the
\* seed label, also above nine pods: a seed that is not ready may start, and
\* otherwise the pod whose name sorts first.
THEOREM PausingNeverStalls == SomePodGoesOn
<1> SUFFICES ASSUME NEW d \in DCs, NEW u \in Listed, DCof(u) = d, list[u] # "ready"
             PROVE  \E p \in Listed : DCof(p) = d /\ list[p] # "ready" /\ ~pausePodInit(p, d)
  BY DEF SomePodGoesOn
<1>1. CASE ~SeedsReady(d)
  BY <1>1 DEF SeedsReady, pausePodInit
<1>2. CASE u \in listSeed
  BY <1>2 DEF pausePodInit
<1>3. CASE SeedsReady(d) /\ u \notin listSeed
  <2> DEFINE todo == {q \in Listed \ listSeed : DCof(q) = d /\ list[q] # "ready"}
             keys == {NameKey(Ord(q)) : q \in todo}
  <2>1. u \in todo
    BY <1>3
  <2>2. \A q \in todo : q \in Pods /\ DCof(q) = d /\ Ord(q) \in Nat /\ NameKey(Ord(q)) \in Nat
    BY PodType, NamesDiffer DEF Listed
  <2>3. keys \in SUBSET Nat /\ keys # {}
    BY <2>1, <2>2
  <2>4. PICK p \in todo : \A q \in todo : NameKey(Ord(p)) <= NameKey(Ord(q))
    <3>1. PICK k \in keys : \A y \in keys : k <= y
      <4> HIDE DEF keys
      <4> QED BY <2>3, HasLeast
    <3>2. PICK p \in todo : k = NameKey(Ord(p))
      BY <3>1
    <3> HIDE DEF todo
    <3> QED BY <3>1, <3>2
  <2>5. ASSUME NEW q \in todo, q # p PROVE SortedBefore(p, q)
    <3>1. Ord(q) # Ord(p)
      BY <2>2, <2>5, PodFacts
    <3>2. NameKey(Ord(q)) # NameKey(Ord(p))
      BY <2>2, <3>1, NamesDiffer
    <3> HIDE DEF todo
    <3> QED BY <2>2, <2>4, <3>2 DEF SortedBefore
  <2>6. IsNextNonSeed(p, d)
    BY <2>5 DEF IsNextNonSeed
  <2>7. ~pausePodInit(p, d)
    BY <1>3, <2>6 DEF pausePodInit
  <2> QED BY <2>4, <2>7
<1> QED BY <1>1, <1>2, <1>3
=============================================================================
