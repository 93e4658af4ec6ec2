--------------------------- MODULE ObjectsProofs ---------------------------
(***************************************************************************)
(* Proofs about Objects, for every sequence of specs and every number of   *)
(* failures, deletions, changes by others and moves of the pods:           *)
(*   - a workload never exists before what its pods mount or run as,       *)
(*     unless someone deletes objects;                                     *)
(*   - no second Reaper starts before the first has set up the schema.     *)
(***************************************************************************)
EXTENDS Objects, FiniteSetTheorems, TLAPS

-----------------------------------------------------------------------------
(* The inductive invariant.                                                *)

Parts == Features \cup {"", "tlp", "datastax"}
Contents == [labels : 0..1, images : Seq(0..2), config : 0..2, parts : SUBSET Parts,
             addrs : SUBSET Addresses]
Cursors == [spec : Specs, edition : Nat, status : BOOLEAN, ready : BOOLEAN, hosts : SUBSET Hosts]
PodStates == [template : Contents, config : 0..2, ready : BOOLEAN, host : Hosts]

\* The variables the proofs are about.
TypeInv ==
    /\ scenario \in Scenarios /\ budget \in [Charges -> Int]
    /\ spec \in Specs /\ edition \in Nat /\ status \in BOOLEAN
    /\ DOMAIN objects \subseteq Owned /\ objects \in [DOMAIN objects -> Contents]
    /\ pods \in PodStates
    /\ reapers \in [Reapers -> [run : Contents, next : Contents]]
    /\ schema \in 0..2
    /\ pos \in 0..Len(Order) /\ cur \in Cursors

\* A pass works with a spec in which no image is missing.
Defaulted == pos > 0 => cur.spec.images["reaper"] \in 1..2

\* Nothing has been deleted but policies.
Untouched == budget["delete"] = scenario.budget["delete"]

\* What pods mount or run as.
Prerequisites ==
    CassandraRBAC \cup ProberRBAC \cup {"authConfig", "maintenanceCM", "prometheusCM",
                                        "collectdCM", "cassandraCM", "podsCM", "shiroCM"}

\* What a pass has come past exists, if its spec asks for it.
PassedExist ==
    \A i \in 1..Len(Order) :
        i < pos /\ Order[i] \in Prerequisites /\ Wanted(Order[i], cur.spec) => Exists(Order[i])

NeedsInv ==
    /\ budget["delete"] <= scenario.budget["delete"]
    /\ Untouched =>
         /\ PassedExist
         /\ \A w \in {"sts", "prober"} \cup Reapers :
               Exists(w) => Needs(w) \subseteq DOMAIN objects

\* A Reaper that starts has an image, and so has the schema once one has started.
ImagesInv ==
    \A r \in Reapers :
        /\ Exists(r) => objects[r] # NoContent /\ objects[r].images[1] \in 1..2
        /\ reapers[r].next # NoContent => reapers[r].next.images[1] \in 1..2
        /\ reapers[r].next = NoContent => reapers[r].run = NoContent

\* Until then no Reaper is ready, and no pass goes on to the second one.
FirstInv ==
    schema = 0 =>
        /\ \A r \in Reapers : reapers[r].run = NoContent
        /\ pos <= 27 /\ ~Exists("reaper2") /\ reapers["reaper2"].next = NoContent

-----------------------------------------------------------------------------
(* The operators.                                                          *)

LEMMA OrderLength == Len(Order) = 38
  BY DEF Order

\* Where the workloads are, and what comes before them.
LEMMA Positions ==
  ASSUME NEW i \in 1..Len(Order)
  PROVE  /\ Order[i] = "prober" => i = 13
         /\ Order[i] = "sts" => i = 21
         /\ Order[i] = "reaper1" => i = 24
         /\ Order[i] = "firstReaper" => i = 27
         /\ Order[i] = "reaper2" => i = 28
  BY DEF Order

LEMMA Before ==
  /\ \A o \in ProberRBAC : \E i \in 1..12 : Order[i] = o
  /\ \A o \in CassandraRBAC \cup {"authConfig", "maintenanceCM", "prometheusCM", "collectdCM",
                                  "cassandraCM", "podsCM"} : \E i \in 1..20 : Order[i] = o
  /\ Order[23] = "shiroCM"
  BY DEF Order, ProberRBAC, CassandraRBAC

\* The names of what is kept, and of what only takes its turn.
LEMMA Names ==
  /\ Prerequisites \subseteq Owned \ Policies
  /\ Reapers \subseteq Owned \ Policies
  /\ "sts" \in Owned \ Policies /\ "prober" \in Owned \ Policies /\ "podsCM" \in Owned
  /\ Owned \cap (Monitors \cup Waits) = {}
  <1>1. ASSUME NEW o \in Prerequisites \cup Reapers \cup {"sts", "prober"}
        PROVE  o \in {Order[i] : i \in 1..Len(Order)}
    <2>1. \E i \in 1..38 : Order[i] = o
      BY DEF Order, Prerequisites, ProberRBAC, CassandraRBAC, Reapers
    <2>. QED BY <2>1, OrderLength
  <1>2. ASSUME NEW o \in Prerequisites \cup Reapers \cup {"sts", "prober"}
        PROVE  o \notin Monitors \cup Waits \cup Policies
    BY DEF Prerequisites, ProberRBAC, CassandraRBAC, Reapers, Monitors, Waits, Policies
  <1>3. "podsCM" \in Prerequisites
    BY DEF Prerequisites
  <1>. QED BY <1>1, <1>2, <1>3 DEF Owned

\* A default fills what is missing.
LEMMA DefaultedSpec ==
  ASSUME NEW s \in Specs
  PROVE  /\ defaultCassandraCluster(s) \in Specs
         /\ defaultCassandraCluster(s).images["reaper"] \in 1..2
  <1> DEFINE im == defaultReaper(defaultProber(defaultIcarus(defaultCassandra(s.images))))
  <1>1. ASSUME NEW f \in [Components -> 0..2], NEW c \in Components
        PROVE  Given(f, c) \in [Components -> 0..2] /\ Given(f, c)[c] \in 1..2
    BY <1>1, ObjectsAssumption DEF Given
  <1>2. s.images \in [Components -> 0..2] /\ Components = {"cassandra", "icarus", "prober", "reaper"}
    BY DEF Specs, Components
  <1>3. im \in [Components -> 0..2] /\ im["reaper"] \in 1..2
    BY <1>1, <1>2 DEF defaultReaper, defaultProber, defaultIcarus, defaultCassandra
  <1> HIDE DEF im
  <1>4. [s EXCEPT !.images = im] \in Specs /\ [s EXCEPT !.images = im].images = im
    BY <1>3 DEF Specs
  <1>5. defaultCassandraCluster(s) = defaultMonitoring([s EXCEPT !.images = im])
    BY DEF defaultCassandraCluster, im
  <1>6. ASSUME NEW t \in Specs
        PROVE  defaultMonitoring(t) \in Specs /\ defaultMonitoring(t).images = t.images
    BY <1>6 DEF defaultMonitoring, Specs
  <1>. QED BY <1>3, <1>4, <1>5, <1>6

LEMMA NoContentType == NoContent \in Contents /\ NoContent.images = <<>>
  BY DEF NoContent, Contents

LEMMA Images ==
  /\ \A x \in 0..2 : <<x>> \in Seq(0..2) /\ <<x>>[1] = x /\ <<x>> # <<>>
  /\ \A x, y \in 0..2 : <<x, y>> \in Seq(0..2)
  /\ \A s \in Seq(0..2) : <<2>> \o s \in Seq(0..2)
  OBVIOUS

LEMMA SpecFields ==
  ASSUME NEW s \in Specs
  PROVE  s.labels \in 0..1 /\ s.config \in 0..2
  <1>1. s.labels \in 0..1 /\ s.config \in 1..2
    BY DEF Specs
  <1>. QED BY <1>1

\* The contents that are computed from the spec.
LEMMA LabelledType ==
  ASSUME NEW s \in Specs
  PROVE  Labelled(s) \in Contents
  <1>1. s.labels \in 0..1 /\ <<0>> \in Seq(0..2)
    BY SpecFields, Images
  <1>. QED BY <1>1, NoContentType DEF Labelled, Contents

LEMMA SpecImages ==
  ASSUME NEW s \in Specs
  PROVE  s.images["cassandra"] \in 0..2 /\ s.images["icarus"] \in 0..2
         /\ s.images["prober"] \in 0..2 /\ s.images["reaper"] \in 0..2
  BY DEF Specs, Components

LEMMA AgentType ==
  ASSUME NEW s \in Specs
  PROVE  getJavaAgent(s) \subseteq {"", "tlp", "datastax"} /\ s.on \subseteq Features
  BY DEF getJavaAgent, Specs

LEMMA ReaperContent ==
  ASSUME NEW s \in Specs, NEW hosts \in SUBSET Hosts
  PROVE  /\ reaperDeployment(s, hosts) \in Contents
         /\ reaperDeployment(s, hosts).images[1] = s.images["reaper"]
         /\ reaperDeployment(s, hosts) # NoContent
  <1>1. reaperDeployment(s, hosts) \in Contents
    BY SpecImages, NoContentType, Images
    DEF reaperDeployment, reaperContainer, reaperEnvironment, Contents, Addresses
  <1>2. reaperDeployment(s, hosts).images = <<s.images["reaper"]>>
    BY NoContentType DEF reaperDeployment, reaperContainer, Contents
  <1>. QED BY <1>1, <1>2, NoContentType, SpecImages, Images

LEMMA StatefulSetContent ==
  ASSUME NEW s \in Specs
  PROVE  /\ cassandraStatefulSet(s) \in Contents
         /\ cassandraStatefulSet(s).parts \cap {"tlp", "datastax"} \subseteq getJavaAgent(s)
  <1>1. Labelled(s) \in Contents /\ s.config \in 0..2
    BY LabelledType, SpecFields
  <1> DEFINE im == <<cassandraContainer(s), icarusContainer(s)>>
             parts == cassandraContainerPorts(s) \cup getJavaAgent(s) \cup cassandraVolumeClaims(s)
  <1>2. im \in Seq(0..2)
    BY SpecImages, Images DEF cassandraContainer, icarusContainer
  <1>3. parts \subseteq Parts /\ parts \cap {"tlp", "datastax"} \subseteq getJavaAgent(s)
    BY AgentType DEF cassandraContainerPorts, cassandraVolumeClaims, Parts, Features
  <1>4. cassandraStatefulSet(s) = [Labelled(s) EXCEPT !.images = im, !.config = s.config, !.parts = parts]
    BY DEF cassandraStatefulSet
  <1> HIDE DEF im, parts
  <1>. QED BY <1>1, <1>2, <1>3, <1>4 DEF Contents

LEMMA DesiredType ==
  ASSUME NEW o \in Owned, NEW s \in Specs, NEW hosts \in SUBSET Hosts, NEW remote \in {Remote, {}}
  PROVE  Desired(o, s, hosts, remote) \in Contents
  <1>1. Labelled(s) \in Contents
    BY LabelledType
  <1>2. cassandraConfigMap(s) \in Contents
    BY <1>1, SpecFields DEF cassandraConfigMap, Contents
  <1>3. proberDeployment(s) \in Contents
    BY <1>1, SpecImages, Images DEF proberDeployment, proberContainer, Contents
  <1>4. reconcileDCService(s) \in Contents
    BY <1>1, AgentType DEF reconcileDCService, Contents, Parts
  <1>5. generatePeers(o, s, hosts, remote) \subseteq Addresses
    BY DEF generatePeers, getExternalReaperIPs, Addresses
  <1>6. Rules(o, s) \subseteq Parts
    BY AgentType DEF Rules, reconcileReaperNetworkPolicies, Parts
  <1>7. [cassandraClusterPolicy(s) EXCEPT !.addrs = generatePeers(o, s, hosts, remote),
                                          !.parts = Rules(o, s)] \in Contents
    BY <1>1, <1>5, <1>6 DEF cassandraClusterPolicy, Contents
  <1>. QED BY <1>1, <1>2, <1>3, <1>4, <1>7, ReaperContent, StatefulSetContent DEF Desired

\* A reaper's template, and a statefulset's, are those of the spec.
LEMMA DesiredWorkloads ==
  ASSUME NEW s, NEW hosts, NEW remote
  PROVE  /\ \A r \in Reapers : Desired(r, s, hosts, remote) = reaperDeployment(s, hosts)
         /\ Desired("sts", s, hosts, remote) = cassandraStatefulSet(s)
  <1>1. \A r \in Reapers : /\ r \notin Policies
                           /\ r \notin {"cassandraCM", "sts", "prober", "dcService"}
    BY DEF Reapers, Policies
  <1>2. "sts" \notin Policies /\ "sts" \notin Reapers
    BY DEF Reapers, Policies
  <1>3. \A r \in Reapers : Desired(r, s, hosts, remote) = reaperDeployment(s, hosts)
    BY <1>1 DEF Desired
  <1>. QED BY <1>2, <1>3 DEF Desired

\* What pods mount or run as is made in every pass, the agents' configuration apart.
LEMMA WantedPrerequisites ==
  ASSUME NEW o \in Prerequisites, NEW s
  PROVE  /\ o \notin {"prometheusCM", "collectdCM"} => Wanted(o, s)
         /\ o = "prometheusCM" => (Wanted(o, s) <=> "monitoring" \in s.on)
         /\ o = "collectdCM" => (Wanted(o, s) <=> "monitoring" \in s.on /\ s.agent = "datastax")
  BY DEF Wanted, Prerequisites, ProberRBAC, CassandraRBAC, Policies,
     reconcilePrometheusConfigMap, reconcileCollectdConfigMap

-----------------------------------------------------------------------------
(* Steps that create nothing.                                              *)

Inv == TypeInv /\ Defaulted /\ NeedsInv /\ ImagesInv /\ FirstInv

LEMMA ScenarioType ==
  ASSUME NEW s \in Scenarios
  PROVE  /\ s.specs \in Seq(Specs) /\ s.specs[1] \in Specs /\ Len(s.specs) \in Nat
         /\ \A i \in 1..Len(s.specs) : s.specs[i] \in Specs
         /\ s.budget \in [Charges -> Int] /\ "delete" \in Charges
  <1>1. s.specs \in Seq(Specs) /\ s.specs # <<>> /\ s.budget \in [Charges -> Nat]
    BY ObjectsAssumption
  <1>2. Len(s.specs) \in Nat /\ Len(s.specs) > 0
    BY <1>1
  <1>. QED BY <1>1, <1>2 DEF Charges

LEMMA NoPassType == TypeInv => NoPass \in Cursors
  BY ScenarioType DEF TypeInv, NoPass, Cursors

LEMMA InitInv == Init => Inv
  <1> SUFFICES ASSUME Init PROVE Inv
    OBVIOUS
  <1>1. scenario \in Scenarios /\ budget = scenario.budget /\ spec = scenario.specs[1]
        /\ objects = <<>> /\ reapers = [r \in Reapers |-> NoReaper] /\ schema = 0
        /\ pos = 0 /\ cur = NoPass /\ edition = 1 /\ status = FALSE
        /\ pods = [template |-> NoContent, config |-> 0, ready |-> FALSE, host |-> CHOOSE h \in Hosts : TRUE]
    BY DEF Init
  <1>2. NoPass \in Cursors
    BY <1>1, ScenarioType DEF NoPass, Cursors
  <1>3. NoReaper \in [run : Contents, next : Contents]
        /\ NoReaper.run = NoContent /\ NoReaper.next = NoContent
    BY NoContentType DEF NoReaper
  <1>4. TypeInv
    <2>1. DOMAIN objects = {} /\ objects \in [{} -> Contents]
      BY <1>1
    <2>2. pods \in PodStates
      BY <1>1, NoContentType, ObjectsAssumption DEF PodStates
    <2>3. reapers \in [Reapers -> [run : Contents, next : Contents]]
      BY <1>1, <1>3
    <2>4. spec \in Specs /\ edition \in Nat /\ status \in BOOLEAN /\ budget \in [Charges -> Int]
      BY <1>1, ScenarioType
    <2>5. pos \in 0..Len(Order) /\ cur \in Cursors /\ schema \in 0..2
      BY <1>1, <1>2, OrderLength
    <2>6. DOMAIN objects \subseteq Owned /\ objects \in [DOMAIN objects -> Contents]
      BY <2>1
    <2>. QED BY <1>1, <2>2, <2>3, <2>4, <2>5, <2>6 DEF TypeInv
  <1>5. Defaulted /\ NeedsInv
    BY <1>1, ScenarioType DEF Defaulted, NeedsInv, PassedExist, Exists
  <1>6. ImagesInv /\ FirstInv
    BY <1>1, <1>3 DEF ImagesInv, FirstInv, Exists, Reapers
  <1>. QED BY <1>4, <1>5, <1>6 DEF Inv

\* The variables no proof is about, but for their types, and the charge for deletions.
Others ==
    /\ scenario' = scenario
    /\ budget' \in [Charges -> Int] /\ budget'["delete"] = budget["delete"]
    /\ spec' \in Specs /\ edition' \in Nat /\ status' \in BOOLEAN /\ pods' \in PodStates

\* The pass ends, stays where it is, begins, or goes on from what pods do not need.
Moves ==
    \/ pos' = 0 /\ cur' = NoPass
    \/ UNCHANGED <<pos, cur>>
    \/ pos' = 1 /\ cur' \in Cursors /\ cur'.spec.images["reaper"] \in 1..2
    \/ /\ pos \in 1..37 /\ pos' = pos + 1 /\ cur' \in Cursors /\ cur'.spec = cur.spec
       /\ Order[pos] \notin Prerequisites /\ (pos = 27 => schema # 0)

LEMMA MovesType ==
  ASSUME Inv, scenario' = scenario, Moves
  PROVE  pos' \in 0..Len(Order) /\ cur' \in Cursors /\ Defaulted'
  BY NoPassType, OrderLength DEF Inv, TypeInv, Moves, Defaulted

\* Objects go, policies only, and none comes.
Fewer ==
    /\ DOMAIN objects \ Policies \subseteq DOMAIN objects' /\ DOMAIN objects' \subseteq DOMAIN objects
    /\ objects' = [o \in DOMAIN objects' |-> objects[o]]

LEMMA QuietStep ==
  ASSUME Inv, Others, Fewer, Moves, UNCHANGED <<reapers, schema>>
  PROVE  Inv'
  <1>1. TypeInv'
    BY MovesType DEF Inv, TypeInv, Others, Fewer
  <1>2. \A o \in Owned \ Policies : Exists(o)' <=> Exists(o)
    BY DEF Fewer, Exists
  <1>3. \A o \in Owned \ Policies : Exists(o) => objects'[o] = objects[o]
    BY DEF Fewer, Exists
  <1>4. NeedsInv'
    <2> SUFFICES ASSUME Untouched' PROVE PassedExist' /\ \A w \in {"sts", "prober"} \cup Reapers :
                                            Exists(w)' => Needs(w)' \subseteq DOMAIN objects'
      BY DEF Inv, NeedsInv, Others
    <2>1. Untouched
      BY DEF Others, Untouched
    <2>2. PassedExist'
      <3> SUFFICES ASSUME NEW i \in 1..Len(Order), i < pos', Order[i] \in Prerequisites,
                          Wanted(Order[i], cur'.spec)
                   PROVE  Exists(Order[i])'
        BY DEF PassedExist, Wanted, Order
      <3>1. i < pos /\ cur'.spec = cur.spec
        BY OrderLength DEF Moves, Inv, TypeInv
      <3>2. Exists(Order[i])
        BY <2>1, <3>1 DEF Inv, NeedsInv, PassedExist
      <3>. QED BY <1>2, <3>2, Names
    <2>3. ASSUME NEW w \in {"sts", "prober"} \cup Reapers, Exists(w)'
          PROVE  Needs(w)' \subseteq DOMAIN objects'
      <3>1. Exists(w) /\ objects'[w] = objects[w]
        BY <1>2, <1>3, <2>3, Names
      <3>2. Needs(w)' = Needs(w)
        BY <3>1 DEF Needs
      <3>3. Needs(w) \subseteq DOMAIN objects /\ Needs(w) \subseteq Prerequisites
        <4>1. Needs(w) \subseteq DOMAIN objects
          BY <2>1, <3>1 DEF Inv, NeedsInv
        <4>2. Needs(w) \subseteq Prerequisites
          BY DEF Needs, Prerequisites, cassandraVolumes, reaperVolumes, Reapers
        <4>. QED BY <4>1, <4>2
      <3>. QED BY <3>2, <3>3, Names DEF Fewer
    <2>. QED BY <2>2, <2>3
  <1>5. ImagesInv'
    BY <1>2, <1>3, Names DEF Inv, ImagesInv
  <1>6. FirstInv'
    <2>1. schema = 0 => pos' <= 27
      BY DEF Moves, Inv, FirstInv, TypeInv
    <2>2. "reaper2" \in Owned \ Policies
      BY Names DEF Reapers
    <2>. QED BY <1>2, <2>1, <2>2 DEF Inv, FirstInv
  <1>. QED BY <1>1, <1>4, <1>5, <1>6, MovesType DEF Inv, Others

LEMMA Spent ==
  ASSUME TypeInv, NEW b \in Charges, Spend(b)
  PROVE  /\ budget' \in [Charges -> Int]
         /\ b # "delete" => budget'["delete"] = budget["delete"]
         /\ b = "delete" => budget'["delete"] < budget["delete"]
  BY DEF TypeInv, Spend, Charges

LEMMA SameObjects == TypeInv /\ UNCHANGED objects => Fewer
  BY DEF TypeInv, Fewer

\* Where a pass is, it has the object's name; and that is not the name of another step.
LEMMA AtName ==
  ASSUME TypeInv, NEW l, At(l)
  PROVE  pos \in 1..38 /\ Order[pos] = l
  BY OrderLength DEF TypeInv, At

LEMMA EndMoves ==
  ASSUME Inv, NEW b \in BOOLEAN, EndPass(b)
  PROVE  Moves /\ status' \in BOOLEAN
  BY DEF EndPass, Moves, Inv, TypeInv

LEMMA AdvanceMoves ==
  ASSUME Inv, NEW l \in Monitors \cup Waits, At(l), Advance,
         l = "firstReaper" => schema # 0
  PROVE  Moves /\ status' \in BOOLEAN
  <1>1. pos \in 1..38 /\ Order[pos] = l /\ l \notin Prerequisites
    BY AtName, Names DEF Inv
  <1>2. pos = 27 => l = "firstReaper"
    BY <1>1 DEF Order
  <1>3. cur.ready \in BOOLEAN /\ cur \in Cursors /\ status \in BOOLEAN
    BY DEF Inv, TypeInv, Cursors
  <1>4. CASE pos = 38
    BY <1>3, <1>4, EndMoves, OrderLength DEF Advance
  <1>5. CASE pos # 38
    BY <1>1, <1>2, <1>3, <1>5, OrderLength DEF Advance, Moves
  <1>. QED BY <1>4, <1>5

\* The pass begins with the defaulted spec.
LEMMA BeginStep == Inv /\ Begin => Inv'
  <1> SUFFICES ASSUME Inv, Begin PROVE Inv'
    OBVIOUS
  <1>1. TypeInv /\ UNCHANGED <<scenario, edition, spec, status, objects, reapers, schema, budget, pods>>
    BY DEF Inv, Begin, userVars, storeVars, runVars
  <1>2. cur' \in Cursors /\ cur'.spec = defaultCassandraCluster(spec)
    BY <1>1, NoPassType, DefaultedSpec DEF Begin, TypeInv, Cursors
  <1>3. Moves
    BY <1>1, <1>2, DefaultedSpec DEF Begin, Moves, TypeInv
  <1>. QED BY <1>1, <1>3, SameObjects, QuietStep DEF TypeInv, Others

LEMMA CleanupStep == Inv /\ cleanupNetworkPolicies => Inv'
  <1> SUFFICES ASSUME Inv, cleanupNetworkPolicies PROVE Inv'
    OBVIOUS
  <1>1. TypeInv /\ UNCHANGED <<scenario, edition, spec, reapers, schema, pods>> /\ At("cleanup")
    BY DEF Inv, cleanupNetworkPolicies, userVars, runVars
  <1>2. Fewer
    BY <1>1, SameObjects DEF cleanupNetworkPolicies, Without, Fewer
  <1>3. budget' \in [Charges -> Int] /\ budget'["delete"] = budget["delete"]
    BY <1>1, Spent DEF cleanupNetworkPolicies, Charges, TypeInv
  <1>4. Moves /\ status' \in BOOLEAN
    <2>1. Advance \/ EndPass(FALSE)
      BY DEF cleanupNetworkPolicies
    <2>2. "cleanup" \in Waits
      BY DEF Waits
    <2>. QED BY <1>1, <2>1, <2>2, AdvanceMoves, EndMoves
  <1>. QED BY <1>1, <1>2, <1>3, <1>4, QuietStep DEF TypeInv, Others

\* Service monitors, the waits, and a pass that is aborted.
LEMMA WaitSteps ==
  ASSUME Inv,
         \/ ProberReady \/ clusterReady \/ WaitForFirstReaper \/ ReaperIsRunning \/ Abort
         \/ \E m \in Monitors : ReconcileMonitor(m)
  PROVE  Inv'
  <1>1. TypeInv /\ UNCHANGED <<scenario, edition, spec, objects, reapers, schema, pods>>
    BY DEF Inv, ProberReady, clusterReady, WaitForFirstReaper, ReaperIsRunning, Abort, WaitFor,
       WaitForReaper, ReconcileMonitor, userVars, storeVars, runVars
  <1>2. budget' \in [Charges -> Int] /\ budget'["delete"] = budget["delete"]
    <2>1. UNCHANGED budget \/ Spend("fault")
      BY DEF ProberReady, clusterReady, WaitForFirstReaper, ReaperIsRunning, Abort, WaitFor,
         WaitForReaper, ReconcileMonitor
    <2>. QED BY <1>1, <2>1, Spent DEF Charges, TypeInv
  <1>3. cur \in Cursors /\ cur.ready \in BOOLEAN
    BY <1>1 DEF TypeInv, Cursors
  <1>4. ASSUME NEW m \in Monitors, ReconcileMonitor(m) PROVE Moves /\ status' \in BOOLEAN
    <2>1. At(m) /\ (Advance \/ EndPass(cur.ready)) /\ m # "firstReaper"
      BY <1>4 DEF ReconcileMonitor, Monitors
    <2>. QED BY <1>3, <2>1, AdvanceMoves, EndMoves
  <1>5. ASSUME Abort PROVE Moves /\ status' \in BOOLEAN
    BY <1>1, <1>3, <1>5, EndMoves DEF Abort, Moves, TypeInv
  <1>6. ASSUME NEW l \in {"proberReady", "clusterReady"}, NEW c, NEW b \in BOOLEAN, WaitFor(l, c, b)
        PROVE  Moves /\ status' \in BOOLEAN
    <2>1. CASE EndPass(FALSE)
      BY <2>1, EndMoves
    <2>2. CASE pos' = pos + 1 /\ cur' = [cur EXCEPT !.ready = b] /\ UNCHANGED status
      <3>1. pos \in 1..38 /\ Order[pos] = l /\ l \notin Prerequisites
        BY <1>1, <1>6, AtName, Names DEF WaitFor, Waits
      <3>2. pos # 38 /\ pos # 27
        BY <3>1 DEF Order
      <3>3. cur' \in Cursors /\ cur'.spec = cur.spec
        BY <1>3, <2>2 DEF Cursors
      <3>. QED BY <1>1, <2>2, <3>1, <3>2, <3>3 DEF Moves, TypeInv
    <2>. QED BY <1>6, <2>1, <2>2 DEF WaitFor
  <1>7. ASSUME WaitForFirstReaper PROVE Moves /\ status' \in BOOLEAN
    <2>1. At("firstReaper") /\ ((FirstReaperReady /\ Advance) \/ EndPass(cur.ready))
      BY <1>7 DEF WaitForFirstReaper, WaitForReaper
    <2>2. FirstReaperReady => schema # 0
      BY DEF FirstReaperReady, Inv, FirstInv, Reapers
    <2>3. "firstReaper" \in Waits
      BY DEF Waits
    <2>. QED BY <1>3, <2>1, <2>2, <2>3, AdvanceMoves, EndMoves
  <1>8. ASSUME ReaperIsRunning PROVE Moves /\ status' \in BOOLEAN
    <2>1. At("reaperRunning") /\ (Advance \/ EndPass(cur.ready))
      BY <1>8 DEF ReaperIsRunning, WaitForReaper
    <2>2. "reaperRunning" \in Waits
      BY DEF Waits
    <2>. QED BY <1>3, <2>1, <2>2, AdvanceMoves, EndMoves
  <1>9. Moves /\ status' \in BOOLEAN
    BY <1>4, <1>5, <1>6, <1>7, <1>8 DEF ProberReady, clusterReady
  <1>. QED BY <1>1, <1>2, <1>9, SameObjects, QuietStep DEF TypeInv, Others

\* The user's edits, and the pods of Cassandra and of the prober.
LEMMA PodSteps ==
  ASSUME Inv, Edit \/ RollPods \/ ReadinessProbe \/ PodsMove \/ RollProber
  PROVE  Inv'
  <1>1. TypeInv /\ UNCHANGED <<scenario, objects, reapers, schema, pos, cur, status>>
    BY DEF Inv, Edit, RollPods, ReadinessProbe, PodsMove, RollProber, userVars, storeVars,
       runVars, passVars
  <1>2. budget' \in [Charges -> Int] /\ budget'["delete"] = budget["delete"]
    <2>1. UNCHANGED budget \/ Spend("move")
      BY DEF Edit, RollPods, ReadinessProbe, PodsMove, RollProber
    <2>. QED BY <1>1, <2>1, Spent DEF Charges, TypeInv
  <1>3. spec' \in Specs /\ edition' \in Nat
    <2>1. UNCHANGED <<edition, spec>> \/ Edit
      BY DEF RollPods, ReadinessProbe, PodsMove, RollProber, userVars
    <2>. QED BY <1>1, <2>1, ScenarioType DEF Edit, TypeInv
  <1>4. pods' \in PodStates
    <2>1. CASE UNCHANGED pods
      BY <1>1, <2>1 DEF TypeInv
    <2>2. CASE ReadinessProbe
      <3>1. Reachable \in BOOLEAN
        BY DEF Reachable, reconcileProberService
      <3>. QED BY <1>1, <2>2, <3>1 DEF ReadinessProbe, TypeInv, PodStates
    <2>3. CASE RollPods \/ PodsMove
      <3>1. "sts" \in DOMAIN objects /\ "cassandraCM" \in DOMAIN objects
        <4>1. Startable("sts")
          BY <2>3 DEF RollPods, PodsMove
        <4>2. "cassandraCM" \in Needs("sts")
          BY DEF Needs, cassandraVolumes, Reapers
        <4>. QED BY <4>1, <4>2 DEF Startable, Exists
      <3>2. objects["sts"] \in Contents /\ objects["cassandraCM"].config \in 0..2
        BY <1>1, <3>1 DEF TypeInv, Contents
      <3>3. Template(objects["sts"]) \in Contents
        BY <3>2 DEF Template, PodLabels, Contents
      <3>. QED BY <1>1, <2>3, <3>2, <3>3 DEF RollPods, PodsMove, TypeInv, PodStates
    <2>. QED BY <2>1, <2>2, <2>3 DEF Edit, RollProber, runVars
  <1>. QED BY <1>1, <1>2, <1>3, <1>4, SameObjects, QuietStep DEF Moves, Others, TypeInv

-----------------------------------------------------------------------------
(* Reaper, and objects that others change.                                 *)

\* A Reaper that runs has migrated the schema.
LEMMA ReaperSteps ==
  ASSUME Inv, NEW r \in Reapers, StartReaper(r) \/ ReaperStarts(r)
  PROVE  Inv'
  <1>1. TypeInv /\ UNCHANGED <<scenario, edition, spec, status, objects, pods, pos, cur, budget>>
    BY DEF Inv, StartReaper, ReaperStarts, userVars, storeVars, passVars
  <1>2. CASE StartReaper(r)
    <2>1. Exists(r) /\ objects[r] \in Contents /\ schema' = schema
          /\ reapers' = [reapers EXCEPT ![r].next = objects[r]]
      BY <1>1, <1>2 DEF StartReaper, Startable, Exists, TypeInv
    <2>2. reapers' \in [Reapers -> [run : Contents, next : Contents]]
      BY <1>1, <2>1 DEF TypeInv
    <2>3. \A q \in Reapers : reapers'[q].run = reapers[q].run
      BY <1>1, <2>1 DEF TypeInv
    <2>4. reapers'[r].next = objects[r] /\ \A q \in Reapers \ {r} : reapers'[q].next = reapers[q].next
      BY <1>1, <2>1 DEF TypeInv
    <2>5. TypeInv' /\ Defaulted' /\ NeedsInv'
      BY <1>1, <2>1, <2>2 DEF Inv, TypeInv, Defaulted, NeedsInv, Untouched, PassedExist, Exists, Needs
    <2>6. ImagesInv'
      BY <1>1, <2>1, <2>3, <2>4 DEF Inv, ImagesInv, Exists
    <2>7. FirstInv'
      BY <1>1, <2>1, <2>3, <2>4 DEF Inv, FirstInv, Exists, Reapers
    <2>. QED BY <2>5, <2>6, <2>7 DEF Inv
  <1>3. CASE ReaperStarts(r)
    <2>1. /\ reapers[r].next # reapers[r].run /\ schema' = reapers[r].next.images[1]
          /\ reapers' = [reapers EXCEPT ![r].run = reapers[r].next]
      BY <1>3 DEF ReaperStarts
    <2>2. reapers[r].next # NoContent /\ schema' \in 1..2
      BY <2>1 DEF Inv, ImagesInv
    <2>3. reapers' \in [Reapers -> [run : Contents, next : Contents]]
      BY <1>1, <2>1 DEF TypeInv
    <2>4. reapers'[r].run = reapers[r].next /\ (\A q \in Reapers \ {r} : reapers'[q].run = reapers[q].run)
          /\ \A q \in Reapers : reapers'[q].next = reapers[q].next
      BY <1>1, <2>1 DEF TypeInv
    <2>5. TypeInv' /\ Defaulted' /\ NeedsInv'
      BY <1>1, <2>2, <2>3 DEF Inv, TypeInv, Defaulted, NeedsInv, Untouched, PassedExist, Exists, Needs
    <2>6. ImagesInv'
      BY <1>1, <2>2, <2>4 DEF Inv, ImagesInv, Exists
    <2>7. FirstInv'
      BY <2>2 DEF FirstInv
    <2>. QED BY <2>5, <2>6, <2>7 DEF Inv
  <1>. QED BY <1>2, <1>3

LEMMA DeleteStep ==
  ASSUME Inv, NEW o \in Owned, Delete(o)
  PROVE  Inv'
  <1>1. /\ TypeInv /\ UNCHANGED <<scenario, edition, spec, status, schema, pos, cur>>
        /\ objects' = Without({o}) /\ Spend("delete")
        /\ reapers' = [r \in Reapers |-> IF o = r THEN NoReaper ELSE reapers[r]]
    BY DEF Inv, Delete, userVars, passVars
  <1>2. budget' \in [Charges -> Int] /\ budget'["delete"] < budget["delete"]
    BY <1>1, Spent DEF Charges
  <1>3. NoReaper \in [run : Contents, next : Contents]
        /\ NoReaper.run = NoContent /\ NoReaper.next = NoContent
    BY NoContentType DEF NoReaper
  <1>4. pods' \in PodStates
    BY <1>1, NoContentType DEF Delete, TypeInv, PodStates
  <1>5. DOMAIN objects' \subseteq DOMAIN objects /\ objects' \in [DOMAIN objects' -> Contents]
        /\ \A q \in DOMAIN objects' : objects'[q] = objects[q]
    BY <1>1 DEF Without, TypeInv
  <1>6. TypeInv'
    BY <1>1, <1>2, <1>3, <1>4, <1>5 DEF TypeInv
  <1>7. NeedsInv'
    <2>1. budget["delete"] <= scenario.budget["delete"] /\ budget["delete"] \in Int
          /\ scenario.budget["delete"] \in Int
      BY <1>1, ScenarioType DEF Inv, NeedsInv, TypeInv
    <2>2. budget'["delete"] \in Int /\ budget'["delete"] < scenario'.budget["delete"]
      BY <1>1, <1>2, <2>1 DEF Charges
    <2>. QED BY <2>1, <2>2, <1>1 DEF NeedsInv, Untouched
  <1>8. ImagesInv' /\ FirstInv' /\ Defaulted'
    BY <1>1, <1>3, <1>5 DEF Inv, ImagesInv, FirstInv, Defaulted, Exists, Reapers
  <1>. QED BY <1>6, <1>7, <1>8 DEF Inv

\* A change of an object leaves the parts of the spec that its pods are made from.
LEMMA TamperStep ==
  ASSUME Inv, NEW o \in Owned, Tamper(o)
  PROVE  Inv'
  <1>1. /\ TypeInv /\ UNCHANGED <<scenario, edition, spec, status, schema, pos, cur, pods, reapers>>
        /\ objects' = [objects EXCEPT ![o].images = <<2>> \o @] /\ Spend("tamper")
        /\ Exists(o) /\ o \notin Reapers
    BY DEF Inv, Tamper, userVars, runVars, passVars
  <1>2. budget' \in [Charges -> Int] /\ budget'["delete"] = budget["delete"]
    BY <1>1, Spent DEF Charges
  <1>3. o \in DOMAIN objects /\ objects[o] \in Contents /\ <<2>> \o objects[o].images \in Seq(0..2)
    BY <1>1, Images DEF Exists, TypeInv, Contents
  <1> DEFINE im == <<2>> \o objects[o].images
  <1>4. objects' = [objects EXCEPT ![o] = [objects[o] EXCEPT !.images = im]]
    BY <1>1
  <1> HIDE DEF im
  <1>5. [objects[o] EXCEPT !.images = im] \in Contents
        /\ [objects[o] EXCEPT !.images = im].parts = objects[o].parts
    BY <1>3 DEF Contents, im
  <1>6. DOMAIN objects' = DOMAIN objects /\ objects' \in [DOMAIN objects -> Contents]
    BY <1>1, <1>3, <1>4, <1>5 DEF TypeInv
  <1>7. \A q \in DOMAIN objects : objects'[q].parts = objects[q].parts
                                  /\ (q \in Reapers => objects'[q] = objects[q])
    BY <1>1, <1>3, <1>4, <1>5 DEF TypeInv
  <1>8. TypeInv'
    BY <1>1, <1>2, <1>6 DEF TypeInv
  <1>9. NeedsInv'
    <2>1. ASSUME NEW w \in {"sts", "prober"} \cup Reapers, Exists(w) PROVE Needs(w)' = Needs(w)
      BY <1>7, <2>1 DEF Needs, Exists
    <2>2. PassedExist => PassedExist'
      BY <1>1, <1>6 DEF PassedExist, Exists
    <2>. QED BY <1>1, <1>2, <1>6, <2>1, <2>2 DEF Inv, NeedsInv, Untouched, Exists
  <1>10. ImagesInv' /\ FirstInv' /\ Defaulted'
    BY <1>1, <1>6, <1>7 DEF Inv, ImagesInv, FirstInv, Defaulted, Exists
  <1>. QED BY <1>8, <1>9, <1>10 DEF Inv

-----------------------------------------------------------------------------
(* The objects a pass applies.                                             *)

\* What the step of an object does: the pass ends or goes on, and if it goes on and the object
\* is wanted it exists, with the content that was computed or one it had before.
LEMMA ReconcileMoves ==
  ASSUME Inv, NEW o \in Owned, ReconcileObject(o)
  PROVE  /\ \/ pos' = 0 /\ cur' = NoPass
            \/ /\ pos \in 1..37 /\ pos' = pos + 1 /\ cur' \in Cursors /\ cur'.spec = cur.spec
               /\ Wanted(o, cur.spec) => o \in DOMAIN objects'
         /\ status' \in BOOLEAN
         /\ \/ UNCHANGED objects
            \/ \E r \in {Remote, {}} :
                  objects' = [x \in DOMAIN objects \cup {o} |->
                                 IF x = o THEN Desired(o, cur.spec, cur.hosts, r) ELSE objects[x]]
         /\ budget' \in [Charges -> Int] /\ budget'["delete"] = budget["delete"]
  <1>1. TypeInv /\ cur \in Cursors /\ cur.ready \in BOOLEAN /\ status \in BOOLEAN
    BY DEF Inv, TypeInv, Cursors
  <1>2. pos \in 1..38 /\ Order[pos] = o
    BY <1>1, AtName DEF ReconcileObject
  <1>3. o = "podsCM" => pos # 38
    BY <1>2 DEF Order
  <1>4. ASSUME Advance
        PROVE  /\ \/ pos' = 0 /\ cur' = NoPass
                  \/ pos \in 1..37 /\ pos' = pos + 1 /\ cur' = cur
               /\ status' \in BOOLEAN
    BY <1>1, <1>2, <1>4, EndMoves, OrderLength DEF Advance, EndPass
  <1>5. CASE ~Wanted(o, cur.spec)
    BY <1>1, <1>4, <1>5 DEF ReconcileObject, TypeInv
  <1>6. CASE Wanted(o, cur.spec)
    <2>1. PICK r \in {Remote, {}} :
            LET d == Desired(o, cur.spec, cur.hosts, r) IN
            /\ Answer(o, r)
            /\ IF Rejected(o, d) \/ (o = "hostPortPolicy" /\ cur.hosts = {})
               THEN EndPass(cur.ready) /\ UNCHANGED <<objects, published>>
               ELSE /\ objects' = Applied(o, d)
                    /\ IF o = "podsCM"
                       THEN pos' = pos + 1 /\ cur' = [cur EXCEPT !.hosts = Snapshot] /\ UNCHANGED status
                       ELSE Advance
      BY <1>6 DEF ReconcileObject
    <2> DEFINE d == Desired(o, cur.spec, cur.hosts, r)
    <2>2. budget' \in [Charges -> Int] /\ budget'["delete"] = budget["delete"]
      <3>1. UNCHANGED budget \/ Spend("fault")
        BY <2>1 DEF Answer
      <3>. QED BY <1>1, <3>1, Spent DEF Charges, TypeInv
    <2>3. CASE EndPass(cur.ready) /\ UNCHANGED objects
      BY <1>1, <2>2, <2>3, EndMoves DEF EndPass
    <2>4. CASE /\ objects' = Applied(o, d)
               /\ IF o = "podsCM"
                  THEN pos' = pos + 1 /\ cur' = [cur EXCEPT !.hosts = Snapshot] /\ UNCHANGED status
                  ELSE Advance
      <3>1. \/ UNCHANGED objects /\ o \in DOMAIN objects
            \/ objects' = [x \in DOMAIN objects \cup {o} |-> IF x = o THEN d ELSE objects[x]]
        BY <2>4 DEF Applied, Exists
      <3>2. o \in DOMAIN objects'
        BY <3>1
      <3>3. Snapshot \subseteq Hosts
        BY <1>1 DEF Snapshot, TypeInv, PodStates
      <3>4. [cur EXCEPT !.hosts = Snapshot] \in Cursors
            /\ [cur EXCEPT !.hosts = Snapshot].spec = cur.spec
        BY <1>1, <3>3 DEF Cursors
      <3>5. /\ \/ pos' = 0 /\ cur' = NoPass
               \/ pos \in 1..37 /\ pos' = pos + 1 /\ cur' \in Cursors /\ cur'.spec = cur.spec
            /\ status' \in BOOLEAN
        <4>1. CASE o = "podsCM"
          <5>1. pos \in 1..37
            BY <1>2, <1>3, <4>1
          <5>2. pos' = pos + 1 /\ cur' = [cur EXCEPT !.hosts = Snapshot] /\ status' = status
            BY <2>4, <4>1
          <5>. QED BY <1>1, <3>4, <5>1, <5>2
        <4>2. CASE o # "podsCM"
          BY <1>1, <1>4, <2>4, <4>2
        <4>. QED BY <4>1, <4>2
      <3>. QED BY <2>2, <3>1, <3>2, <3>5
    <2>. QED BY <2>1, <2>3, <2>4
  <1>. QED BY <1>5, <1>6

\* When a workload is created the pass has come past what its pods need, and its spec has
\* asked for that.
LEMMA NeedsPassed ==
  ASSUME Inv, Untouched, NEW w \in {"sts", "prober"} \cup Reapers, At(w),
         NEW x, w = "sts" => x \subseteq getJavaAgent(cur.spec)
  PROVE  /\ w = "sts" => CassandraRBAC \cup cassandraVolumes(x) \subseteq DOMAIN objects
         /\ w = "prober" => ProberRBAC \subseteq DOMAIN objects
         /\ w \in Reapers => reaperVolumes \subseteq DOMAIN objects
  <1>1. pos \in 1..38 /\ Order[pos] = w
    BY AtName DEF Inv
  <1>2. /\ w = "sts" => pos = 21
        /\ w = "prober" => pos = 13
        /\ w \in Reapers => pos > 23
    BY <1>1, Positions, OrderLength DEF Reapers
  <1>3. ASSUME NEW o \in Prerequisites, NEW i \in 1..38, Order[i] = o, i < pos, Wanted(o, cur.spec)
        PROVE  o \in DOMAIN objects
    BY <1>3, OrderLength DEF Inv, NeedsInv, PassedExist, Exists
  <1>4. CASE w = "sts"
    <2>1. ASSUME NEW o \in CassandraRBAC \cup cassandraVolumes(x) PROVE o \in DOMAIN objects
      <3>1. o \in CassandraRBAC \cup {"authConfig", "maintenanceCM", "prometheusCM", "collectdCM",
                                      "cassandraCM", "podsCM"}
        BY DEF cassandraVolumes
      <3>2. PICK i \in 1..20 : Order[i] = o
        BY <3>1, Before
      <3>3. o \in Prerequisites
        BY <3>1 DEF Prerequisites
      <3>4. Wanted(o, cur.spec)
        <4>1. o = "prometheusCM" => "monitoring" \in cur.spec.on
          BY <1>4 DEF cassandraVolumes, CassandraRBAC, getJavaAgent
        <4>2. o = "collectdCM" => "monitoring" \in cur.spec.on /\ cur.spec.agent = "datastax"
          BY <1>4 DEF cassandraVolumes, CassandraRBAC, getJavaAgent
        <4>. QED BY <3>3, <4>1, <4>2, WantedPrerequisites
      <3>. QED BY <1>2, <1>3, <1>4, <3>2, <3>3, <3>4
    <2>. QED BY <1>4, <2>1 DEF Reapers
  <1>5. CASE w = "prober"
    <2>1. ASSUME NEW o \in ProberRBAC PROVE o \in DOMAIN objects
      <3>1. PICK i \in 1..12 : Order[i] = o
        BY Before
      <3>2. o \in Prerequisites /\ Wanted(o, cur.spec)
        BY WantedPrerequisites DEF Prerequisites, ProberRBAC
      <3>. QED BY <1>2, <1>3, <1>5, <3>1, <3>2
    <2>. QED BY <1>5, <2>1 DEF Reapers
  <1>6. CASE w \in Reapers
    <2>1. ASSUME NEW o \in reaperVolumes PROVE o \in DOMAIN objects
      <3>1. PICK i \in 1..23 : Order[i] = o
        BY Before DEF reaperVolumes
      <3>2. o \in Prerequisites /\ Wanted(o, cur.spec)
        BY WantedPrerequisites DEF Prerequisites, reaperVolumes
      <3>. QED BY <1>1, <1>2, <1>3, <1>6, <3>1, <3>2
    <2>. QED BY <1>6, <2>1 DEF Reapers
  <1>. QED BY <1>4, <1>5, <1>6

LEMMA ReconcileStep ==
  ASSUME Inv, NEW o \in Owned, ReconcileObject(o)
  PROVE  Inv'
  <1>1. TypeInv /\ UNCHANGED <<scenario, edition, spec, pods, reapers, schema>> /\ At(o)
    BY DEF Inv, ReconcileObject, userVars
  <1>2. pos \in 1..38 /\ Order[pos] = o /\ cur.spec \in Specs /\ cur.hosts \in SUBSET Hosts
        /\ cur.spec.images["reaper"] \in 1..2
    <2>1. pos \in 1..38 /\ Order[pos] = o
      BY <1>1, AtName
    <2>2. cur.spec \in Specs /\ cur.hosts \in SUBSET Hosts
      BY <1>1 DEF TypeInv, Cursors
    <2>3. cur.spec.images["reaper"] \in 1..2
      BY <2>1 DEF Inv, Defaulted
    <2>. QED BY <2>1, <2>2, <2>3
  <1>3. status' \in BOOLEAN /\ budget' \in [Charges -> Int] /\ budget'["delete"] = budget["delete"]
    BY ReconcileMoves
  <1>4. \/ pos' = 0 /\ cur' = NoPass
        \/ /\ pos \in 1..37 /\ pos' = pos + 1 /\ cur' \in Cursors /\ cur'.spec = cur.spec
           /\ Wanted(o, cur.spec) => o \in DOMAIN objects'
    BY ReconcileMoves
  <1>5. PICK r \in {Remote, {}} :
          \/ UNCHANGED objects
          \/ objects' = [x \in DOMAIN objects \cup {o} |->
                           IF x = o THEN Desired(o, cur.spec, cur.hosts, r) ELSE objects[x]]
    BY ReconcileMoves
  <1> DEFINE d == Desired(o, cur.spec, cur.hosts, r)
  <1>6. d \in Contents
    BY <1>2, DesiredType
  <1> HIDE DEF d
  <1>7. /\ DOMAIN objects \subseteq DOMAIN objects' /\ DOMAIN objects' \subseteq DOMAIN objects \cup {o}
        /\ objects' \in [DOMAIN objects' -> Contents]
        /\ \A x \in DOMAIN objects' : \/ x \in DOMAIN objects /\ objects'[x] = objects[x]
                                      \/ x = o /\ objects'[x] = d
    BY <1>1, <1>5, <1>6 DEF TypeInv, d
  <1>8. TypeInv'
    <2>1. pos' \in 0..Len(Order) /\ cur' \in Cursors
      BY <1>1, <1>4, NoPassType, OrderLength
    <2>. QED BY <1>1, <1>3, <1>7, <2>1 DEF TypeInv
  <1>9. Defaulted'
    BY <1>2, <1>4 DEF Defaulted
  <1>10. NeedsInv'
    <2> SUFFICES ASSUME Untouched' PROVE PassedExist' /\ \A w \in {"sts", "prober"} \cup Reapers :
                                            Exists(w)' => Needs(w)' \subseteq DOMAIN objects'
      BY <1>1, <1>3 DEF Inv, NeedsInv
    <2>1. Untouched
      BY <1>1, <1>3 DEF Untouched
    <2>2. PassedExist'
      <3> SUFFICES ASSUME NEW i \in 1..Len(Order), i < pos', Order[i] \in Prerequisites,
                          Wanted(Order[i], cur'.spec)
                   PROVE  Order[i] \in DOMAIN objects'
        BY DEF PassedExist, Wanted, Order, Exists
      <3>1. cur'.spec = cur.spec /\ pos' = pos + 1 /\ (Wanted(o, cur.spec) => o \in DOMAIN objects')
        BY <1>4, OrderLength
      <3>2. CASE i < pos
        <4>1. Order[i] \in DOMAIN objects
          BY <2>1, <3>1, <3>2 DEF Inv, NeedsInv, PassedExist, Exists
        <4>. QED BY <1>7, <4>1
      <3>3. CASE i = pos
        BY <1>2, <3>1, <3>3
      <3>. QED BY <1>2, <3>1, <3>2, <3>3, OrderLength
    <2>3. ASSUME NEW w \in {"sts", "prober"} \cup Reapers, Exists(w)'
          PROVE  Needs(w)' \subseteq DOMAIN objects'
      <3>1. CASE Exists(w) /\ objects'[w] = objects[w]
        <4>1. Needs(w)' = Needs(w)
          BY <3>1 DEF Needs
        <4>. QED BY <1>7, <2>1, <3>1, <4>1 DEF Inv, NeedsInv
      <3>2. CASE w = o /\ objects'[w] = d
        <4>1. w = "sts" => d.parts \cap {"tlp", "datastax"} \subseteq getJavaAgent(cur.spec)
          BY <1>2, <3>2, DesiredWorkloads, StatefulSetContent DEF d
        <4> DEFINE x == d.parts \cap {"tlp", "datastax"}
        <4>2. cassandraVolumes(d.parts) = cassandraVolumes(x)
          BY DEF cassandraVolumes
        <4> HIDE DEF x
        <4>3. /\ w = "sts" => CassandraRBAC \cup cassandraVolumes(x) \subseteq DOMAIN objects
              /\ w = "prober" => ProberRBAC \subseteq DOMAIN objects
              /\ w \in Reapers => reaperVolumes \subseteq DOMAIN objects
          BY <1>1, <2>1, <3>2, <4>1, NeedsPassed DEF x
        <4>4. /\ w = "sts" => Needs(w)' = CassandraRBAC \cup cassandraVolumes(d.parts)
              /\ w = "prober" => Needs(w)' = ProberRBAC
              /\ w \in Reapers => Needs(w)' = reaperVolumes
          BY <3>2 DEF Needs, Reapers, reaperVolumes
        <4>. QED BY <1>7, <4>2, <4>3, <4>4
      <3>. QED BY <1>7, <2>3, <3>1, <3>2 DEF Exists
    <2>. QED BY <2>2, <2>3
  <1>11. ImagesInv'
    <2>1. o \in Reapers => d # NoContent /\ d.images[1] \in 1..2
      <3>1. o \in Reapers => d = reaperDeployment(cur.spec, cur.hosts)
        BY DesiredWorkloads DEF d
      <3>. QED BY <1>2, <3>1, ReaperContent
    <2>. QED BY <1>1, <1>7, <2>1 DEF Inv, ImagesInv, Exists
  <1>12. FirstInv'
    <2> SUFFICES ASSUME schema = 0 PROVE pos' <= 27 /\ "reaper2" \notin DOMAIN objects'
      BY <1>1 DEF Inv, FirstInv, Exists
    <2>1. pos <= 27 /\ "reaper2" \notin DOMAIN objects
      BY DEF Inv, FirstInv, Exists
    <2>2. pos # 27 /\ o # "reaper2"
      <3>1. Order[27] = "firstReaper" /\ Order[28] = "reaper2"
        BY DEF Order
      <3>2. "firstReaper" \notin Owned
        BY DEF Owned, Waits
      <3>. QED BY <1>2, <2>1, <3>1, <3>2, Positions, OrderLength
    <2>. QED BY <1>2, <1>4, <1>7, <2>1, <2>2
  <1>. QED BY <1>8, <1>9, <1>10, <1>11, <1>12 DEF Inv

LEMMA StepInv == Inv /\ [Next]_vars => Inv'
  <1> SUFFICES ASSUME Inv, [Next]_vars PROVE Inv'
    OBVIOUS
  <1>1. CASE Pass
    <2>1. {"cassandraMonitor", "proberMonitor", "reaperMonitor"} = Monitors
      BY DEF Monitors
    <2>. QED BY <1>1, <2>1, CleanupStep, WaitSteps, ReconcileStep
         DEF Pass, reconcileCassandraServiceMonitor, reconcileProberServiceMonitor,
             reconcileReaperServiceMonitor
  <1>2. CASE UNCHANGED vars
    <2>1. Others /\ Moves /\ Fewer /\ UNCHANGED <<reapers, schema>>
      BY <1>2, SameObjects DEF vars, userVars, storeVars, runVars, passVars, Others, Moves, Inv, TypeInv
    <2>. QED BY <2>1, QuietStep
  <1>. QED
    BY <1>1, <1>2, BeginStep, WaitSteps, PodSteps, ReaperSteps, DeleteStep, TamperStep DEF Next

-----------------------------------------------------------------------------
(* The theorems.                                                           *)

\* Whichever call fails, however the spec changes and whatever others change in the objects:
\* as long as nothing is deleted, the statefulset, the prober and the Reapers exist only with
\* the config maps, roles and accounts their pods refer to (reconcileWithContext's order).
THEOREM WorkloadsHaveNeeds == Spec => []NeedsFirst
  <1>1. Inv => NeedsFirst
    BY DEF Inv, NeedsInv, Untouched, NeedsFirst
  <1>. QED BY <1>1, InitInv, StepInv, PTL DEF Spec

\* Whatever fails or is deleted: until a Reaper has set up the schema no second one starts
\* (reconcileReaper waits for the first deployment).
THEOREM OneReaperFirst == Spec => []FirstMigration
  <1>1. Inv => FirstMigration
    <2> SUFFICES ASSUME Inv, schema = 0 PROVE Cardinality(Starting) <= 1
      BY DEF FirstMigration
    <2>1. Starting \subseteq {"reaper1"}
      BY DEF Starting, Reapers, Inv, FirstInv
    <2>2. Starting = {} \/ Starting = {"reaper1"}
      BY <2>1
    <2>3. Cardinality(Starting) = 0 \/ Cardinality(Starting) = 1
      BY <2>2, FS_EmptySet, FS_Singleton
    <2>. QED BY <2>3
  <1>. QED BY <1>1, InitInv, StepInv, PTL DEF Spec

=============================================================================
