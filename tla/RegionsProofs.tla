--------------------------- MODULE RegionsProofs ---------------------------
(***************************************************************************)
(* Proofs about Regions, for every number of regions and DCs and however   *)
(* often probers restart, requests fail or are refused, operators crash    *)
(* and pods are replaced:                                                  *)
(*   - only one region starts its Reaper before one is up;                 *)
(*   - the regions start their nodes in order;                             *)
(*   - with two regions or more, the nodes form one ring.                  *)
(***************************************************************************)
EXTENDS Regions, FiniteSetTheorems, WellFoundedInduction, TLAPS

-----------------------------------------------------------------------------
(* The inductive invariant.                                                *)

Addresses == Nodes \cup {NoAddress}
PCs == {"idle", "list", "seeds", "order", "dcs", "check", "regions", "reaper", "deploy", "drop"}
Probers == [dcs : BOOLEAN, seeds : SUBSET Addresses, region : BOOLEAN, reaper : BOOLEAN]
Entries == [go : BOOLEAN, seeds : SUBSET Addresses]
Passes == [pc : PCs, managed : SUBSET Regions, list : SUBSET Nodes, seeds : SUBSET Addresses,
           todo : SUBSET Regions, unready : SUBSET Nodes, status : SUBSET Regions]

\* The variables the proofs are about.
TypeInv ==
    /\ managed \in [Regions -> SUBSET Regions]
    /\ prober \in [Regions -> Probers]
    /\ phase \in [Nodes -> {"absent", "pending", "waiting", "starting", "up"}]
    /\ entry \in [Nodes -> Entries]
    /\ started \subseteq Nodes /\ joined \subseteq Nodes
    /\ reaper \in [Regions -> {"none", "starting", "up"}]
    /\ pass \in [Regions -> Passes]

\* All nodes of a region have joined the ring: nothing undoes that.
Full(r) == DCsOf[r] \subseteq joined

\* What the phase of a pod says of its node.
NodeInv ==
    /\ joined \subseteq started
    /\ \A d \in Nodes :
          /\ phase[d] = "absent" => ~entry[d].go /\ d \notin started
          /\ phase[d] = "starting" => d \in started
          /\ phase[d] = "up" => d \in joined

\* A region that does not name all the others ran before them.
ManagedInv == \A r \in Regions : managed[r] # Others(r) => Full(r)

\* A prober may have lost what it was told, but what it tells is true.
ProberInv ==
    \A r \in Regions :
        /\ prober[r].region => Full(r)
        /\ prober[r].reaper => reaper[r] = "up"
        /\ prober[r].seeds # {} => prober[r].seeds \cap DCsOf[r] # {}

\* What a pass read remains true until it writes the entries of the pods it
\* listed; a seed it did not see had no pod then, and cannot start before.
PassInv(r, p) ==
    /\ p.pc # "idle" => p.managed = Others(r) \/ Full(r)
    /\ \A s \in p.status : Full(s)
    /\ p.list \subseteq DCsOf[r] /\ \A d \in p.list : phase[d] # "absent"
    /\ p.pc \notin {"seeds", "order"} => p.list = {}
    /\ p.list # {} =>
          \A d \in DCsOf[r] : d \in p.seeds \/ (d \notin p.list \cup started /\ ~entry[d].go)
    /\ p.pc = "seeds" => \A s \in p.managed \ p.todo : p.seeds \cap DCsOf[s] # {}
    /\ p.pc = "order" /\ p.list # {} =>
          /\ \A s \in p.managed : p.seeds \cap DCsOf[s] # {}
          /\ p.unready \subseteq DCsOf[r] /\ DCsOf[r] \ p.unready \subseteq joined

PassesInv == \A r \in Regions : PassInv(r, pass[r])

\* A node that may start for the first time: it is the turn of its region.
TurnInv ==
    \A d \in Nodes : entry[d].go /\ d \notin started =>
        \A s \in Regions : s < RegionOf(d) => Full(s)

Inv == TypeInv /\ NodeInv /\ ManagedInv /\ ProberInv /\ PassesInv /\ TurnInv

SomeUp == \E r \in Regions : reaper[r] = "up"
\* Until some Reaper is up all passes agree on the first region, and only that
\* one gets as far as its Reaper.
ReaperInv ==
    \/ SomeUp
    \/ \A r \in Regions :
          /\ managed[r] = Others(r)
          /\ pass[r].pc # "idle" => pass[r].managed = Others(r)
          /\ pass[r].pc = "deploy" \/ reaper[r] = "starting" => r = Least(Regions)

\* The node that founds the ring, and whether there is a ring.
FirstNode == Least(DCsOf[Least(Regions)])
Founded == FirstNode \in joined \/ \E r \in Regions : Full(r)

\* Before there is a ring only the first node may start, and once there is one
\* every node that may start knows a member of it.
RingInv ==
    /\ ~Founded => started \subseteq {FirstNode} /\ \A d \in Nodes : entry[d].go => d = FirstNode
    /\ Founded => \A d \in Nodes : entry[d].go /\ d \notin started => entry[d].seeds \cap joined # {}

-----------------------------------------------------------------------------
(* The operators.                                                          *)

\* A set of numbers that is not empty has a least one.
LEMMA LeastOf ==
  ASSUME NEW S \in SUBSET Nat, S # {}
  PROVE  Least(S) \in S /\ \A y \in S : Least(S) <= y
  <1> DEFINE R == OpToRel(<, Nat)
  <1>1. IsWellFoundedOn(R, Nat)
    BY NatLessThanWellFounded
  <1>2. \A x, y \in Nat : <<y, x>> \notin R => x <= y
    BY DEF OpToRel
  <1> HIDE DEF R
  <1>3. PICK x \in S : \A y \in S : <<y, x>> \notin R
    BY <1>1, WFMin
  <1>4. \A y \in S : x <= y
    BY <1>2, <1>3
  <1>. QED BY <1>4 DEF Least

\* A DC has one region.
LEMMA RegionOfDC ==
  ASSUME NEW r \in Regions, NEW d \in DCsOf[r]
  PROVE  d \in Nodes /\ RegionOf(d) = r
  <1>1. d \in Nodes
    BY DEF Nodes
  <1>2. \A s \in Regions : d \in DCsOf[s] => s = r
    BY RegionsAssumption
  <1>. QED BY <1>1, <1>2 DEF RegionOf

LEMMA NodeRegion ==
  ASSUME NEW d \in Nodes
  PROVE  RegionOf(d) \in Regions /\ d \in DCsOf[RegionOf(d)]
  <1>1. PICK r \in Regions : d \in DCsOf[r]
    BY DEF Nodes
  <1>. QED BY <1>1, RegionOfDC

LEMMA DCNumbers ==
  ASSUME NEW r \in Regions
  PROVE  DCsOf[r] \subseteq Nodes /\ DCsOf[r] \subseteq Nat /\ DCsOf[r] # {} /\ r \in Nat
  BY RegionsAssumption DEF Nodes

\* A region is never its own neighbour.
LEMMA OthersOf ==
  ASSUME NEW r \in Regions
  PROVE  Others(r) \in SUBSET Regions /\ r \notin Others(r) /\ Others(r) \cup {r} = Regions
  BY DEF Others

LEMMA Constants ==
  /\ EmptyProber \in Probers
  /\ NoEntry \in Entries /\ NoEntry.go = FALSE
  /\ Idle \in Passes
  BY DEF EmptyProber, Probers, NoEntry, Entries, Idle, Passes, PCs

\* A pass that has ended, has begun or goes on without the pods says nothing of them.
LEMMA IdlePass ==
  ASSUME NEW r \in Regions
  PROVE  PassInv(r, Idle)
  BY DEF PassInv, Idle

-----------------------------------------------------------------------------
(* The invariant holds initially.                                          *)

LEMMA InitInv == Init => Inv
  <1> SUFFICES ASSUME Init PROVE Inv
    OBVIOUS
  <1>1. PICK s \in Scenarios : Init!(s)
    BY DEF Init
  <1> DEFINE running == s.running
             nodes == UNION {DCsOf[r] : r \in running}
  <1>2. running \subseteq Regions /\ nodes \subseteq Nodes
    BY RegionsAssumption DEF Nodes
  <1>3. \A r \in running : DCsOf[r] \subseteq nodes
    OBVIOUS
  <1>4. /\ managed = [r \in Regions |-> IF r \in running THEN {} ELSE Others(r)]
        /\ prober = [r \in Regions |->
              IF r \in running
              THEN [dcs |-> TRUE, seeds |-> DCsOf[r], region |-> TRUE, reaper |-> TRUE]
              ELSE EmptyProber]
        /\ phase = [d \in Nodes |-> IF d \in nodes THEN "up" ELSE "absent"]
        /\ entry = [d \in Nodes |-> IF d \in nodes THEN [go |-> TRUE, seeds |-> nodes] ELSE NoEntry]
        /\ started = nodes /\ joined = nodes
        /\ reaper = [r \in Regions |-> IF r \in running THEN "up" ELSE "none"]
        /\ pass = [r \in Regions |-> Idle]
    BY <1>1
  <1> HIDE DEF running, nodes
  <1>5. TypeInv
    BY <1>2, <1>4, Constants, OthersOf, DCNumbers DEF TypeInv, Probers, Entries, Addresses
  <1>6. NodeInv /\ TurnInv
    BY <1>2, <1>4, Constants DEF NodeInv, TurnInv
  <1>7. ManagedInv
    BY <1>2, <1>3, <1>4 DEF ManagedInv, Full
  <1>8. ProberInv
    BY <1>2, <1>3, <1>4, DCNumbers DEF ProberInv, Full, EmptyProber
  <1>9. PassesInv
    BY <1>4, IdlePass DEF PassesInv
  <1>. QED BY <1>5, <1>6, <1>7, <1>8, <1>9 DEF Inv

-----------------------------------------------------------------------------
(* Steps that leave the pods alone.                                        *)

\* What a prober may be told of its region.
ProberOK(r, q) ==
    /\ q \in Probers
    /\ q.region => Full(r)
    /\ q.reaper => reaper[r] = "up"
    /\ q.seeds # {} => q.seeds \cap DCsOf[r] # {}

\* The prober of r is told what is true, or nothing, and no Reaper goes down.
ProberStep(r) ==
    /\ \/ UNCHANGED prober
       \/ \E q \in Probers : ProberOK(r, q) /\ prober' = [prober EXCEPT ![r] = q]
    /\ reaper' \in [Regions -> {"none", "starting", "up"}]
    /\ \A s \in Regions : reaper[s] = "up" => reaper'[s] = "up"

LEMMA PutStep ==
  ASSUME NEW r \in Regions, NEW q, ProberOK(r, q), Put(r, q), TypeInv, UNCHANGED reaper
  PROVE  ProberStep(r)
  BY DEF Put, Spend, ProberStep, ProberOK, TypeInv

LEMMA SameProbers ==
  ASSUME NEW r \in Regions, UNCHANGED <<prober, reaper>>, TypeInv
  PROVE  ProberStep(r)
  BY DEF ProberStep, TypeInv

LEMMA QuietStep ==
  ASSUME Inv, UNCHANGED <<managed, podVars>>,
         NEW r \in Regions, NEW p \in Passes, PassInv(r, p),
         pass' = [pass EXCEPT ![r] = p], ProberStep(r)
  PROVE  Inv'
  <1>1. UNCHANGED <<phase, entry, started, joined>> /\ \A s : Full(s)' = Full(s)
    BY DEF podVars, Full
  <1>2. TypeInv'
    BY <1>1 DEF Inv, TypeInv, ProberStep
  <1>3. NodeInv' /\ ManagedInv' /\ TurnInv'
    BY <1>1 DEF Inv, NodeInv, ManagedInv, TurnInv, Full
  <1>4. ProberInv'
    <2> SUFFICES ASSUME NEW s \in Regions
                 PROVE  /\ prober'[s].region => Full(s)
                        /\ prober'[s].reaper => reaper'[s] = "up"
                        /\ prober'[s].seeds # {} => prober'[s].seeds \cap DCsOf[s] # {}
      BY <1>1 DEF ProberInv
    <2>1. CASE prober'[s] = prober[s]
      BY <2>1 DEF Inv, ProberInv, ProberStep
    <2>2. CASE \E q \in Probers : ProberOK(s, q) /\ prober'[s] = q
      BY <2>2 DEF ProberOK, ProberStep
    <2>. QED BY <2>1, <2>2 DEF Inv, TypeInv, ProberStep
  <1>5. PassesInv'
    <2> SUFFICES ASSUME NEW s \in Regions PROVE PassInv(s, pass[s])'
      BY DEF PassesInv
    <2>1. PassInv(s, pass'[s])
      BY DEF Inv, TypeInv, PassesInv
    <2>. QED BY <1>1, <2>1 DEF PassInv, Full
  <1>. QED BY <1>2, <1>3, <1>4, <1>5 DEF Inv

\* A pass that ends, for whatever reason.
LEMMA EndStep ==
  ASSUME Inv, UNCHANGED <<managed, podVars>>, NEW r \in Regions,
         pass' = [pass EXCEPT ![r] = Idle], ProberStep(r)
  PROVE  Inv'
  BY QuietStep, IdlePass, Constants

LEMMA SamePass ==
  ASSUME Inv, UNCHANGED <<managed, podVars, pass>>, NEW r \in Regions, ProberStep(r)
  PROVE  Inv'
  <1>1. pass[r] \in Passes /\ PassInv(r, pass[r]) /\ pass' = [pass EXCEPT ![r] = pass[r]]
    BY DEF Inv, TypeInv, PassesInv
  <1>. QED BY <1>1, QuietStep

-----------------------------------------------------------------------------
(* The pass.                                                               *)

LEMMA BeginSteps ==
  ASSUME Inv, NEW r \in Regions, FirstPass(r) \/ StartPass(r)
  PROVE  Inv'
  <1>1. CASE FirstPass(r)
    <2>1. UNCHANGED <<managed, podVars, pass, prober, reaper>>
      BY <1>1 DEF FirstPass, userVars
    <2>. QED BY <2>1, SameProbers, SamePass DEF Inv
  <1>2. CASE StartPass(r)
    <2> DEFINE p == [Idle EXCEPT !.pc = "list", !.managed = managed[r]]
               q == [prober[r] EXCEPT !.dcs = TRUE]
    <2>1. p \in Passes /\ PassInv(r, p)
      BY DEF Inv, TypeInv, ManagedInv, PassInv, Passes, PCs, Idle
    <2>2. ProberOK(r, q)
      BY DEF Inv, TypeInv, ProberInv, ProberOK, Probers
    <2>3. pass' = [pass EXCEPT ![r] = p] /\ Put(r, q) /\ UNCHANGED <<managed, podVars, reaper>>
      BY <1>2 DEF StartPass, Go, userVars
    <2> HIDE DEF p, q
    <2>. QED BY <2>1, <2>2, <2>3, PutStep, QuietStep DEF Inv
  <1>. QED BY <1>1, <1>2

\* A seed without a pod has neither an entry nor a node: an entry is written for
\* the pods of the list only.
LEMMA PublishStep ==
  ASSUME Inv, NEW r \in Regions, PublishSeeds(r)
  PROVE  Inv'
  <1> DEFINE list == {d \in DCsOf[r] : phase[d] # "absent"}
             seeds == {IF d \in list THEN d ELSE NoAddress : d \in DCsOf[r]}
             none == [pass[r] EXCEPT !.pc = "order"]
             p == [pass[r] EXCEPT !.pc = "seeds", !.list = list, !.seeds = seeds,
                                  !.todo = pass[r].managed]
             q == [prober[r] EXCEPT !.seeds = seeds]
  <1>1. UNCHANGED <<managed, podVars, reaper>> /\ pass[r].pc = "list"
    BY DEF PublishSeeds, userVars, At
  <1>2. pass[r] \in Passes /\ PassInv(r, pass[r]) /\ prober[r] \in Probers
    BY DEF Inv, TypeInv, PassesInv
  <1>3. list \subseteq Nodes /\ seeds \subseteq Addresses /\ list \subseteq seeds
    BY DCNumbers DEF Addresses
  <1>4a. list # {} => ProberOK(r, q)
    <2> SUFFICES ASSUME list # {} PROVE ProberOK(r, q)
      OBVIOUS
    <2>1. seeds \cap DCsOf[r] # {}
      BY <1>3
    <2> HIDE DEF seeds
    <2>. QED BY <1>2, <1>3, <2>1 DEF Inv, ProberInv, ProberOK, Probers
  <1>4. CASE pass' = [pass EXCEPT ![r] = none] /\ UNCHANGED prober
    <2>1. none \in Passes /\ PassInv(r, none)
      BY <1>1, <1>2 DEF PassInv, Passes, PCs
    <2>. QED BY <1>1, <1>4, <2>1, SameProbers, QuietStep DEF Inv
  <1>5. CASE End(r, FALSE) /\ UNCHANGED prober
    BY <1>1, <1>5, SameProbers, EndStep DEF End, Inv
  <1>6. CASE list # {} /\ pass' = [pass EXCEPT ![r] = p] /\ Put(r, q)
    <2>1. p \in Passes
      BY <1>2, <1>3 DEF Passes, PCs
    <2>2. \A d \in DCsOf[r] : d \in seeds \/ (d \notin list \cup started /\ ~entry[d].go)
      BY DCNumbers DEF Inv, NodeInv
    <2>3. PassInv(r, p)
      <3> HIDE DEF seeds
      <3>. QED BY <1>1, <1>2, <2>2 DEF PassInv, Passes
    <2> HIDE DEF p, q
    <2>. QED BY <1>1, <1>4a, <1>6, <2>1, <2>3, PutStep, QuietStep DEF Inv
  <1>7. CASE list # {} /\ End(r, FALSE) /\ Put(r, q)
    <2> HIDE DEF p, q
    <2>1. ProberStep(r)
      BY <1>1, <1>4a, <1>7, PutStep DEF Inv
    <2>. QED BY <1>1, <1>7, <2>1, EndStep DEF End
  <1>. QED BY <1>4, <1>5, <1>6, <1>7 DEF PublishSeeds, Go

\* What a step of a pass after the pods' entries does to it.
LEMMA LaterPass ==
  ASSUME Inv, NEW r \in Regions, NEW p \in Passes,
         pass[r].pc \notin {"idle", "list", "seeds", "order"},
         p.pc \notin {"seeds", "order"}, p.managed = pass[r].managed,
         p.list = pass[r].list, p.status = pass[r].status
  PROVE  PassInv(r, p)
  <1>1. PassInv(r, pass[r])
    BY DEF Inv, PassesInv
  <1>. QED BY <1>1 DEF PassInv

LEMMA OrderSteps ==
  ASSUME Inv, NEW r \in Regions,
         LocalStatus(r) \/ \E s \in Regions : GetSeeds(r, s) \/ GetStatus(r, s)
  PROVE  Inv'
  <1>1. pass[r] \in Passes /\ PassInv(r, pass[r])
    BY DEF Inv, TypeInv, PassesInv
  <1>2. CASE LocalStatus(r)
    <2> DEFINE p == [pass[r] EXCEPT !.pc = "order", !.todo = pass[r].managed, !.unready = unreadyDCs(r)]
    <2>1. UNCHANGED <<managed, podVars, prober, reaper>> /\ pass' = [pass EXCEPT ![r] = p]
      BY <1>2 DEF LocalStatus, userVars, Go
    <2>2. unreadyDCs(r) \subseteq DCsOf[r] /\ DCsOf[r] \ unreadyDCs(r) \subseteq joined
      BY DCNumbers DEF unreadyDCs, NodeReady, Inv, NodeInv
    <2>3. pass[r].pc = "seeds" /\ pass[r].todo = {}
      BY <1>2 DEF LocalStatus, Asked, At
    <2>4. p \in Passes
      BY <1>1, <2>2, DCNumbers DEF Passes, PCs
    <2>5. PassInv(r, p)
      BY <1>1, <2>2, <2>3 DEF PassInv, Passes
    <2> HIDE DEF p
    <2>. QED BY <2>1, <2>4, <2>5, SameProbers, QuietStep DEF Inv
  <1>3. ASSUME NEW s \in Regions, GetSeeds(r, s) PROVE Inv'
    <2> DEFINE p == [Answered(r, s) EXCEPT !.seeds = @ \cup prober[s].seeds]
    <2>1. UNCHANGED <<managed, podVars, prober, reaper>> /\ pass[r].pc = "seeds"
      BY <1>3 DEF GetSeeds, userVars, Asks, At
    <2>2. CASE HasSeeds(s) /\ pass' = [pass EXCEPT ![r] = p]
      <3>1. prober[s].seeds \subseteq Addresses /\ prober[s].seeds \cap DCsOf[s] # {}
        BY <2>2 DEF HasSeeds, Inv, ProberInv, TypeInv, Probers
      <3>2. p \in Passes
        BY <1>1, <3>1 DEF Answered, Passes
      <3>3. PassInv(r, p)
        BY <1>1, <2>1, <3>1 DEF PassInv, Answered, Passes
      <3> HIDE DEF p
      <3>. QED BY <2>1, <2>2, <3>2, <3>3, SameProbers, QuietStep DEF Inv
    <2>3. CASE End(r, FALSE)
      BY <2>1, <2>3, SameProbers, EndStep DEF End, Inv
    <2>. QED BY <1>3, <2>2, <2>3 DEF GetSeeds, Go
  <1>4. ASSUME NEW s \in Regions, GetStatus(r, s) PROVE Inv'
    <2> DEFINE p == [Answered(r, s) EXCEPT !.status = IF prober[s].region THEN @ \cup {s} ELSE @]
    <2>1. UNCHANGED <<managed, podVars, prober, reaper>> /\ pass[r].pc = "order"
      BY <1>4 DEF GetStatus, userVars, Asks, At
    <2>2. CASE pass' = [pass EXCEPT ![r] = p]
      <3>1. prober[s].region => Full(s)
        BY DEF Inv, ProberInv
      <3>2. p \in Passes
        BY <1>1 DEF Answered, Passes
      <3>3. PassInv(r, p)
        BY <1>1, <2>1, <3>1 DEF PassInv, Answered, Passes
      <3> HIDE DEF p
      <3>. QED BY <2>1, <2>2, <3>2, <3>3, SameProbers, QuietStep DEF Inv
    <2>3. CASE End(r, FALSE)
      BY <2>1, <2>3, SameProbers, EndStep DEF End, Inv
    <2>. QED BY <1>4, <2>2, <2>3 DEF GetStatus, Go
  <1>. QED BY <1>2, <1>3, <1>4

\* The answers of other regions' probers after the config map was written, and the
\* decisions about Reaper.
LEMMA WaitSteps ==
  ASSUME Inv, NEW r \in Regions,
         \/ SystemAuthIfReady(r) \/ FirstRegionReaper(r) \/ AdminRole(r) \/ DropDefaultRole(r)
         \/ \E s \in Regions : GetDCs(r, s) \/ GetRegionReady(r, s)
  PROVE  Inv'
  <1>1. pass[r] \in Passes
    BY DEF Inv, TypeInv
  <1>2. UNCHANGED <<managed, podVars, prober, reaper>>
    BY DEF SystemAuthIfReady, FirstRegionReaper, AdminRole, DropDefaultRole, GetDCs,
       GetRegionReady, userVars
  <1>3. pass[r].pc \notin {"idle", "list", "seeds", "order"}
    BY DEF SystemAuthIfReady, FirstRegionReaper, AdminRole, DropDefaultRole, GetDCs,
       GetRegionReady, Asks, Asked, At
  <1>4. CASE pass' = [pass EXCEPT ![r] = Idle]
    BY <1>2, <1>4, SameProbers, EndStep DEF Inv
  <1>5. CASE \E c \in {"check", "reaper", "deploy"} :
               pass' = [pass EXCEPT ![r] = [pass[r] EXCEPT !.pc = c]]
    <2>1. PICK c \in {"check", "reaper", "deploy"} :
               pass' = [pass EXCEPT ![r] = [pass[r] EXCEPT !.pc = c]]
      BY <1>5
    <2> DEFINE p == [pass[r] EXCEPT !.pc = c]
    <2>2. p \in Passes /\ PassInv(r, p)
      <3>1. p \in Passes
        BY <1>1 DEF Passes, PCs
      <3>. QED BY <1>1, <1>3, <3>1, LaterPass DEF Passes
    <2> HIDE DEF p
    <2>. QED BY <1>2, <2>1, <2>2, SameProbers, QuietStep DEF Inv, p
  <1>6. CASE \E s \in Regions : pass' = [pass EXCEPT ![r] = Answered(r, s)]
    <2>1. PICK s \in Regions : pass' = [pass EXCEPT ![r] = Answered(r, s)]
      BY <1>6
    <2>2. Answered(r, s) \in Passes /\ PassInv(r, Answered(r, s))
      <3>1. Answered(r, s) \in Passes
        BY <1>1 DEF Answered, Passes
      <3>. QED BY <1>1, <1>3, <3>1, LaterPass DEF Passes, Answered
    <2>. QED BY <1>2, <2>1, <2>2, SameProbers, QuietStep DEF Inv
  <1>. QED
    BY <1>4, <1>5, <1>6 DEF SystemAuthIfReady, FirstRegionReaper, AdminRole, DropDefaultRole,
       GetDCs, GetRegionReady, Go, End

\* What a region publishes of itself is true.
LEMMA PublishStatusSteps ==
  ASSUME Inv, NEW r \in Regions, ClusterReady(r) \/ DeployReaper(r)
  PROVE  Inv'
  <1>1. pass[r] \in Passes /\ prober[r] \in Probers /\ ProberOK(r, prober[r])
    BY DEF Inv, TypeInv, ProberInv, ProberOK
  <1>2. UNCHANGED <<managed, podVars>>
    BY DEF ClusterReady, DeployReaper, userVars
  <1>3. CASE ClusterReady(r)
    <2> DEFINE p == [pass[r] EXCEPT !.pc = "regions", !.todo = pass[r].managed]
               q == [prober[r] EXCEPT !.region = (unreadyDCs(r) = {})]
    <2>1. unreadyDCs(r) = {} => Full(r)
      BY DCNumbers DEF unreadyDCs, NodeReady, Full, Inv, NodeInv
    <2>2. ProberOK(r, q)
      BY <1>1, <2>1 DEF ProberOK, Probers
    <2>3. ProberStep(r)
      <3> HIDE DEF q
      <3>. QED BY <1>3, <2>2, PutStep DEF ClusterReady, Inv, q
    <2>4. CASE pass' = [pass EXCEPT ![r] = p]
      <3>1. pass[r].pc = "check"
        BY <1>3 DEF ClusterReady, At
      <3>2. p \in Passes
        BY <1>1 DEF Passes, PCs
      <3>3. PassInv(r, p)
        BY <1>1, <3>1, <3>2, LaterPass DEF Passes
      <3> HIDE DEF p
      <3>. QED BY <1>2, <2>3, <2>4, <3>2, <3>3, QuietStep
    <2>5. CASE pass' = [pass EXCEPT ![r] = Idle]
      BY <1>2, <2>3, <2>5, EndStep
    <2>. QED BY <1>3, <2>4, <2>5 DEF ClusterReady, Go, End
  <1>4. CASE DeployReaper(r)
    <2>1. CASE reaper[r] = "up"
      <3> DEFINE p == [pass[r] EXCEPT !.pc = "drop"]
                 q == [prober[r] EXCEPT !.reaper = TRUE]
      <3>1. ProberOK(r, q)
        BY <1>1, <2>1 DEF ProberOK, Probers
      <3>2. Put(r, q) /\ pass' = [pass EXCEPT ![r] = p] /\ UNCHANGED reaper /\ pass[r].pc = "deploy"
        BY <1>4, <2>1 DEF DeployReaper, Go, At
      <3>3. p \in Passes
        BY <1>1 DEF Passes, PCs
      <3>4. PassInv(r, p)
        BY <1>1, <3>2, <3>3, LaterPass DEF Passes
      <3> HIDE DEF p, q
      <3>. QED BY <1>2, <3>1, <3>2, <3>3, <3>4, PutStep, QuietStep DEF Inv
    <2>2. CASE reaper[r] # "up"
      <3> DEFINE q == [prober[r] EXCEPT !.reaper = FALSE]
      <3>1. q \in Probers /\ ProberOK(r, q)
        BY <1>1 DEF ProberOK, Probers
      <3>2. prober' = prober \/ prober' = [prober EXCEPT ![r] = q]
        BY <1>4, <2>2 DEF DeployReaper, Put
      <3>3. /\ reaper' \in [Regions -> {"none", "starting", "up"}]
            /\ \A s \in Regions : reaper[s] = "up" => reaper'[s] = "up"
        BY <1>4, <2>2 DEF DeployReaper, Inv, TypeInv
      <3> HIDE DEF q
      <3>4. ProberStep(r)
        BY <3>1, <3>2, <3>3 DEF ProberStep
      <3>. QED BY <1>2, <1>4, <2>2, <3>4, EndStep DEF DeployReaper, End
    <2>. QED BY <2>1, <2>2
  <1>. QED BY <1>3, <1>4

\* Faults of the operator and its prober, Reaper and a user who creates a region.
LEMMA OutsideSteps ==
  ASSUME Inv, NEW r \in Regions,
         RequestFails(r) \/ CrashOperator(r) \/ RestartProber(r) \/ ReaperStarts(r) \/ CreateRegion(r)
  PROVE  Inv'
  <1>1. UNCHANGED <<managed, podVars>>
    BY DEF RequestFails, CrashOperator, RestartProber, ReaperStarts, CreateRegion, userVars
  <1>2. CASE RequestFails(r) \/ CrashOperator(r)
    BY <1>1, <1>2, SameProbers, EndStep DEF RequestFails, CrashOperator, End, Inv
  <1>3. CASE RestartProber(r)
    <2>1. ProberOK(r, EmptyProber)
      BY Constants DEF ProberOK, EmptyProber
    <2>2. ProberStep(r)
      BY <1>3, <2>1, Constants DEF RestartProber, ProberStep, Inv, TypeInv
    <2>. QED BY <1>1, <1>3, <2>2, SamePass DEF RestartProber
  <1>4. CASE ReaperStarts(r)
    BY <1>1, <1>4, SamePass DEF ReaperStarts, ProberStep, Inv, TypeInv
  <1>5. CASE CreateRegion(r)
    BY <1>1, <1>5, SameProbers, SamePass DEF CreateRegion, Inv
  <1>. QED BY <1>2, <1>3, <1>4, <1>5

-----------------------------------------------------------------------------
(* Steps that change the pods, or which regions are managed.               *)

LEMMA ConnectStep ==
  ASSUME Inv, NEW r \in Regions, Connect(r)
  PROVE  Inv'
  <1>1. /\ UNCHANGED <<prober, reaper, pass, phase, entry, started, joined>>
        /\ managed' = [managed EXCEPT ![r] = Others(r)]
    BY DEF Connect, podVars
  <1>2. TypeInv' /\ ManagedInv'
    BY <1>1, OthersOf DEF Inv, TypeInv, ManagedInv, Full
  <1>3. NodeInv' /\ TurnInv'
    BY <1>1 DEF Inv, NodeInv, TurnInv, Full
  <1>4. ProberInv' /\ PassesInv'
    BY <1>1 DEF Inv, ProberInv, PassesInv, PassInv, Full
  <1>. QED BY <1>2, <1>3, <1>4 DEF Inv

\* A node goes on: it may start, with an entry that lets it, or join.
LEMMA NodeSteps ==
  ASSUME Inv, NEW d \in Nodes, NodeStep(d)
  PROVE  Inv'
  <1>1. /\ UNCHANGED <<managed, prober, reaper, pass, entry>>
        /\ started \subseteq started' /\ joined \subseteq joined'
        /\ \A e \in started' \ started : entry[e].go
    BY DEF NodeStep, CreatePod, SchedulePod, StartNode, JoinRing, SetPhase, userVars
  <1>2. \A s \in Regions : Full(s) => Full(s)'
    BY <1>1 DEF Full
  <1>3. TypeInv'
    BY DEF NodeStep, CreatePod, SchedulePod, StartNode, JoinRing, SetPhase, userVars, Inv, TypeInv
  <1>4. NodeInv'
    BY DEF NodeStep, CreatePod, SchedulePod, StartNode, JoinRing, SetPhase, Inv, TypeInv, NodeInv
  <1>5. ManagedInv' /\ ProberInv'
    BY <1>1, <1>2 DEF Inv, ManagedInv, ProberInv
  <1>6. TurnInv'
    <2> SUFFICES ASSUME NEW e \in Nodes, entry[e].go, e \notin started',
                        NEW s \in Regions, s < RegionOf(e)
                 PROVE  Full(s)'
      BY <1>1 DEF TurnInv, RegionOf
    <2>. QED BY <1>1, <1>2 DEF Inv, TurnInv
  <1>7. \A e \in Nodes : phase[e] # "absent" => phase'[e] # "absent"
    BY DEF NodeStep, CreatePod, SchedulePod, StartNode, JoinRing, SetPhase, Inv, TypeInv
  <1>8. ASSUME NEW r \in Regions PROVE PassInv(r, pass[r])'
    <2>1. PassInv(r, pass[r]) /\ pass[r] \in Passes
      BY DEF Inv, PassesInv, TypeInv
    <2>2. pass[r].list # {} => \A e \in DCsOf[r] :
            e \in pass[r].seeds \/ (e \notin pass[r].list \cup started' /\ ~entry[e].go)
      BY <1>1, <2>1 DEF PassInv
    <2>3. \A s \in pass[r].status : Full(s)'
      BY <1>2, <2>1 DEF PassInv, Passes
    <2>. QED BY <1>1, <1>2, <1>7, <2>1, <2>2, <2>3 DEF PassInv, Passes
  <1>. QED BY <1>3, <1>4, <1>5, <1>6, <1>8 DEF Inv, PassesInv

\* The new pod has no entry, and the pass in flight writes none for it.
LEMMA ReplaceStep ==
  ASSUME Inv, NEW d \in Nodes, ReplacePod(d)
  PROVE  Inv'
  <1> DEFINE r == RegionOf(d)
             p == [pass[r] EXCEPT !.list = @ \ {d}]
  <1>1. /\ UNCHANGED <<managed, prober, reaper, started, joined>>
        /\ phase' = [phase EXCEPT ![d] = "pending"]
        /\ entry' = [entry EXCEPT ![d] = NoEntry]
        /\ pass' = [pass EXCEPT ![r] = p]
    BY DEF ReplacePod, userVars
  <1>2. r \in Regions /\ pass[r] \in Passes /\ p \in Passes
    <2>1. r \in Regions /\ pass[r] \in Passes
      BY NodeRegion DEF Inv, TypeInv
    <2>. QED BY <2>1 DEF Passes
  <1>3. TypeInv'
    BY <1>1, <1>2, Constants DEF Inv, TypeInv
  <1>4. NodeInv' /\ TurnInv'
    BY <1>1, Constants DEF Inv, TypeInv, NodeInv, TurnInv, RegionOf, Full
  <1>5. ManagedInv' /\ ProberInv'
    BY <1>1 DEF Inv, ManagedInv, ProberInv, Full
  <1>6. ASSUME NEW s \in Regions PROVE PassInv(s, pass[s])'
    <2>1. PassInv(s, pass[s])
      BY DEF Inv, PassesInv
    <2>2. /\ pass'[s].pc = pass[s].pc /\ pass'[s].managed = pass[s].managed
          /\ pass'[s].seeds = pass[s].seeds /\ pass'[s].todo = pass[s].todo
          /\ pass'[s].unready = pass[s].unready /\ pass'[s].status = pass[s].status
          /\ pass'[s].list \subseteq pass[s].list
      BY <1>1, <1>2 DEF Inv, TypeInv, Passes
    <2>3. \A e \in Nodes : /\ phase[e] # "absent" => phase'[e] # "absent"
                           /\ entry'[e].go => entry[e].go
      BY <1>1, Constants DEF Inv, TypeInv
    <2>4. pass'[s].list # {} => \A e \in DCsOf[s] :
            e \in pass[s].seeds \/ (e \notin pass'[s].list \cup started /\ ~entry'[e].go)
      BY <2>1, <2>2, <2>3, DCNumbers DEF PassInv
    <2>. QED BY <1>1, <2>1, <2>2, <2>3, <2>4, DCNumbers DEF PassInv, Full
  <1>. QED BY <1>3, <1>4, <1>5, <1>6 DEF Inv, PassesInv

\* pausePodInit lets a node start that has not been started when its region is not
\* full, the regions before it are, and it is the next of its region.
LEMMA GoesWhen ==
  ASSUME Inv, NEW r \in Regions, NEW d \in pass[r].list,
         pass[r].pc = "order", Goes(r, pass[r], d), d \notin started
  PROVE  /\ ~Full(r)
         /\ \A s \in Regions : s < r => Full(s)
         /\ Others(r) # {} => pass[r].managed = Others(r) /\ d = Least(pass[r].unready)
  <1> DEFINE p == pass[r]
  <1>1. p \in Passes /\ PassInv(r, p)
    BY DEF Inv, TypeInv, PassesInv
  <1>2. d \in DCsOf[r] /\ ~Full(r)
    BY <1>1 DEF PassInv, Full, Inv, NodeInv
  <1>3. p.managed = Others(r) /\ p.unready # {}
    BY <1>1, <1>2 DEF PassInv, Full
  <1>4. CASE Others(r) = {}
    BY <1>2, <1>4, DCNumbers DEF Others
  <1>5. CASE Others(r) # {}
    <2>1. getNextRegionToInit(r, p) = r /\ d = Least(p.unready)
      BY <1>3, <1>5 DEF Goes
    <2> DEFINE left == Regions \ p.status
    <2>2. Least(left) = r
      BY <1>3, <2>1, OthersOf DEF getNextRegionToInit
    <2>3. left \subseteq Nat /\ r \in left
      BY <1>1, <1>2, DCNumbers DEF PassInv
    <2>4. ASSUME NEW s \in Regions, s < r PROVE Full(s)
      <3>1. s \notin left
        BY <2>2, <2>3, <2>4, LeastOf
      <3>. QED BY <1>1, <3>1 DEF PassInv
    <2>. QED BY <1>2, <1>3, <2>1, <2>4
  <1>. QED BY <1>4, <1>5

LEMMA WriteStep ==
  ASSUME Inv, NEW r \in Regions, WriteConfig(r)
  PROVE  Inv'
  <1> DEFINE p == pass[r]
             next == [Idle EXCEPT !.pc = "dcs", !.managed = p.managed, !.todo = p.managed]
  <1>1. /\ UNCHANGED <<managed, prober, reaper, phase, started, joined>>
        /\ entry' = [d \in Nodes |->
              IF d \in p.list THEN [go |-> Goes(r, p, d), seeds |-> p.seeds] ELSE entry[d]]
        /\ pass' = [pass EXCEPT ![r] = next] /\ p.pc = "order"
    BY DEF WriteConfig, userVars, Go, Asked, At
  <1>2. p \in Passes /\ PassInv(r, p)
    BY DEF Inv, TypeInv, PassesInv
  <1>3. next \in Passes /\ PassInv(r, next)
    BY <1>1, <1>2 DEF PassInv, Passes, PCs, Idle
  <1>4. TypeInv'
    <2>1. \A d \in Nodes : Goes(r, p, d) \in BOOLEAN
      BY DEF Goes
    <2>2. entry' \in [Nodes -> Entries]
      BY <1>1, <1>2, <2>1 DEF Inv, TypeInv, Entries, Passes
    <2>. QED BY <1>1, <1>3, <2>2 DEF Inv, TypeInv
  <1>5. NodeInv'
    BY <1>1, <1>2 DEF Inv, NodeInv, PassInv
  <1>6. TurnInv'
    <2> SUFFICES ASSUME NEW d \in Nodes, entry'[d].go, d \notin started,
                        NEW s \in Regions, s < RegionOf(d)
                 PROVE  Full(s)
      BY <1>1 DEF TurnInv, RegionOf, Full
    <2>1. CASE d \in p.list
      <3>1. RegionOf(d) = r
        BY <1>2, <2>1, RegionOfDC DEF PassInv
      <3>2. Goes(r, p, d)
        BY <1>1, <2>1
      <3>. QED BY <1>1, <2>1, <3>1, <3>2, GoesWhen
    <2>2. CASE d \notin p.list
      BY <1>1, <2>2 DEF Inv, TurnInv
    <2>. QED BY <2>1, <2>2
  <1>7. ManagedInv' /\ ProberInv'
    BY <1>1 DEF Inv, ManagedInv, ProberInv, Full
  <1>8. ASSUME NEW s \in Regions PROVE PassInv(s, pass[s])'
    <2>1. CASE s = r
      <3>1. pass'[s] = next
        BY <1>1, <2>1 DEF Inv, TypeInv
      <3>2. next.list = {} /\ next.status = {} /\ next.pc = "dcs"
        BY DEF Idle
      <3>. QED BY <1>1, <1>3, <2>1, <3>1, <3>2 DEF PassInv, Full
    <2>2. CASE s # r
      <3>1. pass'[s] = pass[s] /\ PassInv(s, pass[s])
        BY <1>1, <2>2 DEF Inv, TypeInv, PassesInv
      <3>2. \A d \in DCsOf[s] : entry'[d] = entry[d]
        BY <1>1, <1>2, <2>2, RegionOfDC DEF PassInv
      <3>. QED BY <1>1, <3>1, <3>2 DEF PassInv, Full
    <2>. QED BY <2>1, <2>2
  <1>. QED BY <1>4, <1>5, <1>6, <1>7, <1>8 DEF Inv, PassesInv

-----------------------------------------------------------------------------
(* The order of the regions.                                               *)

LEMMA StepInv == Inv /\ [Next]_vars => Inv'
  <1> SUFFICES ASSUME Inv, [Next]_vars PROVE Inv'
    OBVIOUS
  <1>1. ASSUME NEW r \in Regions, PassStep(r) PROVE Inv'
    BY <1>1, BeginSteps, PublishStep, OrderSteps, WriteStep, WaitSteps, PublishStatusSteps
    DEF PassStep
  <1>2. CASE Environment
    BY <1>2, ConnectStep, OutsideSteps, NodeSteps DEF Environment, UserStep
  <1>3. CASE Fault
    BY <1>3, ReplaceStep, OutsideSteps DEF Fault
  <1>4. CASE UNCHANGED vars
    <2>1. UNCHANGED <<managed, prober, reaper, pass, phase, entry, started, joined>>
      BY <1>4 DEF vars, userVars, podVars
    <2>2. TypeInv' /\ NodeInv' /\ ManagedInv'
      BY <2>1 DEF Inv, TypeInv, NodeInv, ManagedInv, Full
    <2>3. ProberInv' /\ PassesInv' /\ TurnInv'
      BY <2>1 DEF Inv, ProberInv, PassesInv, PassInv, TurnInv, Full
    <2>. QED BY <2>2, <2>3 DEF Inv
  <1>. QED BY <1>1, <1>2, <1>3, <1>4 DEF Next

\* A node is started by StartNode only.
LEMMA FirstStarts ==
  ASSUME [Next]_vars, NEW d \in Nodes, FirstStart(d)
  PROVE  entry[d].go /\ d \notin started /\ StartNode(d)
  <1>1. \E e \in Nodes : StartNode(e) /\ started' = started \cup {e}
    <2>1. UNCHANGED started \/ \E e \in Nodes : StartNode(e)
      BY DEF Next, PassStep, FirstPass, StartPass, PublishSeeds, LocalStatus, WriteConfig,
         SystemAuthIfReady, ClusterReady, AdminRole, FirstRegionReaper, DeployReaper,
         DropDefaultRole, GetSeeds, GetStatus, GetDCs, GetRegionReady, Environment, UserStep,
         CreateRegion, Connect, ReaperStarts, NodeStep, CreatePod, SchedulePod, JoinRing,
         Fault, ReplacePod, RestartProber, RequestFails, CrashOperator, podVars, vars
    <2>. QED BY <2>1 DEF FirstStart, StartNode
  <1>. QED BY <1>1 DEF FirstStart, StartNode

\* The regions start their nodes in the order of their hosts, each when all nodes of the
\* regions before it have joined the ring (getNextRegionToInit, pausePodInit), whatever a
\* prober forgets and whenever a pass reads it.
THEOREM StartsInOrder == Spec => RegionsInOrder
  <1>1. Inv /\ [Next]_vars =>
          \A d \in Nodes : FirstStart(d) =>
             \A s \in Regions : s < RegionOf(d) => DCsOf[s] \subseteq joined
    BY FirstStarts DEF Inv, TurnInv, Full
  <1>2. Inv /\ [Next]_vars =>
          [\A d \in Nodes : FirstStart(d) =>
             \A s \in Regions : s < RegionOf(d) => DCsOf[s] \subseteq joined]_vars
    BY <1>1
  <1>. QED BY <1>2, InitInv, StepInv, PTL DEF Spec, RegionsInOrder

-----------------------------------------------------------------------------
(* One Reaper migrates the schema.                                         *)

\* What a step of a pass does to the list of regions it began with, and to Reaper.
PassMoves(r) ==
    /\ managed' = managed
    /\ \E p \in Passes :
          /\ pass' = [pass EXCEPT ![r] = p]
          /\ p.pc # "idle" => \/ pass[r].pc = "idle" /\ p.managed = managed[r]
                              \/ pass[r].pc # "idle" /\ p.managed = pass[r].managed
          /\ p.pc = "deploy" => pass[r].pc = "reaper" /\ FirstReaperReady(r)
    /\ \/ reaper' = reaper
       \/ pass[r].pc = "deploy" /\ reaper' = [reaper EXCEPT ![r] = "starting"]

\* A pass that goes on keeps its list, one that ends forgets it.
LEMMA KeepsManaged ==
  ASSUME NEW r \in Regions, managed' = managed, reaper' = reaper, pass[r] \in Passes,
         pass[r].pc # "idle",
         \/ pass' = [pass EXCEPT ![r] = Idle]
         \/ \E p \in Passes : /\ pass' = [pass EXCEPT ![r] = p]
                              /\ p.managed = pass[r].managed /\ p.pc # "deploy"
  PROVE  PassMoves(r)
  BY Constants DEF PassMoves, Idle

LEMMA PassMovesOn ==
  ASSUME Inv, NEW r \in Regions, PassStep(r), Inv'
  PROVE  PassMoves(r)
  <1>1. pass[r] \in Passes /\ pass'[r] \in Passes /\ pass \in [Regions -> Passes]
    BY DEF Inv, TypeInv
  <1>0. ASSUME NEW p, pass' = [pass EXCEPT ![r] = p]
        PROVE  pass'[r] = p /\ p \in Passes
    BY <1>0, <1>1
  <1>2. CASE FirstPass(r)
    <2>1. UNCHANGED <<managed, reaper, pass>> /\ pass[r].pc = "idle"
      BY <1>2 DEF FirstPass, userVars, At
    <2>. QED BY <1>1, <2>1 DEF PassMoves
  <1>3. CASE StartPass(r)
    <2> DEFINE p == [Idle EXCEPT !.pc = "list", !.managed = managed[r]]
    <2>1. UNCHANGED <<managed, reaper>> /\ pass' = [pass EXCEPT ![r] = p] /\ pass[r].pc = "idle"
      BY <1>3 DEF StartPass, userVars, At, Go
    <2>2. p \in Passes /\ p.pc = "list" /\ p.managed = managed[r]
      BY <1>1, <2>1 DEF Idle, Passes
    <2> HIDE DEF p
    <2>. QED BY <2>1, <2>2 DEF PassMoves
  <1>4. CASE FirstRegionReaper(r)
    <2> DEFINE p == [pass[r] EXCEPT !.pc = "deploy"]
    <2>1. UNCHANGED <<managed, reaper>> /\ pass[r].pc = "reaper"
      BY <1>4 DEF FirstRegionReaper, userVars, At
    <2>2. CASE FirstReaperReady(r) /\ pass' = [pass EXCEPT ![r] = p]
      <3>1. p \in Passes /\ p.managed = pass[r].managed
        BY <1>1 DEF Passes, PCs
      <3> HIDE DEF p
      <3>. QED BY <2>1, <2>2, <3>1 DEF PassMoves
    <2>3. CASE End(r, TRUE)
      BY <1>1, <2>1, <2>3, KeepsManaged DEF End
    <2>. QED BY <1>4, <2>2, <2>3 DEF FirstRegionReaper, Go
  <1>5. CASE DeployReaper(r)
    <2> DEFINE p == [pass[r] EXCEPT !.pc = "drop"]
    <2>1. managed' = managed /\ pass[r].pc = "deploy"
      BY <1>5 DEF DeployReaper, userVars, At
    <2>2. p \in Passes /\ p.managed = pass[r].managed /\ p.pc = "drop"
      BY <1>1 DEF Passes, PCs
    <2> HIDE DEF p
    <2>3. reaper' = reaper \/ reaper' = [reaper EXCEPT ![r] = "starting"]
      BY <1>5 DEF DeployReaper
    <2>4. pass' = [pass EXCEPT ![r] = p] \/ pass' = [pass EXCEPT ![r] = Idle]
      BY <1>5 DEF DeployReaper, Go, End, p
    <2>. QED BY <2>1, <2>2, <2>3, <2>4, Constants DEF PassMoves, Idle
  <1>6. CASE \/ PublishSeeds(r) \/ LocalStatus(r) \/ WriteConfig(r)
             \/ \E s \in Regions : GetSeeds(r, s) \/ GetStatus(r, s)
    <2>1. UNCHANGED <<managed, reaper>> /\ pass[r].pc \in {"list", "seeds", "order"}
      BY <1>6 DEF PublishSeeds, LocalStatus, WriteConfig, GetSeeds, GetStatus, userVars, At,
         Asked, Asks
    <2>2. CASE PublishSeeds(r)
      <3> DEFINE list == {d \in DCsOf[r] : phase[d] # "absent"}
                 seeds == {IF d \in list THEN d ELSE NoAddress : d \in DCsOf[r]}
      <3>1. PICK p : pass' = [pass EXCEPT ![r] = p] /\
               \/ p = Idle
               \/ p = [pass[r] EXCEPT !.pc = "order"]
               \/ p = [pass[r] EXCEPT !.pc = "seeds", !.list = list, !.seeds = seeds,
                                      !.todo = pass[r].managed]
        BY <2>2 DEF PublishSeeds, Go, End
      <3>2. p = Idle \/ (p.managed = pass[r].managed /\ p.pc # "deploy")
        BY <1>1, <3>1 DEF Passes
      <3>. QED BY <1>0, <1>1, <2>1, <3>1, <3>2, KeepsManaged
    <2>3. CASE LocalStatus(r)
      BY <1>1, <1>0, <2>1, <2>3, KeepsManaged DEF LocalStatus, Go, Passes
    <2>4. CASE WriteConfig(r)
      BY <1>1, <1>0, <2>1, <2>4, KeepsManaged DEF WriteConfig, Go, Idle
    <2>5. ASSUME NEW s \in Regions, GetSeeds(r, s) PROVE PassMoves(r)
      BY <1>1, <1>0, <2>1, <2>5, KeepsManaged DEF GetSeeds, Go, End, Answered, Passes
    <2>6. ASSUME NEW s \in Regions, GetStatus(r, s) PROVE PassMoves(r)
      BY <1>1, <1>0, <2>1, <2>6, KeepsManaged DEF GetStatus, Go, End, Answered, Passes
    <2>. QED BY <1>6, <2>2, <2>3, <2>4, <2>5, <2>6
  <1>7. CASE \/ SystemAuthIfReady(r) \/ ClusterReady(r) \/ AdminRole(r) \/ DropDefaultRole(r)
             \/ \E s \in Regions : GetDCs(r, s) \/ GetRegionReady(r, s)
    <2>1. UNCHANGED <<managed, reaper>> /\ pass[r].pc \in {"dcs", "check", "regions", "drop"}
      BY <1>7 DEF SystemAuthIfReady, ClusterReady, AdminRole, DropDefaultRole, GetDCs,
         GetRegionReady, userVars, At, Asked, Asks
    <2>2. CASE SystemAuthIfReady(r) \/ ClusterReady(r) \/ AdminRole(r) \/ DropDefaultRole(r)
      <3>1. PICK p : pass' = [pass EXCEPT ![r] = p] /\
               \/ p = Idle
               \/ \E c \in {"check", "reaper"} : p = [pass[r] EXCEPT !.pc = c]
               \/ p = [pass[r] EXCEPT !.pc = "regions", !.todo = pass[r].managed]
        BY <2>2 DEF SystemAuthIfReady, ClusterReady, AdminRole, DropDefaultRole, Go, End
      <3>2. p = Idle \/ (p.managed = pass[r].managed /\ p.pc # "deploy")
        BY <1>1, <3>1 DEF Passes
      <3>. QED BY <1>0, <1>1, <2>1, <3>1, <3>2, KeepsManaged
    <2>3. ASSUME NEW s \in Regions, GetDCs(r, s) PROVE PassMoves(r)
      BY <1>1, <1>0, <2>1, <2>3, KeepsManaged DEF GetDCs, Go, End, Answered, Passes
    <2>4. ASSUME NEW s \in Regions, GetRegionReady(r, s) PROVE PassMoves(r)
      BY <1>1, <1>0, <2>1, <2>4, KeepsManaged DEF GetRegionReady, Go, End, Answered, Passes
    <2>. QED BY <1>7, <2>2, <2>3, <2>4
  <1>. QED BY <1>2, <1>3, <1>4, <1>5, <1>6, <1>7 DEF PassStep

LEMMA ReaperInit == Init => ReaperInv
  BY RegionsAssumption, OthersOf DEF Init, ReaperInv, SomeUp, Idle

LEMMA ReaperStep == Inv /\ ReaperInv /\ [Next]_vars => ReaperInv'
  <1> SUFFICES ASSUME Inv, ReaperInv, [Next]_vars, ~SomeUp' PROVE ReaperInv'
    BY DEF ReaperInv
  <1>1. Inv'
    BY StepInv
  <1>2. ASSUME ~SomeUp, NEW r \in Regions, PassStep(r) PROVE ReaperInv'
    <2>1. PassMoves(r)
      BY <1>1, <1>2, PassMovesOn
    <2>2. PICK p \in Passes :
             /\ pass' = [pass EXCEPT ![r] = p]
             /\ p.pc # "idle" => \/ pass[r].pc = "idle" /\ p.managed = managed[r]
                                 \/ pass[r].pc # "idle" /\ p.managed = pass[r].managed
             /\ p.pc = "deploy" => pass[r].pc = "reaper" /\ FirstReaperReady(r)
      BY <2>1 DEF PassMoves
    <2>3. p.pc # "idle" => p.managed = Others(r)
      BY <1>2, <2>2 DEF ReaperInv
    <2>4. FirstReaperReady(r) /\ pass[r].pc = "reaper" => r = Least(Regions)
      <3> SUFFICES ASSUME FirstReaperReady(r), pass[r].pc = "reaper" PROVE r = Least(Regions)
        OBVIOUS
      <3>1. firstRegion(r) = Least(Regions)
        BY <1>2, OthersOf DEF ReaperInv, firstRegion
      <3>2. Least(Regions) \in Regions
        <4>1. Regions \subseteq Nat /\ Regions # {}
          BY DCNumbers
        <4>. QED BY <4>1, LeastOf
      <3>3. ~prober[Least(Regions)].reaper
        BY <1>2, <3>2 DEF Inv, ProberInv, SomeUp
      <3>. QED BY <3>1, <3>3 DEF FirstReaperReady
    <2>5. \A s \in Regions : reaper'[s] = "starting" =>
             reaper[s] = "starting" \/ (s = r /\ pass[r].pc = "deploy")
      BY <2>1 DEF PassMoves, Inv, TypeInv
    <2>. QED BY <1>2, <2>1, <2>2, <2>3, <2>4, <2>5 DEF PassMoves, ReaperInv, Inv, TypeInv
  <1>3. ASSUME ~SomeUp, UNCHANGED reaper, \A r \in Regions : managed'[r] \in {managed[r], Others(r)},
               \A r \in Regions : \/ pass'[r].pc = "idle"
                                  \/ pass'[r].pc = pass[r].pc /\ pass'[r].managed = pass[r].managed
        PROVE  ReaperInv'
    BY <1>3 DEF ReaperInv
  <1>4. ASSUME ~SomeUp, Environment PROVE ReaperInv'
    <2>1. ~\E r \in Regions : ReaperStarts(r)
      BY DEF ReaperStarts, SomeUp, Inv, TypeInv
    <2>2. UNCHANGED <<reaper, pass>> /\ \A r \in Regions : managed'[r] \in {managed[r], Others(r)}
      BY <1>4, <2>1 DEF Environment, UserStep, CreateRegion, Connect, NodeStep, CreatePod,
         SchedulePod, StartNode, JoinRing, SetPhase, userVars, Inv, TypeInv
    <2>. QED BY <1>3, <1>4, <2>2
  <1>5. ASSUME ~SomeUp, Fault PROVE ReaperInv'
    <2>1. UNCHANGED <<reaper, managed>>
      BY <1>5 DEF Fault, ReplacePod, RestartProber, RequestFails, CrashOperator, userVars
    <2>2. \A r \in Regions : \/ pass'[r].pc = "idle"
                             \/ pass'[r].pc = pass[r].pc /\ pass'[r].managed = pass[r].managed
      BY <1>5, NodeRegion DEF Fault, ReplacePod, RestartProber, RequestFails, CrashOperator, End,
         Idle, Inv, TypeInv, Passes
    <2>. QED BY <1>3, <1>5, <2>1, <2>2
  <1>6. ASSUME ~SomeUp, UNCHANGED vars PROVE ReaperInv'
    BY <1>3, <1>6 DEF vars, userVars
  <1>7. ASSUME SomeUp PROVE FALSE
    <2>1. PICK s \in Regions : reaper[s] = "up"
      BY <1>7 DEF SomeUp
    <2>2. reaper'[s] = "up"
      <3>1. ASSUME NEW r \in Regions, PassStep(r) PROVE reaper'[s] = "up"
        <4>1. PassMoves(r)
          BY <1>1, <3>1, PassMovesOn
        <4>2. DeployReaper(r) => reaper'[s] = "up"
          BY <2>1 DEF DeployReaper, Inv, TypeInv
        <4>3. DeployReaper(r) \/ reaper' = reaper
          BY <3>1 DEF PassStep, FirstPass, StartPass, PublishSeeds, LocalStatus, WriteConfig,
             SystemAuthIfReady, ClusterReady, AdminRole, FirstRegionReaper, DropDefaultRole,
             GetSeeds, GetStatus, GetDCs, GetRegionReady
        <4>. QED BY <2>1, <4>2, <4>3
      <3>2. CASE Environment
        BY <2>1, <3>2 DEF Environment, UserStep, CreateRegion, Connect, NodeStep, CreatePod,
           SchedulePod, StartNode, JoinRing, SetPhase, ReaperStarts, Inv, TypeInv
      <3>3. CASE Fault
        BY <2>1, <3>3 DEF Fault, ReplacePod, RestartProber, RequestFails, CrashOperator
      <3>. QED BY <2>1, <3>1, <3>2, <3>3 DEF Next, vars
    <2>. QED BY <2>1, <2>2 DEF SomeUp
  <1>. QED BY <1>2, <1>4, <1>5, <1>6, <1>7 DEF Next

\* Until a Reaper is up only one region has one that is starting, whatever its passes miss of
\* the other regions (waitForFirstRegionReaper): two would migrate the same keyspace at once.
THEOREM OneReaperMigrates == Spec => []OneMigration
  <1>1. Inv /\ ReaperInv => OneMigration
    <2> SUFFICES ASSUME Inv, ReaperInv, ~SomeUp
                 PROVE  ~(Cardinality({r \in Regions : reaper[r] = "starting"}) > 1)
      BY DEF OneMigration, SomeUp
    <2> DEFINE S == {r \in Regions : reaper[r] = "starting"}
    <2>1. S \subseteq {Least(Regions)}
      BY DEF ReaperInv
    <2>2. S = {} \/ S = {Least(Regions)}
      BY <2>1
    <2>3. Cardinality(S) = 0 \/ Cardinality(S) = 1
      BY <2>2, FS_EmptySet, FS_Singleton
    <2>. QED BY <2>3
  <1>. QED BY <1>1, InitInv, StepInv, ReaperInit, ReaperStep, PTL DEF Spec

-----------------------------------------------------------------------------
(* One ring.                                                               *)

\* There is more than one region: with a single one nothing orders its DCs.
SeveralRegions == \E r, s \in Regions : r # s

LEMMA RingInit == Init => RingInv
  <1> SUFFICES ASSUME Init PROVE RingInv
    OBVIOUS
  <1>1. PICK s \in Scenarios : Init!(s)
    BY DEF Init
  <1> DEFINE running == s.running
             nodes == UNION {DCsOf[r] : r \in running}
  <1>2. /\ entry = [d \in Nodes |-> IF d \in nodes THEN [go |-> TRUE, seeds |-> nodes] ELSE NoEntry]
        /\ started = nodes /\ joined = nodes
    BY <1>1
  <1>3. running # {} => Founded
    <2>1. \A r \in running : r \in Regions /\ DCsOf[r] \subseteq joined
      BY <1>2, RegionsAssumption
    <2>. QED BY <2>1 DEF Founded, Full
  <1>4. running = {} => nodes = {}
    OBVIOUS
  <1> HIDE DEF running, nodes
  <1>. QED BY <1>2, <1>3, <1>4, Constants DEF RingInv

\* The first node is the least DC of the least region.
LEMMA FirstNodeOf ==
  ASSUME SeveralRegions
  PROVE  /\ Least(Regions) \in Regions
         /\ \A r \in Regions : (\A s \in Regions : ~(s < r)) => r = Least(Regions)
         /\ FirstNode \in DCsOf[Least(Regions)]
         /\ \A d \in DCsOf[Least(Regions)] : FirstNode <= d
  <1>1. Regions \subseteq Nat /\ Regions # {}
    BY DCNumbers DEF SeveralRegions
  <1>2. Least(Regions) \in Regions /\ \A y \in Regions : Least(Regions) <= y
    BY <1>1, LeastOf
  <1>3. FirstNode \in DCsOf[Least(Regions)] /\ \A d \in DCsOf[Least(Regions)] : FirstNode <= d
    <2>1. DCsOf[Least(Regions)] \subseteq Nat /\ DCsOf[Least(Regions)] # {}
      BY <1>2, DCNumbers
    <2>. QED BY <2>1, LeastOf DEF FirstNode
  <1>4. ASSUME NEW r \in Regions, \A s \in Regions : ~(s < r) PROVE r = Least(Regions)
    <2> DEFINE l == Least(Regions)
    <2>1. r \in Nat /\ l \in Nat /\ l <= r /\ ~(l < r)
      BY <1>1, <1>2, <1>4
    <2> HIDE DEF l
    <2>2. r = l
      BY <2>1
    <2>. QED BY <2>2 DEF l
  <1>. QED BY <1>2, <1>3, <1>4

\* The regions before the node's own are full: one of their nodes is among its seeds.  If
\* there are none its own region's first node is, once it has joined.
LEMMA RingWrite ==
  ASSUME SeveralRegions, Inv, RingInv, NEW r \in Regions, WriteConfig(r)
  PROVE  RingInv'
  <1> DEFINE p == pass[r]
  <1>1. /\ UNCHANGED <<started, joined>> /\ p.pc = "order"
        /\ entry' = [d \in Nodes |->
              IF d \in p.list THEN [go |-> Goes(r, p, d), seeds |-> p.seeds] ELSE entry[d]]
    BY DEF WriteConfig, Asked, At
  <1>2. p \in Passes /\ PassInv(r, p) /\ Others(r) # {}
    BY DEF Inv, TypeInv, PassesInv, SeveralRegions, Others
  <1>3. Founded' = Founded
    BY <1>1 DEF Founded, Full
  <1>4. ASSUME ~Founded, NEW d \in p.list, Goes(r, p, d) PROVE d = FirstNode
    <2>1. d \notin started \/ d = FirstNode
      BY <1>4 DEF RingInv
    <2>2. ASSUME d \notin started PROVE d = FirstNode
      <3>1. (\A s \in Regions : s < r => Full(s)) /\ d = Least(p.unready)
        BY <1>1, <1>2, <1>4, <2>2, GoesWhen
      <3>2. r = Least(Regions)
        BY <1>4, <3>1, FirstNodeOf DEF Founded
      <3>3. p.unready \subseteq DCsOf[r] /\ FirstNode \in p.unready
        BY <1>1, <1>2, <1>4, <3>2, FirstNodeOf DEF PassInv, Founded
      <3>4. d \in p.unready /\ d <= FirstNode /\ d \in Nat /\ FirstNode \in Nat
        <4>1. p.unready \subseteq Nat
          BY <3>3, DCNumbers
        <4>. QED BY <3>1, <3>3, <4>1, LeastOf
      <3>. QED BY <3>2, <3>3, <3>4, FirstNodeOf
    <2>. QED BY <2>1, <2>2
  <1>5. ASSUME Founded, NEW d \in p.list, Goes(r, p, d), d \notin started
        PROVE  p.seeds \cap joined # {}
    <2>1. ~Full(r) /\ (\A s \in Regions : s < r => Full(s)) /\ p.managed = Others(r)
      BY <1>1, <1>2, <1>5, GoesWhen
    <2>2. CASE \E s \in Regions : Full(s)
      <3>1. PICK s \in Regions : Full(s)
        BY <2>2
      <3>2. s \in p.managed
        BY <2>1, <3>1, OthersOf
      <3>3. p.seeds \cap DCsOf[s] # {}
        BY <1>1, <1>2, <3>2 DEF PassInv
      <3>. QED BY <3>1, <3>3 DEF Full
    <2>3. CASE ~\E s \in Regions : Full(s)
      <3>1. r = Least(Regions) /\ FirstNode \in joined
        BY <1>5, <2>1, <2>3, FirstNodeOf DEF Founded
      <3>2. FirstNode \in p.seeds
        BY <1>1, <1>2, <3>1, FirstNodeOf DEF PassInv, Inv, NodeInv
      <3>. QED BY <3>1, <3>2
    <2>. QED BY <2>2, <2>3
  <1>6. ASSUME ~Founded, NEW d \in Nodes, entry'[d].go PROVE d = FirstNode
    BY <1>1, <1>4, <1>6 DEF RingInv
  <1>7. ASSUME Founded, NEW d \in Nodes, entry'[d].go, d \notin started
        PROVE  entry'[d].seeds \cap joined # {}
    BY <1>1, <1>5, <1>7 DEF RingInv
  <1>. QED BY <1>1, <1>3, <1>6, <1>7 DEF RingInv

LEMMA RingNodes ==
  ASSUME Inv, RingInv, NEW d \in Nodes, NodeStep(d)
  PROVE  RingInv'
  <1>1. /\ UNCHANGED entry /\ joined \subseteq joined' /\ started \subseteq started'
        /\ \A e \in started' \ started : entry[e].go /\ e \in Nodes
    BY DEF NodeStep, CreatePod, SchedulePod, StartNode, JoinRing, SetPhase
  <1>2. joined' \subseteq started
    BY DEF NodeStep, CreatePod, SchedulePod, StartNode, JoinRing, SetPhase, Inv, NodeInv
  <1>3. Founded => Founded'
    BY <1>1 DEF Founded, Full
  <1>4. CASE Founded
    <2>1. \A e \in Nodes : entry'[e].go /\ e \notin started' => entry'[e].seeds \cap joined' # {}
      BY <1>1, <1>4 DEF RingInv
    <2>. QED BY <1>3, <1>4, <2>1 DEF RingInv
  <1>5. CASE ~Founded
    <2>1. started \subseteq {FirstNode} /\ \A e \in Nodes : entry[e].go => e = FirstNode
      BY <1>5 DEF RingInv
    <2>2. ASSUME Founded', NEW e \in Nodes, entry[e].go, e \notin started' PROVE FALSE
      <3>1. joined' = {}
        BY <1>1, <1>2, <2>1, <2>2
      <3>. QED BY <2>2, <3>1, DCNumbers DEF Founded, Full
    <2>3. started' \subseteq {FirstNode}
      BY <1>1, <2>1
    <2>. QED BY <1>1, <2>1, <2>2, <2>3 DEF RingInv, FirstNode, Least
  <1>. QED BY <1>4, <1>5

LEMMA RingStep == SeveralRegions /\ Inv /\ RingInv /\ [Next]_vars => RingInv'
  <1> SUFFICES ASSUME SeveralRegions, Inv, RingInv, [Next]_vars PROVE RingInv'
    OBVIOUS
  <1>1. ASSUME UNCHANGED <<started, joined>>,
               \A d \in Nodes : entry'[d].go => entry'[d] = entry[d]
        PROVE  RingInv'
    <2>1. Founded' = Founded
      BY <1>1 DEF Founded, Full
    <2>2. Founded => \A d \in Nodes :
             entry'[d].go /\ d \notin started' => entry'[d].seeds \cap joined' # {}
      BY <1>1 DEF RingInv
    <2>3. ~Founded => started' \subseteq {FirstNode} /\ \A d \in Nodes : entry'[d].go => d = FirstNode
      BY <1>1 DEF RingInv
    <2>. QED BY <2>1, <2>2, <2>3 DEF RingInv
  <1>2. ASSUME NEW r \in Regions, PassStep(r), ~WriteConfig(r) PROVE UNCHANGED podVars
    BY <1>2 DEF PassStep, FirstPass, StartPass, PublishSeeds, LocalStatus, SystemAuthIfReady,
       ClusterReady, AdminRole, FirstRegionReaper, DeployReaper, DropDefaultRole, GetSeeds,
       GetStatus, GetDCs, GetRegionReady
  <1>3. ASSUME NEW d \in Nodes, ReplacePod(d) PROVE RingInv'
    BY <1>1, <1>3, Constants DEF ReplacePod, Inv, TypeInv
  <1>4. CASE UNCHANGED podVars
    BY <1>1, <1>4 DEF podVars
  <1>5. CASE Environment
    <2>1. UNCHANGED podVars \/ \E d \in Nodes : NodeStep(d)
      BY <1>5 DEF Environment, UserStep, CreateRegion, Connect, ReaperStarts
    <2>. QED BY <1>4, <2>1, RingNodes
  <1>6. CASE Fault
    <2>1. UNCHANGED podVars \/ \E d \in Nodes : ReplacePod(d)
      BY <1>6 DEF Fault, RestartProber, RequestFails, CrashOperator
    <2>. QED BY <1>3, <1>4, <2>1
  <1>7. CASE \E r \in Regions : PassStep(r)
    BY <1>2, <1>4, <1>7, RingWrite
  <1>. QED BY <1>4, <1>5, <1>6, <1>7 DEF Next, vars

\* Of two regions or more, whichever of them ran before and whatever fails: the first node
\* founds the ring, and every other node is given, before its first start, the address of a
\* node that has joined it (getSeedsList, getInitOrderInfo).
THEOREM NodesFormOneRing ==
  ASSUME SeveralRegions
  PROVE  Spec => OneRing
  <1> DEFINE A == \A d \in Nodes : FirstStart(d) /\ started # {} => entry[d].seeds \cap joined # {}
  <1>1. Inv /\ RingInv /\ [Next]_vars => [A]_vars
    <2> SUFFICES ASSUME Inv, RingInv, [Next]_vars, NEW d \in Nodes, FirstStart(d), started # {}
                 PROVE  entry[d].seeds \cap joined # {}
      OBVIOUS
    <2>1. entry[d].go /\ d \notin started
      BY FirstStarts
    <2>2. Founded
      BY <2>1 DEF RingInv
    <2>. QED BY <2>1, <2>2 DEF RingInv
  <1>2. Inv /\ RingInv /\ [Next]_vars => RingInv'
    BY RingStep
  <1>. QED BY <1>1, <1>2, InitInv, StepInv, RingInit, PTL DEF Spec, OneRing

=============================================================================
