----------------------------- MODULE NodeStates -----------------------------
(***************************************************************************)
(* The node states of the prober (prober/prober/node_states.go), by which  *)
(* a pod's readiness probe is answered.                                    *)
(*                                                                         *)
(* A readiness probe makes the prober know a node and its pod's address.   *)
(* Every JMX_POLLING_INTERVAL a goroutine asks all known nodes, one after  *)
(* the other and without a lock, how they see the cluster, and replaces    *)
(* what was known by what it got: probes and other polls go on meanwhile,  *)
(* and a poll that began earlier may end later.  Nodes are named by their  *)
(* broadcast addresses; with hostPort a pod that is created again keeps    *)
(* its broadcast address and has a new pod address.  The nodes are those   *)
(* of the DCs the region owns.  External: the nodes with their gossip, the *)
(* pods and the operator.                                                  *)
(***************************************************************************)
EXTENDS Integers, FiniteSets

CONSTANTS
    Nodes,     \* the broadcast addresses
    MaxPolls,  \* polls that are under way at once
    MaxPods,   \* pods a node may have, one after the other
    Scenarios  \* how a behaviour starts: the nodes that are in the ring, and how
               \* often each fault may happen

\* "overlap": a poll begins while another one is under way.
FaultKinds == {"stop", "cut", "restart", "refused", "overlap"}
Polls == 1..MaxPolls

ASSUME NodeStatesAssumption ==
    /\ IsFiniteSet(Nodes)
    /\ MaxPolls \in Nat \ {0} /\ MaxPods \in Nat \ {0}
    /\ \A s \in Scenarios : s.alive \subseteq Nodes /\ s.budget \in [FaultKinds -> Nat]

\* How a node sees another one: "UP", "DOWN", or "?" for what is not in the map.
NoView == [n \in Nodes |-> "?"]

\* A nodeState: SimpleStates and the status of its EndpointState.  The zero value is
\* the one a readiness probe adds.
Zero == [status |-> "", simple |-> NoView]

\* A peer that was not asked: the status is the peers' word for it, and does not
\* count without SimpleStates.
Found == [status |-> "peer", simple |-> NoView]

VARIABLES
    life,     \* the process of each node: "down", "starting" (it answers JMX requests
              \* and does not gossip yet), "BOOT", "NORMAL"
    joined,   \* nodes that have joined the ring once
    address,  \* the number of its pod: stands for the pod's address
    view,     \* how each node sees the others: its FailureDetector
    apart,    \* pairs <<a, b>>: a does not hear from b
    nodes,    \* state.nodes of the prober: a map from addresses to node states
    podIPs,   \* state.podIPs, NoAddress where the map has none
    dcs,      \* the operator has told the prober the region's DCs (state.dcs)
    polls,    \* the polls that are under way
    budget    \* faults that are left

clusterVars == <<life, joined, address, view, apart>>
proberVars == <<nodes, podIPs, dcs, polls>>
vars == <<clusterVars, proberVars, budget>>

NoAddress == 0
Known == DOMAIN nodes
Running == {n \in Nodes : life[n] # "down"}
Normal == {n \in Nodes : life[n] = "NORMAL"}

\* What a node answers: nothing usable, or its view, its own endpoint state and
\* those of the nodes it has heard of.
Failed == [ok |-> FALSE, status |-> "", view |-> NoView]
NoPoll == [todo |-> {}, got |-> [n \in {} |-> Failed], current |-> FALSE]
Busy(i) == polls[i].todo # {} \/ DOMAIN polls[i].got # {}

Spend(k) == budget[k] > 0 /\ budget' = [budget EXCEPT ![k] = @ - 1]

InitNodes(alive) ==
    /\ life = [n \in Nodes |-> IF n \in alive THEN "NORMAL" ELSE "down"]
    /\ joined = alive
    /\ address = [n \in Nodes |-> 1]
    /\ view = [a \in Nodes |-> IF a \in alive
                 THEN [b \in Nodes |-> IF b \in alive THEN "UP" ELSE "?"] ELSE NoView]

\* The prober has just started.
Init ==
    /\ \E s \in Scenarios : InitNodes(s.alive) /\ budget = s.budget
    /\ apart = {}
    /\ nodes = [n \in {} |-> Zero] /\ podIPs = [n \in Nodes |-> NoAddress]
    /\ dcs = FALSE /\ polls = [i \in Polls |-> NoPoll]

-----------------------------------------------------------------------------
(* The nodes, their pods and the network (external).                       *)

StartNode(n) ==
    /\ life[n] = "down"
    /\ life' = [life EXCEPT ![n] = "starting"]
    /\ UNCHANGED <<joined, address, view, apart, proberVars, budget>>

\* The node begins to gossip: a new one bootstraps, others are in the ring again.
BeginGossip(n) ==
    /\ life[n] = "starting"
    /\ life' = [life EXCEPT ![n] = IF n \in joined THEN "NORMAL" ELSE "BOOT"]
    /\ view' = [view EXCEPT ![n] = [NoView EXCEPT ![n] = "UP"]]
    /\ UNCHANGED <<joined, address, apart, proberVars, budget>>

Joined(n) ==
    /\ life[n] = "BOOT"
    /\ life' = [life EXCEPT ![n] = "NORMAL"]
    /\ joined' = joined \cup {n}
    /\ UNCHANGED <<address, view, apart, proberVars, budget>>

\* b is in the gossip, whether it bootstraps or is in the ring, and a hears of it.
Hears(a, b) == life[b] \in {"BOOT", "NORMAL"} /\ <<a, b>> \notin apart
Seen(a, b) == IF Hears(a, b) THEN "UP" ELSE IF view[a][b] = "?" THEN "?" ELSE "DOWN"

Gossip(a, b) ==
    /\ life[a] \in {"BOOT", "NORMAL"} /\ a # b /\ view[a][b] # Seen(a, b)
    /\ view' = [view EXCEPT ![a][b] = Seen(a, b)]
    /\ UNCHANGED <<life, joined, address, apart, proberVars, budget>>

\* The process stops; its pod goes on, or is created again with another address.
StopNode(n) ==
    /\ life[n] # "down" /\ Spend("stop")
    /\ \E a \in {address[n], address[n] + 1} \cap 1..MaxPods : address' = [address EXCEPT ![n] = a]
    /\ life' = [life EXCEPT ![n] = "down"]
    /\ view' = [view EXCEPT ![n] = NoView]
    /\ UNCHANGED <<joined, apart, proberVars>>

CutOff(a, b) ==
    /\ a # b /\ <<a, b>> \notin apart /\ Spend("cut")
    /\ apart' = apart \cup {<<a, b>>}
    /\ UNCHANGED <<life, joined, address, view, proberVars>>

-----------------------------------------------------------------------------
(* The prober.                                                             *)

\* isNodeReady ignores the view of a node that is not in the ring, or does not
\* see itself as up.
Ignored(a) == nodes[a].status # "NORMAL" \/ nodes[a].simple[a] # "UP"

\* isNodeReady: all nodes that are not ignored see the node as up; there is one.
IsNodeReady(n) ==
    /\ \E a \in Known : ~Ignored(a)
    /\ \A a \in Known : Ignored(a) \/ nodes[a].simple[n] = "UP"

\* Mutant of Probe: the pod's address is only stored the first time.
ProbeOnce(n) ==
    /\ life[n] # "down" /\ n \notin Known
    /\ nodes' = [m \in Known \cup {n} |-> IF m = n THEN Zero ELSE nodes[m]]
    /\ podIPs' = [podIPs EXCEPT ![n] = IF @ = NoAddress THEN address[n] ELSE @]
    /\ UNCHANGED <<clusterVars, dcs, polls, budget>>

\* processReadinessProbe of a node that is not known (a probe of a known node
\* changes nothing).  A poll that iterates over the same map may meet the new
\* entry or not.
Probe(n) ==
    /\ life[n] # "down" /\ n \notin Known
    /\ nodes' = [m \in Known \cup {n} |-> IF m = n THEN Zero ELSE nodes[m]]
    /\ podIPs' = [podIPs EXCEPT ![n] = address[n]]
    /\ \E meet \in SUBSET {i \in Polls : polls[i].current /\ polls[i].todo # {}} :
          polls' = [i \in Polls |-> IF i \in meet THEN [polls[i] EXCEPT !.todo = @ \cup {n}]
                                    ELSE polls[i]]
    /\ UNCHANGED <<clusterVars, dcs, budget>>

\* updateNodeStates: a tick of pollNodeStates starts a poll if a node is known.
BeginPoll(i) ==
    /\ ~Busy(i) /\ Known # {}
    /\ IF \E j \in Polls : Busy(j) THEN Spend("overlap") ELSE UNCHANGED budget
    /\ polls' = [polls EXCEPT ![i] = [NoPoll EXCEPT !.todo = Known, !.current = TRUE]]
    /\ UNCHANGED <<clusterVars, nodes, podIPs, dcs>>

\* CassandraNodeState asked for what the pod address leads to.  A process that
\* does not gossip yet answers with empty maps.
Answer(n) == [ok |-> TRUE, status |-> IF view[n][n] = "UP" THEN life[n] ELSE "", view |-> view[n]]
Reached(n) == life[n] # "down" /\ podIPs[n] = address[n]

\* allNodesStates: the next node of a poll.
Ask(i, n) ==
    /\ n \in polls[i].todo \ DOMAIN polls[i].got
    /\ \/ UNCHANGED budget
       \/ Reached(n) /\ Spend("refused")
    /\ LET answer == IF Reached(n) /\ budget' = budget THEN Answer(n) ELSE Failed
           got == polls[i].got
       IN  polls' = [polls EXCEPT ![i].todo = @ \ {n},
                                  ![i].got = [m \in DOMAIN got \cup {n} |->
                                                IF m = n THEN answer ELSE got[m]]]
    /\ UNCHANGED <<clusterVars, nodes, podIPs, dcs>>

\* The nodes some asked node has heard of; they belong to the DCs the region owns.
Peers(got) == {n \in Nodes : dcs /\ \E m \in DOMAIN got : got[m].view[n] # "?"}

\* updateNodesRequest: asked nodes with an endpoint state of their own, and peers
\* that were not asked, of which only the endpoint state is known.
NewStates(got) ==
    LET asked == {n \in DOMAIN got : got[n].status # ""}
        found == Peers(got) \ DOMAIN got
    IN  [n \in asked \cup found |->
           IF n \in asked THEN [status |-> got[n].status, simple |-> got[n].view] ELSE Found]

\* The end of updateNodesRequest replaces all node states, if they differ; other
\* polls go on with the map they iterate over.
EndPoll(i) ==
    /\ Busy(i) /\ polls[i].todo = {}
    /\ LET new == NewStates(polls[i].got) IN
       /\ nodes' = new
       /\ polls' = [j \in Polls |->
                      IF j = i THEN NoPoll
                      ELSE [polls[j] EXCEPT !.current = @ /\ new = nodes]]
    /\ UNCHANGED <<clusterVars, podIPs, dcs, budget>>

\* putDCs, called by every reconcile pass of the operator.
PutDCs ==
    /\ ~dcs /\ dcs' = TRUE
    /\ UNCHANGED <<clusterVars, nodes, podIPs, polls, budget>>

\* The prober starts again with empty maps: its pod moved, or the runtime found
\* the unlocked map written by a probe while a poll read it.
RestartProber ==
    /\ Spend("restart")
    /\ nodes' = [n \in {} |-> Zero] /\ podIPs' = [n \in Nodes |-> NoAddress]
    /\ dcs' = FALSE /\ polls' = [i \in Polls |-> NoPoll]
    /\ UNCHANGED clusterVars

-----------------------------------------------------------------------------
PollStep(i) == BeginPoll(i) \/ (\E n \in Nodes : Ask(i, n)) \/ EndPoll(i)

NodeStep(n) == StartNode(n) \/ BeginGossip(n) \/ Joined(n)

Next ==
    \/ \E i \in Polls : PollStep(i)
    \/ \E n \in Nodes : NodeStep(n) \/ Probe(n) \/ StopNode(n)
    \/ \E a, b \in Nodes : Gossip(a, b) \/ CutOff(a, b)
    \/ PutDCs \/ RestartProber

\* Polls and probes go on.  Strong fairness of Probe: polls and probes have the
\* same period, so a probe also comes when the node is not known, even if the
\* polls forget and find it again in turns.
Fairness ==
    /\ \A i \in Polls : WF_vars(PollStep(i))
    /\ \A n \in Nodes : WF_vars(NodeStep(n)) /\ SF_vars(Probe(n))
    /\ \A a, b \in Nodes : WF_vars(Gossip(a, b))
    /\ WF_vars(PutDCs)

Spec == Init /\ [][Next]_vars
FairSpec == Spec /\ Fairness

-----------------------------------------------------------------------------
(* Properties.                                                             *)

\* "A node is considered ready when all nodes see that node as ready, excluding
\* the view of the nodes that are not ready themselves" (prober.md): the unlocked
\* polls and probes (updateNodesRequest, processReadinessProbe) come to the answer
\* that the nodes' real views give, after restarts of nodes and of the prober, new
\* pod addresses, refused requests and nodes that no longer hear of each other.
AnswersSettle ==
    <>[](\A n \in Running :
           IsNodeReady(n) <=> Normal # {} /\ \A a \in Normal : view[a][n] = "UP")
=============================================================================
