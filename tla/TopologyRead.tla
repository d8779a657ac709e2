---------------------------- MODULE TopologyRead ----------------------------
(***************************************************************************)
(* api/devices.py, get_topology, and intent/nautobot.py,                   *)
(* list_topology_interfaces: a graph put together from one request for the *)
(* inventory and one per device for its interfaces, of which each returns  *)
(* one page, while cables are moved and addresses reassigned.              *)
(*                                                                         *)
(* A cable is a set of two ports, a port <<device, number>>; an address is *)
(* assigned by a pair of a port and the address.                           *)
(***************************************************************************)
EXTENDS Integers, FiniteSets, Sequences

CONSTANTS
  Nobody,      \* no peer, no graph, no neighbors that can be read
  Port,
  Address,
  Listed,      \* the devices of the inventory page
  Neighbors,   \* per listed device: the BGP neighbors its config context lists, or Nobody
  InterfaceLimit, \* interfaces of a device that are asked for
  LinkLimit,      \* links that are drawn
  Subjects,    \* bound: the kinds of things edited together
  Connectable, \* bound: the cables operators connect
  Cabled,      \* bound: the cables there may be at first
  Assignable   \* bound: the assignments operators make

Device(p) == p[1]
Single(S) == \E x \in S : S = {x}
Cable == {{p, q} : p \in Port, q \in Port} \ {{p} : p \in Port}
Disjoint(C) == \A c, d \in C : c = d \/ c \cap d = {}
Graph == [physical : SUBSET SUBSET Port, bgp : SUBSET SUBSET Port, complete : BOOLEAN]

(* What is assumed of the constants; Answers has TLC evaluate it.          *)
TopologyConstants ==
  /\ IsFiniteSet(Port) /\ InterfaceLimit \in Nat /\ LinkLimit \in Nat
  /\ \A d \in Listed : Neighbors[d] = Nobody \/ Neighbors[d] \in Seq(Address)
  /\ Connectable \subseteq Cable /\ \A C \in Cabled : C \subseteq Connectable /\ Disjoint(C)
  /\ Assignable \subseteq Port \X Address
  /\ Nobody \notin Port /\ Nobody \notin Graph /\ \A s \in SUBSET Listed : s # Nobody

VARIABLES
  subject,    \* bound: what is edited, cables or addresses or both
  cables,     \* in Nautobot
  assigned,   \* in Nautobot
  unread,     \* devices whose interfaces are still to be requested, or Nobody: no read
  interfaces, \* those read: [port, addresses, peer]
  graph,      \* the answer: [physical, bgp, complete], or Nobody
  steady,     \* history: cables and assignments there since the read began
  ever        \* history: assignments there at some time since

nautobot == <<cables, assigned>>
vars == <<subject, nautobot, unread, interfaces, graph, steady, ever>>

Interface == [port : Port, addresses : SUBSET Address, peer : Port \cup {Nobody}]

TypeOK ==
  /\ subject \in Subjects
  /\ cables \subseteq Cable /\ Disjoint(cables)
  /\ assigned \subseteq Assignable
  /\ unread = Nobody \/ unread \subseteq Listed
  /\ interfaces \subseteq Interface
  /\ graph = Nobody \/ graph \in Graph
  /\ steady.cables \subseteq cables /\ steady.assigned \subseteq assigned \cap ever

Init ==
  /\ subject \in Subjects
  /\ cables \in Cabled /\ assigned = {}
  /\ unread = Nobody /\ interfaces = {} /\ graph = Nobody
  /\ steady = [cables |-> {}, assigned |-> {}] /\ ever = {}

-----------------------------------------------------------------------------
(* Operators edit Nautobot.  Bound: not between an answer and the next     *)
(* read, when nobody looks.                                                *)
Edit ==
  /\ graph = Nobody
  /\ steady' = [cables |-> steady.cables \cap cables', assigned |-> steady.assigned \cap assigned']
  /\ ever' = IF unread = Nobody THEN {} ELSE ever \cup assigned'
  /\ UNCHANGED <<subject, unread, interfaces, graph>>

Connect(c) ==
  /\ "cables" \in subject /\ \A d \in cables : c \cap d = {}
  /\ cables' = cables \cup {c} /\ UNCHANGED assigned /\ Edit

Disconnect(c) ==
  /\ "cables" \in subject /\ c \in cables
  /\ cables' = cables \ {c} /\ UNCHANGED assigned /\ Edit

Assign(x) ==
  /\ "addresses" \in subject /\ x \notin assigned
  /\ assigned' = assigned \cup {x} /\ UNCHANGED cables /\ Edit

Unassign(x) ==
  /\ "addresses" \in subject /\ x \in assigned
  /\ assigned' = assigned \ {x} /\ UNCHANGED cables /\ Edit

-----------------------------------------------------------------------------
(* The physical links of the interfaces read.                              *)

(* Mutant: one end is enough.                                              *)
OneEnd(i, seen) == TRUE
Reciprocal(i, seen) == \E j \in seen : j.port = i.peer /\ j.peer = i.port

PhysicalLinks(seen) ==
  {{i.port, i.peer} : i \in
    {k \in seen :
       /\ k.peer # Nobody
       /\ Device(k.peer) \in Listed \ {Device(k.port)}
       /\ Reciprocal(k, seen)}}

(* The peerings, from the ports that own the addresses two devices name.   *)
Owners(a, seen) == {i.port : i \in {k \in seen : a \in k.addresses}}
NeighborsOf(d) == IF Neighbors[d] = Nobody THEN << >> ELSE Neighbors[d]

(* Mutant: any owner will do.                                              *)
AnyOwner(a, seen) == Owners(a, seen) # {}
OneOwner(a, seen) == Single(Owners(a, seen))

(* The entries of d's list that lead to ports of t, each with its port.    *)
Directed(d, t, seen) ==
  {x \in (DOMAIN NeighborsOf(d)) \X Port :
     LET a == NeighborsOf(d)[x[1]]
     IN  OneOwner(a, seen) /\ x[2] \in Owners(a, seen) /\ Device(x[2]) = t /\ t # d}

(* A peering each end configures once, and alone, for the other.           *)
Peerings(s, t, seen) ==
  LET forward == Directed(s, t, seen)
      reverse == Directed(t, s, seen)
  IN  IF Single(forward) /\ Single(reverse)
        THEN {{r[2], f[2]} : r \in reverse, f \in forward} ELSE {}

BgpLinks(seen) == UNION {Peerings(s, t, seen) : s \in Listed, t \in Listed}

-----------------------------------------------------------------------------
(* The read.                                                               *)
ReadInventory ==
  /\ unread = Nobody
  /\ unread' = Listed /\ interfaces' = {} /\ graph' = Nobody
  /\ steady' = [cables |-> cables, assigned |-> assigned] /\ ever' = assigned
  /\ UNCHANGED <<subject, nautobot>>

PeerOf(p) ==
  LET mine == {c \in cables : p \in c}
  IN  IF mine = {} THEN Nobody ELSE CHOOSE q \in UNION mine : q # p

(* One page of a set, in an order that is not looked at.                   *)
Page(S, limit) ==
  IF Cardinality(S) <= limit THEN {S} ELSE {T \in SUBSET S : Cardinality(T) = limit}

PortsOf(d) == {p \in Port : Device(p) = d}

(* Mutant: one limit for the interfaces of all devices.                    *)
SharedPages(d) == Page(PortsOf(d), InterfaceLimit - Cardinality(interfaces))
Pages(d) == Page(PortsOf(d), InterfaceLimit)

InterfacesOf(page) ==
  {[port |-> p, peer |-> PeerOf(p), addresses |-> {a \in Address : <<p, a>> \in assigned}] :
     p \in page}

ReadInterfaces(d) ==
  /\ unread # Nobody /\ d \in unread
  /\ unread' = unread \ {d}
  /\ \E page \in Pages(d) : interfaces' = interfaces \cup InterfacesOf(page)
  /\ UNCHANGED <<subject, nautobot, graph, steady, ever>>

(* A response that is missing or malformed: there is no graph.             *)
ReadFails ==
  /\ unread # Nobody
  /\ unread' = Nobody /\ interfaces' = {}
  /\ steady' = [cables |-> {}, assigned |-> {}] /\ ever' = {}
  /\ UNCHANGED <<subject, nautobot, graph>>

(* Links are cut in the order of their keys, in which peerings come first. *)
Answer ==
  /\ unread = {}
  /\ unread' = Nobody
  /\ \E bgp \in Page(BgpLinks(interfaces), LinkLimit) :
       \E physical \in Page(PhysicalLinks(interfaces), LinkLimit - Cardinality(bgp)) :
         graph' = [physical |-> physical, bgp |-> bgp,
                   complete |-> \A d \in Listed : Neighbors[d] # Nobody]
  /\ UNCHANGED <<subject, nautobot, interfaces, steady, ever>>

Next ==
  \/ \E c \in Connectable : Connect(c) \/ Disconnect(c)
  \/ \E x \in Assignable : Assign(x) \/ Unassign(x)
  \/ ReadInventory
  \/ \E d \in Listed : ReadInterfaces(d)
  \/ ReadFails
  \/ Answer

Spec == Init /\ [][Next]_vars

-----------------------------------------------------------------------------
(* The colour of a node: _node_status, from the inventory's status and the *)
(* latest deployment's, and what overview makes of it when it hears of a   *)
(* deployment afterwards.                                                  *)
InventoryStatus == {"active", "failed", "maintenance", "other"}
Deployment ==
  {[status |-> "queued", validation |-> "unknown"], [status |-> "unknown", validation |-> "unknown"],
   [status |-> "succeeded", validation |-> "passed"],
   [status |-> "failed", validation |-> "failed"],
   [status |-> "failed", validation |-> "unavailable"]}

Node(status, source) == [status |-> status, source |-> source]

FromInventory(inventory) ==
  CASE inventory = "active" -> Node("healthy", "inventory")
    [] inventory = "failed" -> Node("failed", "inventory")
    [] inventory = "maintenance" -> Node("degraded", "inventory")
    [] inventory = "other" -> Node("unknown", Nobody)

NodeStatus(inventory, deployment) ==
  IF deployment.validation = "passed" THEN Node("healthy", "validation")
  ELSE IF deployment.validation = "failed" THEN Node("failed", "validation")
  ELSE IF deployment.status = "failed" THEN Node("failed", "deployment")
  ELSE IF deployment.status = "succeeded" THEN Node("healthy", "deployment")
  ELSE FromInventory(inventory)

(* Mutant: a failure before validation leaves the inventory's colour.      *)
ValidationOnly(deployment) == deployment.validation = "failed"
Failure(deployment) == "failed" \in {deployment.validation, deployment.status}

Overridden(node, deployment) ==
  Node(IF deployment.validation = "passed" THEN "healthy"
       ELSE IF Failure(deployment) THEN "failed"
       ELSE IF deployment.status = "succeeded" THEN "healthy"
       ELSE node.status,
       IF deployment.validation \in {"passed", "failed"} THEN "validation"
       ELSE IF deployment.status \in {"succeeded", "failed"} THEN "deployment"
       ELSE node.source)

-----------------------------------------------------------------------------
(* A port is an end of one physical link at most, and every such link joins*)
(* two devices of the inventory, though the devices' interfaces are read   *)
(* at different times and a port is cabled anew in between                 *)
(* (devices.py:539-571, nautobot.py:272-328).                              *)
PortHasOneLink ==
  graph # Nobody =>
    \A l, k \in graph.physical :
      /\ l = k \/ l \cap k = {}
      /\ \E p, q \in l : Device(p) # Device(q)
      /\ \A p \in l : Device(p) \in Listed

(* A peering is drawn only where each device names an address that was     *)
(* found on the other's port and nowhere else (devices.py:572-603).        *)
PeeringIsMutual ==
  graph # Nobody =>
    \A l \in graph.bgp : \A p \in l : \E q \in l \ {p} :
      \E i \in DOMAIN NeighborsOf(Device(q)) : Owners(NeighborsOf(Device(q))[i], interfaces) = {p}

(* Together: the graph is one the network could have had.                  *)
GraphIsPossible == TypeOK /\ PortHasOneLink /\ PeeringIsMutual

(* What was there during the whole read: cables between listed devices, and*)
(* peerings whose addresses had one owner each and are listed once, with no *)
(* other way from one device to the other.                                 *)
Apart(p, q) == {Device(p), Device(q)} \subseteq Listed /\ Device(p) # Device(q)
SoleOwner(a, p) == <<p, a>> \in steady.assigned /\ \A x \in ever : x[2] = a => x[1] = p
OnlyWay(s, i, t) ==
  \A x \in ever, j \in DOMAIN NeighborsOf(s) :
    x[2] = NeighborsOf(s)[j] /\ Device(x[1]) = t => j = i
Leads(p, q) ==
  \E i \in DOMAIN NeighborsOf(Device(p)) :
    SoleOwner(NeighborsOf(Device(p))[i], q) /\ OnlyWay(Device(p), i, Device(q))

SteadyCable(p, q) == Apart(p, q) /\ {p, q} \in steady.cables
SteadyPeering(p, q) == Apart(p, q) /\ Leads(p, q) /\ Leads(q, p)

(* It is drawn, if the interfaces of both devices fit a page each and there *)
(* is room: a peering is left out only of a graph full of peerings, a cable *)
(* only of a full graph (devices.py:525-605, nautobot.py:246-258).          *)
Whole(d) == Cardinality(PortsOf(d)) <= InterfaceLimit

SteadyLinkIsDrawn ==
  graph # Nobody =>
    \A p, q \in Port :
      Whole(Device(p)) /\ Whole(Device(q)) =>
        /\ SteadyPeering(p, q) =>
             {p, q} \in graph.bgp \/ Cardinality(graph.bgp) = LinkLimit
        /\ SteadyCable(p, q) =>
             \/ {p, q} \in graph.physical
             \/ Cardinality(graph.bgp) + Cardinality(graph.physical) = LinkLimit

(* Whatever is known of a node, the overview, which hears of its latest    *)
(* deployment beside the topology, makes of it what the topology page does,*)
(* which asks first, if it hears of the same one                           *)
(* (app.py:438-465, devices.py:469-486).                                   *)
OverviewAgreesWithTopology ==
  graph # Nobody => \A inventory \in InventoryStatus, deployment \in Deployment :
    Overridden(FromInventory(inventory), deployment) = NodeStatus(inventory, deployment)

(* Why these hold.  What has been read shows each port at most once, and   *)
(* once if the page was all; with all that has been there since the read   *)
(* began and nothing that never was.                                       *)
ReadSoFar ==
  unread # Nobody =>
    /\ graph = Nobody /\ assigned \subseteq ever
    /\ \A i, j \in interfaces : i.port = j.port => i = j
    /\ \A p \in Port : Device(p) \in Listed \ unread /\ Whole(Device(p)) =>
         \E i \in interfaces : i.port = p
    /\ \A i \in interfaces :
         /\ Device(i.port) \in Listed \ unread
         /\ \A c \in steady.cables : i.port \in c => c = {i.port, i.peer}
         /\ \A x \in steady.assigned : x[1] = i.port => x[2] \in i.addresses
         /\ \A a \in i.addresses : <<i.port, a>> \in ever

NothingSteady ==
  unread = Nobody /\ graph = Nobody => steady.cables = {} /\ steady.assigned = {}

IInv == GraphIsPossible /\ SteadyLinkIsDrawn /\ ReadSoFar /\ NothingSteady
=============================================================================
