-------------------------- MODULE TopologyReadProofs --------------------------
(***************************************************************************)
(* The safety properties of TopologyRead, which is T in Answers, hold for  *)
(* any devices, ports, addresses, neighbors, limits and edits.             *)
(***************************************************************************)
EXTENDS Answers, FiniteSetTheorems, TLAPS

(* What a cable joins.                                                     *)
LEMMA Cables ==
  ASSUME NEW c \in T!Cable
  PROVE  \E p, q \in Port : p # q /\ c = {p, q}
<1>1. PICK p \in Port, q \in Port : c = {p, q}
  BY DEF T!Cable
<1>2. p # q
  BY <1>1 DEF T!Cable
<1>3. QED
  BY <1>1, <1>2

(* The peer of a port is at the other end of its cable, if it has one.     *)
LEMMA Peers ==
  ASSUME T!TypeOK, NEW p \in Port
  PROVE  /\ T!PeerOf(p) \in Port \cup {None}
         /\ \A c \in cables : p \in c => T!PeerOf(p) \in Port /\ c = {p, T!PeerOf(p)}
<1> DEFINE mine == {c \in cables : p \in c}
<1>1. ASSUME NEW c \in cables, p \in c PROVE T!PeerOf(p) \in Port /\ c = {p, T!PeerOf(p)}
  <2>1. mine = {c}
    BY <1>1 DEF T!TypeOK, T!Disjoint
  <2>2. UNION mine = c
    BY <2>1
  <2>3. PICK q \in Port : q # p /\ c = {p, q}
    BY <1>1, Cables DEF T!TypeOK
  <2>4. T!PeerOf(p) = CHOOSE x \in c : x # p
    BY <2>1, <2>2 DEF T!PeerOf
  <2>5. T!PeerOf(p) \in c /\ T!PeerOf(p) # p
    BY <2>3, <2>4
  <2>6. QED
    BY <2>3, <2>5
<1>2. mine = {} => T!PeerOf(p) = None
  BY DEF T!PeerOf
<1>3. QED
  BY <1>1, <1>2

-----------------------------------------------------------------------------
(* What is drawn of interfaces, each port once.                            *)
LEMMA OneLink ==
  ASSUME NEW seen \in SUBSET T!Interface, \A i, j \in seen : i.port = j.port => i = j,
         \A i \in seen : T!Device(i.port) \in Listed
  PROVE  /\ T!PhysicalLinks(seen) \in SUBSET SUBSET Port
         /\ \A l, k \in T!PhysicalLinks(seen) :
              /\ l = k \/ l \cap k = {}
              /\ \E p, q \in l : T!Device(p) # T!Device(q)
              /\ \A p \in l : T!Device(p) \in Listed
<1> DEFINE linked ==
      {k \in seen : /\ k.peer # None /\ T!Device(k.peer) \in Listed \ {T!Device(k.port)}
                    /\ T!Reciprocal(k, seen)}
<1>1. T!PhysicalLinks(seen) = {{i.port, i.peer} : i \in linked}
  BY DEF T!PhysicalLinks
<1>2. \A i \in linked :
        /\ i \in seen /\ i.port \in Port /\ i.peer \in Port
        /\ T!Device(i.peer) \in Listed /\ T!Device(i.peer) # T!Device(i.port)
        /\ T!Device(i.port) \in Listed
        /\ \E j \in seen : j.port = i.peer /\ j.peer = i.port
  BY DEF T!Reciprocal, T!Interface
<1> HIDE DEF linked
<1>3. T!PhysicalLinks(seen) \in SUBSET SUBSET Port
  BY <1>1, <1>2
<1>4. ASSUME NEW i \in linked, NEW j \in linked, {i.port, i.peer} \cap {j.port, j.peer} # {}
      PROVE  {i.port, i.peer} = {j.port, j.peer}
  <2>1. PICK m \in seen : m.port = i.peer /\ m.peer = i.port
    BY <1>2
  <2>2. PICK n \in seen : n.port = j.peer /\ n.peer = j.port
    BY <1>2
  <2>3. CASE i.port = j.port
    BY <1>2, <2>3
  <2>4. CASE i.port = j.peer
    <3>1. n = i
      BY <1>2, <2>2, <2>4
    <3>2. QED
      BY <2>2, <2>4, <3>1
  <2>5. CASE i.peer = j.port
    <3>1. m = j
      BY <1>2, <2>1, <2>5
    <3>2. QED
      BY <2>1, <2>5, <3>1
  <2>6. CASE i.peer = j.peer
    <3>1. m = n
      BY <1>2, <2>1, <2>2, <2>6
    <3>2. QED
      BY <2>1, <2>2, <2>6, <3>1
  <2>7. QED
    BY <1>4, <2>3, <2>4, <2>5, <2>6
<1>5. ASSUME NEW l \in T!PhysicalLinks(seen), NEW k \in T!PhysicalLinks(seen)
      PROVE  /\ l = k \/ l \cap k = {}
             /\ \E p, q \in l : T!Device(p) # T!Device(q)
             /\ \A p \in l : T!Device(p) \in Listed
  <2>1. PICK i \in linked : l = {i.port, i.peer}
    BY <1>1
  <2>2. PICK j \in linked : k = {j.port, j.peer}
    BY <1>1
  <2>3. l = k \/ l \cap k = {}
    BY <1>4, <2>1, <2>2
  <2>4. i.port \in l /\ i.peer \in l /\ T!Device(i.port) # T!Device(i.peer)
    BY <1>2, <2>1
  <2>5. \A p \in l : T!Device(p) \in Listed
    BY <1>2, <2>1
  <2>6. QED
    BY <2>3, <2>4, <2>5
<1>6. QED
  BY <1>3, <1>5

LEMMA Owned ==
  ASSUME NEW seen \in SUBSET T!Interface, NEW a
  PROVE  T!OneOwner(a, seen) => \E p \in Port : T!Owners(a, seen) = {p}
<1>1. T!Owners(a, seen) \subseteq Port
  BY DEF T!Owners, T!Interface
<1>2. QED
  BY <1>1 DEF T!OneOwner, T!Single

(* An entry that leads from d to e.                                        *)
LEMMA Entry ==
  ASSUME NEW seen \in SUBSET T!Interface, NEW d, NEW e, NEW x \in T!Directed(d, e, seen)
  PROVE  /\ x[1] \in DOMAIN T!NeighborsOf(d) /\ x[2] \in Port /\ x = <<x[1], x[2]>>
         /\ T!Device(x[2]) = e /\ e # d /\ T!Owners(T!NeighborsOf(d)[x[1]], seen) = {x[2]}
<1>1. /\ x \in (DOMAIN T!NeighborsOf(d)) \X Port /\ T!OneOwner(T!NeighborsOf(d)[x[1]], seen)
      /\ x[2] \in T!Owners(T!NeighborsOf(d)[x[1]], seen) /\ T!Device(x[2]) = e /\ e # d
  BY DEF T!Directed
<1>2. T!Owners(T!NeighborsOf(d)[x[1]], seen) = {x[2]}
  BY <1>1, Owned
<1>3. QED
  BY <1>1, <1>2

LEMMA Mutual ==
  ASSUME NEW seen \in SUBSET T!Interface, NEW l \in T!BgpLinks(seen)
  PROVE  /\ l \in SUBSET Port
         /\ \A p \in l : \E q \in l \ {p} : \E i \in DOMAIN T!NeighborsOf(T!Device(q)) :
              T!Owners(T!NeighborsOf(T!Device(q))[i], seen) = {p}
<1>1. PICK s \in Listed, t \in Listed :
        l \in {{r[2], f[2]} : r \in T!Directed(t, s, seen), f \in T!Directed(s, t, seen)}
  BY DEF T!BgpLinks, T!Peerings
<1>2. PICK r \in T!Directed(t, s, seen), f \in T!Directed(s, t, seen) : l = {r[2], f[2]}
  BY <1>1
<1>3. /\ f[1] \in DOMAIN T!NeighborsOf(s) /\ f[2] \in Port /\ T!Device(f[2]) = t /\ t # s
      /\ T!Owners(T!NeighborsOf(s)[f[1]], seen) = {f[2]}
  BY Entry
<1>4. /\ r[1] \in DOMAIN T!NeighborsOf(t) /\ r[2] \in Port /\ T!Device(r[2]) = s
      /\ T!Owners(T!NeighborsOf(t)[r[1]], seen) = {r[2]}
  BY Entry
<1>5. f[2] # r[2]
  BY <1>3, <1>4
<1>6. \E i \in DOMAIN T!NeighborsOf(T!Device(r[2])) :
        T!Owners(T!NeighborsOf(T!Device(r[2]))[i], seen) = {f[2]}
  BY <1>3, <1>4
<1>7. \E i \in DOMAIN T!NeighborsOf(T!Device(f[2])) :
        T!Owners(T!NeighborsOf(T!Device(f[2]))[i], seen) = {r[2]}
  BY <1>3, <1>4
<1>8. QED
  BY <1>2, <1>3, <1>4, <1>5, <1>6, <1>7

(* A peering whose two addresses each have one owner and are the only ones *)
(* between the devices is drawn.                                           *)
LEMMA Drawn ==
  ASSUME NEW seen \in SUBSET T!Interface, NEW p \in Port, NEW q \in Port,
         NEW i, NEW j, T!Device(p) \in Listed, T!Device(q) \in Listed,
         T!Directed(T!Device(p), T!Device(q), seen) = {<<i, q>>},
         T!Directed(T!Device(q), T!Device(p), seen) = {<<j, p>>}
  PROVE  {p, q} \in T!BgpLinks(seen)
<1> DEFINE forward == T!Directed(T!Device(p), T!Device(q), seen)
<1> DEFINE reverse == T!Directed(T!Device(q), T!Device(p), seen)
<1>1. T!Single(forward) /\ T!Single(reverse)
  BY DEF T!Single
<1>2. {p, q} \in {{r[2], f[2]} : r \in reverse, f \in forward}
  OBVIOUS
<1>3. T!Peerings(T!Device(p), T!Device(q), seen) = {{r[2], f[2]} : r \in reverse, f \in forward}
  BY <1>1 DEF T!Peerings
<1>4. QED
  BY <1>2, <1>3 DEF T!BgpLinks

-----------------------------------------------------------------------------
(* T has operators of its own for the sizes of sets.                       *)
LEMMA Counted == ASSUME NEW S PROVE T!Cardinality(S) = Cardinality(S) /\ T!IsFiniteSet(S) = IsFiniteSet(S)
<1>1. T!Cardinality(S) = Cardinality(S)
  BY DEF T!Cardinality, Cardinality
<1>2. T!IsFiniteSet(S) = IsFiniteSet(S)
  BY DEF T!IsFiniteSet, IsFiniteSet
<1>3. QED
  BY <1>1, <1>2

(* A page is all there is or full.                                         *)
LEMMA Paged ==
  ASSUME NEW S, NEW n, NEW some \in T!Page(S, n)
  PROVE  some \subseteq S /\ (some = S \/ T!Cardinality(some) = n) /\ (T!Cardinality(S) <= n => some = S)
<1>1. CASE T!Cardinality(S) <= n
  BY <1>1 DEF T!Page
<1>2. CASE ~ T!Cardinality(S) <= n
  BY <1>2 DEF T!Page
<1>3. QED
  BY <1>1, <1>2

(* The links that are drawn: peerings are cut last.                        *)
LEMMA Cut ==
  ASSUME T!TopologyConstants, NEW B \in SUBSET SUBSET Port, NEW P_,
         NEW b \in T!Page(B, LinkLimit), NEW p \in T!Page(P_, LinkLimit - T!Cardinality(b))
  PROVE  /\ b \subseteq B /\ p \subseteq P_
         /\ b = B \/ T!Cardinality(b) = LinkLimit
         /\ p = P_ \/ T!Cardinality(b) + T!Cardinality(p) = LinkLimit
<1>1. b \subseteq B /\ (b = B \/ T!Cardinality(b) = LinkLimit)
  BY Paged
<1>2. p \subseteq P_ /\ (p = P_ \/ T!Cardinality(p) = LinkLimit - T!Cardinality(b))
  BY Paged
<1>3. T!Cardinality(b) \in Nat
  <2>1. IsFiniteSet(Port)
    BY Counted DEF T!TopologyConstants
  <2>2. IsFiniteSet(SUBSET Port)
    BY <2>1, FS_SUBSET
  <2>3. b \subseteq SUBSET Port
    BY <1>1
  <2>4. IsFiniteSet(b)
    BY <2>2, <2>3, FS_Subset
  <2>5. Cardinality(b) \in Nat
    BY <2>4, FS_CardinalityType
  <2>6. QED
    BY <2>5, Counted
<1>4. LinkLimit \in Nat
  BY DEF T!TopologyConstants
<1>5. T!Cardinality(p) = LinkLimit - T!Cardinality(b) => T!Cardinality(b) + T!Cardinality(p) = LinkLimit
  BY <1>3, <1>4
<1>6. QED
  BY <1>1, <1>2, <1>5

(* What one request for interfaces returns.                                *)
LEMMA Requested ==
  ASSUME T!TypeOK, NEW d \in Listed, NEW some \in T!Pages(d)
  PROVE  /\ T!InterfacesOf(some) \in SUBSET T!Interface
         /\ T!Whole(d) => \A p \in Port : T!Device(p) = d => \E i \in T!InterfacesOf(some) : i.port = p
         /\ \A i, j \in T!InterfacesOf(some) : i.port = j.port => i = j
         /\ \A i \in T!InterfacesOf(some) :
              /\ i.port \in Port /\ T!Device(i.port) = d
              /\ \A c \in cables : i.port \in c => c = {i.port, i.peer}
              /\ \A a \in Address : a \in i.addresses <=> <<i.port, a>> \in assigned
<1> DEFINE I(p) ==
      [port |-> p, peer |-> T!PeerOf(p), addresses |-> {a \in Address : <<p, a>> \in assigned}]
<1>1. T!InterfacesOf(some) = {I(p) : p \in some}
  BY DEF T!InterfacesOf
<1>2. some \subseteq T!PortsOf(d) /\ (T!Whole(d) => some = T!PortsOf(d))
  BY Paged DEF T!Pages, T!Whole
<1>3. \A p \in some : p \in Port /\ T!Device(p) = d
  BY <1>2 DEF T!PortsOf
<1>4. T!Whole(d) => \A p \in Port : T!Device(p) = d => p \in some
  BY <1>2 DEF T!PortsOf
<1>5. \A p \in Port :
        /\ I(p) \in T!Interface /\ I(p).port = p
        /\ \A c \in cables : p \in c => c = {p, I(p).peer}
        /\ \A a \in Address : a \in I(p).addresses <=> <<p, a>> \in assigned
  <2>1. SUFFICES ASSUME NEW p \in Port
                 PROVE  /\ I(p) \in T!Interface /\ I(p).port = p
                        /\ \A c \in cables : p \in c => c = {p, I(p).peer}
                        /\ \A a \in Address : a \in I(p).addresses <=> <<p, a>> \in assigned
    OBVIOUS
  <2>2. T!PeerOf(p) \in Port \cup {None} /\ \A c \in cables : p \in c => c = {p, T!PeerOf(p)}
    BY Peers
  <2>3. I(p) \in T!Interface
    BY <2>2 DEF T!Interface
  <2>4. QED
    BY <2>2, <2>3
<1> HIDE DEF I
<1>6. T!InterfacesOf(some) \in SUBSET T!Interface
  BY <1>1, <1>3, <1>5
<1>7. T!Whole(d) => \A p \in Port : T!Device(p) = d => \E i \in T!InterfacesOf(some) : i.port = p
  BY <1>1, <1>4, <1>5
<1>8. \A i, j \in T!InterfacesOf(some) : i.port = j.port => i = j
  BY <1>1, <1>3, <1>5
<1>9. \A i \in T!InterfacesOf(some) :
        /\ i.port \in Port /\ T!Device(i.port) = d
        /\ \A c \in cables : i.port \in c => c = {i.port, i.peer}
        /\ \A a \in Address : a \in i.addresses <=> <<i.port, a>> \in assigned
  BY <1>1, <1>3, <1>5
<1>10. QED
  BY <1>6, <1>7, <1>8, <1>9

(* What was steady stays so while nothing is edited.                       *)
LEMMA Kept ==
  ASSUME UNCHANGED <<steady, ever>>, NEW p \in Port, NEW q \in Port
  PROVE  T!SteadyPeering(p, q)' = T!SteadyPeering(p, q) /\ T!SteadyCable(p, q)' = T!SteadyCable(p, q)
BY DEF T!SteadyPeering, T!SteadyCable, T!Leads, T!SoleOwner, T!OnlyWay

LEMMA InitIInv == ASSUME T!TopologyConstants, T!Init PROVE T!IInv
<1>1. cables \subseteq T!Cable /\ T!Disjoint(cables)
  BY DEF T!Init, T!TopologyConstants
<1>2. T!TypeOK
  BY <1>1 DEF T!Init, T!TypeOK
<1>3. QED
  BY <1>2 DEF T!Init, T!IInv, T!GraphIsPossible, T!PortHasOneLink, T!PeeringIsMutual, T!SteadyLinkIsDrawn,
              T!ReadSoFar, T!NothingSteady

(* Whatever is edited, while no graph is shown.                            *)
LEMMA EditIInv ==
  ASSUME T!TopologyConstants, T!IInv, T!Edit, cables' \subseteq T!Cable, assigned' \subseteq Assignable,
         T!Disjoint(cables')
  PROVE  T!IInv'
<1>1. /\ T!TypeOK /\ T!ReadSoFar /\ T!NothingSteady /\ graph = None
      /\ UNCHANGED <<subject, unread, interfaces, graph>>
      /\ steady' = [cables |-> steady.cables \cap cables', assigned |-> steady.assigned \cap assigned']
      /\ ever' = IF unread = None THEN {} ELSE ever \cup assigned'
  BY DEF T!IInv, T!GraphIsPossible, T!Edit
<1>2. /\ steady'.cables = steady.cables \cap cables'
      /\ steady'.assigned = steady.assigned \cap assigned'
  BY <1>1
<1>3. unread = None => steady'.cables = {} /\ steady'.assigned = {}
  BY <1>1, <1>2 DEF T!NothingSteady
<1>4. T!TypeOK'
  BY <1>1, <1>2, <1>3 DEF T!TypeOK
<1>5. T!ReadSoFar'
  BY <1>1, <1>2 DEF T!ReadSoFar
<1>6. T!NothingSteady'
  BY <1>1, <1>3 DEF T!NothingSteady
<1>7. QED
  BY <1>1, <1>4, <1>5, <1>6 DEF T!IInv, T!GraphIsPossible, T!PortHasOneLink, T!PeeringIsMutual,
                                T!SteadyLinkIsDrawn

LEMMA ReadInterfacesIInv ==
  ASSUME T!TopologyConstants, T!IInv, NEW d \in Listed, T!ReadInterfaces(d)
  PROVE  T!IInv'
<1>1. PICK some \in T!Pages(d) : interfaces' = interfaces \cup T!InterfacesOf(some)
  BY DEF T!ReadInterfaces
<1> DEFINE new == T!InterfacesOf(some)
<1>2. /\ T!TypeOK /\ T!ReadSoFar /\ unread # None /\ d \in unread /\ unread \subseteq Listed
      /\ unread' = unread \ {d} /\ interfaces' = interfaces \cup new
      /\ UNCHANGED <<subject, cables, assigned, graph, steady, ever>>
  BY <1>1 DEF T!IInv, T!GraphIsPossible, T!TypeOK, T!ReadInterfaces, T!nautobot
<1>3. /\ graph = None /\ assigned \subseteq ever
      /\ \A i, j \in interfaces : i.port = j.port => i = j
      /\ \A p \in Port : T!Device(p) \in Listed \ unread /\ T!Whole(T!Device(p)) =>
           \E i \in interfaces : i.port = p
      /\ \A i \in interfaces :
           /\ T!Device(i.port) \in Listed \ unread
           /\ \A c \in steady.cables : i.port \in c => c = {i.port, i.peer}
           /\ \A x \in steady.assigned : x[1] = i.port => x[2] \in i.addresses
           /\ \A a \in i.addresses : <<i.port, a>> \in ever
  BY <1>2 DEF T!ReadSoFar
<1>4. /\ new \in SUBSET T!Interface
      /\ T!Whole(d) => \A p \in Port : T!Device(p) = d => \E i \in new : i.port = p
      /\ \A i, j \in new : i.port = j.port => i = j
      /\ \A i \in new :
           /\ i.port \in Port /\ T!Device(i.port) = d
           /\ \A c \in cables : i.port \in c => c = {i.port, i.peer}
           /\ \A a \in Address : a \in i.addresses <=> <<i.port, a>> \in assigned
  BY <1>2, Requested
<1> HIDE DEF new
<1>5. unread' # None
  BY <1>2 DEF T!TopologyConstants
<1>6. T!TypeOK'
  BY <1>2, <1>4 DEF T!TypeOK
<1>7. \A i, j \in interfaces' : i.port = j.port => i = j
  <2>1. \A i \in interfaces, j \in new : i.port # j.port
    BY <1>2, <1>3, <1>4
  <2>2. QED
    BY <1>2, <1>3, <1>4, <2>1
<1>8. ASSUME NEW p \in Port, T!Device(p) \in Listed \ unread', T!Whole(T!Device(p))
      PROVE  \E i \in interfaces' : i.port = p
  <2>1. CASE T!Device(p) = d
    BY <1>2, <1>4, <1>8, <2>1
  <2>2. CASE T!Device(p) # d
    BY <1>2, <1>3, <1>8, <2>2
  <2>3. QED
    BY <2>1, <2>2
<1>9. \A i \in interfaces' : T!Device(i.port) \in Listed \ unread'
  BY <1>2, <1>3, <1>4
<1>10. ASSUME NEW i \in new
       PROVE  /\ \A c \in steady.cables : i.port \in c => c = {i.port, i.peer}
              /\ \A x \in steady.assigned : x[1] = i.port => x[2] \in i.addresses
              /\ \A a \in i.addresses : <<i.port, a>> \in ever
  <2>1. steady.cables \subseteq cables /\ steady.assigned \subseteq assigned
    BY <1>2 DEF T!TypeOK
  <2>2. \A x \in steady.assigned : x = <<x[1], x[2]>> /\ x[2] \in Address
    BY <1>2, <2>1 DEF T!TypeOK, T!TopologyConstants
  <2>3. i.addresses \subseteq Address
    BY <1>4 DEF T!Interface
  <2>4. QED
    BY <1>3, <1>4, <2>1, <2>2, <2>3
<1>11. T!ReadSoFar'
  BY <1>2, <1>3, <1>7, <1>8, <1>9, <1>10 DEF T!ReadSoFar, T!Whole
<1>12. T!NothingSteady'
  BY <1>5 DEF T!NothingSteady
<1>13. QED
  BY <1>2, <1>3, <1>6, <1>11, <1>12 DEF T!IInv, T!GraphIsPossible, T!PortHasOneLink, T!PeeringIsMutual,
                                        T!SteadyLinkIsDrawn

LEMMA ReadInventoryIInv == ASSUME T!TopologyConstants, T!IInv, T!ReadInventory PROVE T!IInv'
<1>1. /\ T!TypeOK /\ unread' = Listed /\ interfaces' = {} /\ graph' = None
      /\ steady' = [cables |-> cables, assigned |-> assigned] /\ ever' = assigned
      /\ UNCHANGED <<subject, cables, assigned>>
  BY DEF T!IInv, T!GraphIsPossible, T!ReadInventory, T!nautobot
<1>2. Listed # None
  BY DEF T!TopologyConstants
<1>3. T!TypeOK'
  BY <1>1 DEF T!TypeOK
<1>4. T!ReadSoFar' /\ T!NothingSteady'
  BY <1>1, <1>2 DEF T!ReadSoFar, T!NothingSteady
<1>5. QED
  BY <1>1, <1>3, <1>4 DEF T!IInv, T!GraphIsPossible, T!PortHasOneLink, T!PeeringIsMutual, T!SteadyLinkIsDrawn

LEMMA ReadFailsIInv == ASSUME T!TopologyConstants, T!IInv, T!ReadFails PROVE T!IInv'
<1>1. /\ T!TypeOK /\ unread' = None /\ interfaces' = {} /\ graph' = None
      /\ steady' = [cables |-> {}, assigned |-> {}] /\ ever' = {}
      /\ UNCHANGED <<subject, cables, assigned>>
  BY DEF T!IInv, T!GraphIsPossible, T!ReadFails, T!nautobot, T!ReadSoFar
<1>2. T!TypeOK'
  BY <1>1 DEF T!TypeOK
<1>3. QED
  BY <1>1, <1>2 DEF T!IInv, T!GraphIsPossible, T!PortHasOneLink, T!PeeringIsMutual, T!SteadyLinkIsDrawn,
                    T!ReadSoFar, T!NothingSteady

(* When all has been read, what has been there all the time is among the   *)
(* links the graph is cut from: cables,                                    *)
LEMMA CableFound ==
  ASSUME T!TopologyConstants, T!TypeOK, T!ReadSoFar, unread = {}, unread # None,
         NEW p \in Port, NEW q \in Port, T!Whole(T!Device(p)), T!Whole(T!Device(q)), T!SteadyCable(p, q)
  PROVE  {p, q} \in T!PhysicalLinks(interfaces)
<1>1. /\ T!Device(p) \in Listed /\ T!Device(q) \in Listed /\ T!Device(p) # T!Device(q)
      /\ {p, q} \in steady.cables
  BY DEF T!SteadyCable, T!Apart
<1>2. PICK i \in interfaces : i.port = p
  BY <1>1 DEF T!ReadSoFar
<1>3. PICK j \in interfaces : j.port = q
  BY <1>1 DEF T!ReadSoFar
<1>4. {p, q} = {i.port, i.peer} /\ {p, q} = {j.port, j.peer}
  BY <1>1, <1>2, <1>3 DEF T!ReadSoFar
<1>5. i.peer = q /\ j.peer = p
  BY <1>1, <1>2, <1>3, <1>4
<1>6. i.peer # None
  BY <1>5 DEF T!TopologyConstants
<1>7. T!Reciprocal(i, interfaces)
  BY <1>2, <1>3, <1>5 DEF T!Reciprocal
<1>8. QED
  BY <1>1, <1>2, <1>5, <1>6, <1>7 DEF T!PhysicalLinks

(* the way from a device to the port of another's,                         *)
LEMMA WayFound ==
  ASSUME T!TypeOK, T!ReadSoFar, unread = {}, unread # None,
         NEW d \in Listed, NEW q \in Port, T!Device(q) \in Listed \ {d}, T!Whole(T!Device(q)),
         NEW i \in DOMAIN T!NeighborsOf(d),
         T!SoleOwner(T!NeighborsOf(d)[i], q), T!OnlyWay(d, i, T!Device(q))
  PROVE  T!Directed(d, T!Device(q), interfaces) = {<<i, q>>}
<1> DEFINE a == T!NeighborsOf(d)[i]
<1>1. interfaces \in SUBSET T!Interface
  BY DEF T!TypeOK
<1>2. ASSUME NEW e, NEW x \in T!Owners(e, interfaces) PROVE <<x, e>> \in ever
  BY <1>2 DEF T!Owners, T!ReadSoFar
<1>3. <<q, a>> \in steady.assigned /\ \A x \in ever : x[2] = a => x[1] = q
  BY DEF T!SoleOwner
<1>4. \A x \in T!Owners(a, interfaces) : x = q
  <2>1. SUFFICES ASSUME NEW x \in T!Owners(a, interfaces) PROVE x = q
    OBVIOUS
  <2>2. <<x, a>> \in ever
    BY <1>2
  <2>3. QED
    BY <1>3, <2>2
<1>5. q \in T!Owners(a, interfaces)
  <2>1. PICK j \in interfaces : j.port = q
    BY DEF T!ReadSoFar
  <2>2. <<q, a>>[1] = j.port => <<q, a>>[2] \in j.addresses
    BY <1>3, <2>1 DEF T!ReadSoFar
  <2>3. a \in j.addresses
    BY <2>1, <2>2
  <2>4. QED
    BY <2>1, <2>3 DEF T!Owners
<1>6. T!Owners(a, interfaces) = {q}
  BY <1>4, <1>5
<1>7. T!OneOwner(a, interfaces)
  BY <1>6 DEF T!OneOwner, T!Single
<1>8. <<i, q>> \in T!Directed(d, T!Device(q), interfaces)
  BY <1>5, <1>7 DEF T!Directed
<1>9. ASSUME NEW x \in T!Directed(d, T!Device(q), interfaces) PROVE x = <<i, q>>
  <2>1. /\ x[1] \in DOMAIN T!NeighborsOf(d) /\ x = <<x[1], x[2]>> /\ T!Device(x[2]) = T!Device(q)
        /\ T!Owners(T!NeighborsOf(d)[x[1]], interfaces) = {x[2]}
    BY <1>1, Entry
  <2>2. <<x[2], T!NeighborsOf(d)[x[1]]>> \in ever
    BY <1>2, <2>1
  <2>3. x[1] = i
    BY <2>1, <2>2 DEF T!OnlyWay
  <2>4. x[2] = q
    BY <1>6, <2>1, <2>3
  <2>5. QED
    BY <2>1, <2>3, <2>4
<1>10. QED
  BY <1>8, <1>9

(* and peerings.                                                           *)
LEMMA PeeringFound ==
  ASSUME T!TypeOK, T!ReadSoFar, unread = {}, unread # None,
         NEW p \in Port, NEW q \in Port, T!Whole(T!Device(p)), T!Whole(T!Device(q)), T!SteadyPeering(p, q)
  PROVE  {p, q} \in T!BgpLinks(interfaces)
<1>1. T!Device(p) \in Listed \ {T!Device(q)} /\ T!Device(q) \in Listed \ {T!Device(p)}
  BY DEF T!SteadyPeering, T!Apart
<1>2. PICK i \in DOMAIN T!NeighborsOf(T!Device(p)) :
        T!SoleOwner(T!NeighborsOf(T!Device(p))[i], q) /\ T!OnlyWay(T!Device(p), i, T!Device(q))
  BY DEF T!SteadyPeering, T!Leads
<1>3. PICK j \in DOMAIN T!NeighborsOf(T!Device(q)) :
        T!SoleOwner(T!NeighborsOf(T!Device(q))[j], p) /\ T!OnlyWay(T!Device(q), j, T!Device(p))
  BY DEF T!SteadyPeering, T!Leads
<1>4. T!Directed(T!Device(p), T!Device(q), interfaces) = {<<i, q>>}
  BY <1>1, <1>2, WayFound
<1>5. T!Directed(T!Device(q), T!Device(p), interfaces) = {<<j, p>>}
  BY <1>1, <1>3, WayFound
<1>6. QED
  BY <1>1, <1>4, <1>5, Drawn DEF T!TypeOK

(* What the graph is made of.                                              *)
LEMMA AnswerIInv == ASSUME T!TopologyConstants, T!IInv, T!Answer PROVE T!IInv'
<1> DEFINE B == T!BgpLinks(interfaces)
<1> DEFINE L == T!PhysicalLinks(interfaces)
<1>1. /\ T!TypeOK /\ T!ReadSoFar /\ unread = {} /\ unread # None /\ unread' = None
      /\ UNCHANGED <<subject, cables, assigned, interfaces, steady, ever>>
  BY DEF T!IInv, T!GraphIsPossible, T!Answer, T!nautobot, T!TopologyConstants
<1>2. PICK b \in T!Page(B, LinkLimit) : \E l \in T!Page(L, LinkLimit - T!Cardinality(b)) :
        graph' = [physical |-> l, bgp |-> b, complete |-> \A d \in Listed : Neighbors[d] # None]
  BY DEF T!Answer
<1>3. PICK l \in T!Page(L, LinkLimit - T!Cardinality(b)) :
        graph' = [physical |-> l, bgp |-> b, complete |-> \A d \in Listed : Neighbors[d] # None]
  BY <1>2
<1>4. /\ interfaces \in SUBSET T!Interface
      /\ \A i, j \in interfaces : i.port = j.port => i = j
      /\ \A i \in interfaces : T!Device(i.port) \in Listed
  BY <1>1 DEF T!ReadSoFar, T!TypeOK
<1>5. /\ L \in SUBSET SUBSET Port
      /\ \A m, k \in L :
           /\ m = k \/ m \cap k = {}
           /\ \E p, q \in m : T!Device(p) # T!Device(q)
           /\ \A p \in m : T!Device(p) \in Listed
  BY <1>4, OneLink
<1>6. \A m \in B :
        /\ m \in SUBSET Port
        /\ \A p \in m : \E q \in m \ {p} : \E i \in DOMAIN T!NeighborsOf(T!Device(q)) :
             T!Owners(T!NeighborsOf(T!Device(q))[i], interfaces) = {p}
  BY <1>4, Mutual
<1>7. B \in SUBSET SUBSET Port
  BY <1>6
<1>8. \A p, q \in Port : T!Whole(T!Device(p)) /\ T!Whole(T!Device(q)) =>
        (T!SteadyPeering(p, q) => {p, q} \in B) /\ (T!SteadyCable(p, q) => {p, q} \in L)
  BY <1>1, CableFound, PeeringFound
<1> HIDE DEF B, L
<1>9. /\ b \subseteq B /\ l \subseteq L
      /\ b = B \/ T!Cardinality(b) = LinkLimit
      /\ l = L \/ T!Cardinality(b) + T!Cardinality(l) = LinkLimit
  BY <1>2, <1>3, <1>7, Cut
<1>10. graph'.physical = l /\ graph'.bgp = b
  BY <1>3
<1>11. graph' \in T!Graph /\ graph' # None
  <2>1. b \in SUBSET SUBSET Port /\ l \in SUBSET SUBSET Port
    BY <1>5, <1>7, <1>9
  <2>2. (\A d \in Listed : Neighbors[d] # None) \in BOOLEAN
    OBVIOUS
  <2>3. graph' \in T!Graph
    BY <1>3, <2>1, <2>2 DEF T!Graph
  <2>4. QED
    BY <2>3 DEF T!TopologyConstants
<1>12. T!TypeOK'
  BY <1>1, <1>11 DEF T!TypeOK
<1>13. T!PortHasOneLink'
  BY <1>5, <1>9, <1>10 DEF T!PortHasOneLink
<1>14. T!PeeringIsMutual'
  BY <1>1, <1>6, <1>9, <1>10 DEF T!PeeringIsMutual
<1>15. T!SteadyLinkIsDrawn'
  <2>1. ASSUME NEW p \in Port, NEW q \in Port, T!Whole(T!Device(p)), T!Whole(T!Device(q))
        PROVE  /\ T!SteadyPeering(p, q) => {p, q} \in b \/ T!Cardinality(b) = LinkLimit
               /\ T!SteadyCable(p, q) =>
                    {p, q} \in l \/ T!Cardinality(b) + T!Cardinality(l) = LinkLimit
    BY <1>8, <1>9, <2>1
  <2>2. ASSUME NEW p \in Port, NEW q \in Port
        PROVE  T!SteadyPeering(p, q)' = T!SteadyPeering(p, q) /\ T!SteadyCable(p, q)' = T!SteadyCable(p, q)
    BY <1>1, Kept
  <2>3. QED
    BY <1>10, <2>1, <2>2 DEF T!SteadyLinkIsDrawn
<1>16. T!ReadSoFar' /\ T!NothingSteady'
  BY <1>1, <1>11 DEF T!ReadSoFar, T!NothingSteady
<1>17. QED
  BY <1>12, <1>13, <1>14, <1>15, <1>16 DEF T!IInv, T!GraphIsPossible

LEMMA NextIInv == ASSUME T!TopologyConstants, T!IInv, [T!Next]_T!vars PROVE T!IInv'
<1>1. cables \subseteq T!Cable /\ T!Disjoint(cables) /\ assigned \subseteq Assignable
  BY DEF T!IInv, T!GraphIsPossible, T!TypeOK
<1>2. ASSUME NEW c \in Connectable, T!Connect(c) PROVE T!IInv'
  <2>1. /\ \A d \in cables : c \cap d = {}
        /\ cables' = cables \cup {c} /\ assigned' = assigned /\ T!Edit
    BY <1>2 DEF T!Connect
  <2>2. T!Disjoint(cables')
    BY <1>1, <2>1 DEF T!Disjoint
  <2>3. c \in T!Cable
    BY DEF T!TopologyConstants
  <2>4. QED
    BY <1>1, <2>1, <2>2, <2>3, EditIInv
<1>3. ASSUME NEW c \in Connectable, T!Disconnect(c) PROVE T!IInv'
  <2>1. cables' = cables \ {c} /\ assigned' = assigned /\ T!Edit
    BY <1>3 DEF T!Disconnect
  <2>2. T!Disjoint(cables')
    BY <1>1, <2>1 DEF T!Disjoint
  <2>3. QED
    BY <1>1, <2>1, <2>2, EditIInv
<1>4. ASSUME NEW x \in Assignable, T!Assign(x) \/ T!Unassign(x) PROVE T!IInv'
  <2>1. assigned' \subseteq Assignable /\ cables' = cables /\ T!Edit
    BY <1>1, <1>4 DEF T!Assign, T!Unassign
  <2>2. T!Disjoint(cables')
    BY <1>1, <2>1 DEF T!Disjoint
  <2>3. QED
    BY <1>1, <2>1, <2>2, EditIInv
<1>5. CASE UNCHANGED T!vars
  <2>1. UNCHANGED <<subject, cables, assigned, unread, interfaces, graph, steady, ever>>
    BY <1>5 DEF T!vars, T!nautobot
  <2>2. T!TypeOK' /\ T!PortHasOneLink' /\ T!PeeringIsMutual'
    BY <2>1 DEF T!IInv, T!GraphIsPossible, T!TypeOK, T!PortHasOneLink, T!PeeringIsMutual
  <2>3. ASSUME NEW p \in Port, NEW q \in Port
        PROVE  T!SteadyPeering(p, q)' = T!SteadyPeering(p, q) /\ T!SteadyCable(p, q)' = T!SteadyCable(p, q)
    BY <2>1, Kept
  <2>4. T!SteadyLinkIsDrawn'
    BY <2>1, <2>3 DEF T!IInv, T!SteadyLinkIsDrawn
  <2>5. T!ReadSoFar' /\ T!NothingSteady'
    BY <2>1 DEF T!IInv, T!ReadSoFar, T!NothingSteady
  <2>6. QED
    BY <2>2, <2>4, <2>5 DEF T!IInv, T!GraphIsPossible
<1>6. QED
  BY <1>2, <1>3, <1>4, <1>5, ReadInventoryIInv, ReadInterfacesIInv, ReadFailsIInv, AnswerIInv
     DEF T!Next

LEMMA IInvIsInvariant == ASSUME T!TopologyConstants PROVE T!Spec => []T!IInv
<1>1. T!Init => T!IInv
  BY InitIInv
<1>2. T!IInv /\ [T!Next]_T!vars => T!IInv'
  BY NextIInv
<1>3. QED
  BY <1>1, <1>2, PTL DEF T!Spec

-----------------------------------------------------------------------------
(* However cables and addresses are moved between the requests the graph is*)
(* read with, it is one the network could have had: a port is an end of one*)
(* link at most, and peerings join devices that name each other's address  *)
(* (devices.py:539-603, nautobot.py:272-328).                              *)
THEOREM DrawnIsPossible == T!Spec => []GraphIsPossible
<1>1. T!IInv => GraphIsPossible
  BY DEF GraphIsPossible, T!IInv
<1>2. QED
  BY <1>1, TopologyInputs, IInvIsInvariant, PTL

(* Of devices whose interfaces fit one page, every cable, and every peering *)
(* that is not ambiguous, that was there during the whole read is drawn,    *)
(* unless the graph is full of peerings, or for a cable of links           *)
(* (devices.py:525-605, nautobot.py:246-258).                              *)
THEOREM SteadyIsDrawn == T!Spec => []SteadyLinkIsDrawn
<1>1. T!IInv => SteadyLinkIsDrawn
  BY DEF SteadyLinkIsDrawn, T!IInv
<1>2. QED
  BY <1>1, TopologyInputs, IInvIsInvariant, PTL

(* The overview, which colours a node twice, and the topology page make the*)
(* same status of an inventory status and of one deployment                *)
(* (app.py:438-465, devices.py:469-486).                                   *)
THEOREM OneColour == T!Spec => []OverviewAgreesWithTopology
<1>1. ASSUME NEW inventory \in T!InventoryStatus, NEW deployment \in T!Deployment
      PROVE  T!Overridden(T!FromInventory(inventory), deployment) = T!NodeStatus(inventory, deployment)
  <2>1. CASE deployment.validation \in {"passed", "failed"}
    BY <2>1 DEF T!Deployment, T!Overridden, T!NodeStatus, T!Node, T!Failure
  <2>2. CASE deployment.validation \notin {"passed", "failed"}
    BY <2>2 DEF T!Deployment, T!Overridden, T!NodeStatus, T!Node, T!Failure, T!FromInventory, T!InventoryStatus
  <2>3. QED
    BY <2>1, <2>2
<1>2. OverviewAgreesWithTopology
  BY <1>1 DEF OverviewAgreesWithTopology, T!OverviewAgreesWithTopology
<1>3. QED
  BY <1>2, PTL
=============================================================================
