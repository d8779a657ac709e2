------------------------- MODULE DeviceReadsProofs -------------------------
(***************************************************************************)
(* What a device page concludes, for every set of intents and whatever the *)
(* device answers: it is about the intent the page shows, and it agrees    *)
(* with what a deployment's validation would say.  The runs take uniform   *)
(* observations that differ in two leaves, AnySpec any value of any leaf.  *)
(***************************************************************************)
EXTENDS DeviceReads, FiniteSetTheorems, TLAPS

Reading(o, e) == o # None /\ DOMAIN o = ValidationPaths(e)

AnyNext == Next \/ (phase = "device" /\ \E o : Reading(o, snapshot) /\ ReadDevice(o))

AnySpec == Init /\ [][AnyNext]_vars

-----------------------------------------------------------------------------
(* What the leaves are called.                                             *)
LEMMA Names ==
  /\ Hostname[2] = "host-name" /\ LocalAsn[2] = "autonomous-system"
  /\ \A i : /\ Admin(i)[2] = "admin-state" /\ Oper(i)[2] = "oper-state"
            /\ SubAdmin(i)[2] = "subinterface admin-state"
            /\ SubOper(i)[2] = "subinterface oper-state"
            /\ PeerAs(i)[2] = "peer-as" /\ Session(i)[2] = "session-state"
  /\ \A i, e : AddressStatus(i, e)[2] = "status"
BY DEF Hostname, LocalAsn, Admin, Oper, SubAdmin, SubOper, AddressStatus, PeerAs, Session

(* The leaves that are read, one owner and one name at a time.             *)
LEMMA Leaves ==
  ASSUME NEW e, NEW l
  PROVE  /\ l \in ConfigurationLeaves(e) <=>
              \/ l = Hostname \/ l = LocalAsn
              \/ \E i \in Interfaces(e) : l = Admin(i) \/ l = SubAdmin(i) \/ l = AddressStatus(i, e)
              \/ \E n \in e.neighbors : l = PeerAs(n)
         /\ l \in OperationalLeaves(e) <=>
              \/ \E i \in Interfaces(e) : l = Oper(i) \/ l = SubOper(i) \/ l = AddressStatus(i, e)
              \/ \E n \in e.neighbors : l = Session(n)
         /\ l \in ValidationPaths(e) <=>
              \/ l = Hostname \/ l = LocalAsn
              \/ \E i \in Interfaces(e) : \/ l = Admin(i) \/ l = Oper(i) \/ l = SubAdmin(i)
                                          \/ l = SubOper(i) \/ l = AddressStatus(i, e)
              \/ \E n \in e.neighbors : l = PeerAs(n) \/ l = Session(n)
<1>1. l \in ConfigurationLeaves(e) <=>
        \/ l \in {Hostname, LocalAsn}
        \/ \E i \in Interfaces(e) : l \in {Admin(i), SubAdmin(i), AddressStatus(i, e)}
        \/ \E n \in e.neighbors : l = PeerAs(n)
  BY DEF ConfigurationLeaves
<1>2. l \in OperationalLeaves(e) <=>
        \/ \E i \in Interfaces(e) : l \in {Oper(i), SubOper(i), AddressStatus(i, e)}
        \/ \E n \in e.neighbors : l = Session(n)
  BY DEF OperationalLeaves
<1>3. l \in ValidationPaths(e) <=>
        \/ l \in {Hostname, LocalAsn}
        \/ \E i \in Interfaces(e) :
             l \in {Admin(i), Oper(i), SubAdmin(i), SubOper(i), AddressStatus(i, e)}
        \/ \E n \in e.neighbors : l = PeerAs(n) \/ l = Session(n)
  BY DEF ValidationPaths
<1>4. QED
  BY <1>1, <1>2, <1>3, Zenon

(* What is read is what the two judgements want, and the only leaf of both *)
(* an address has is its status.                                           *)
LEMMA ReadForBoth ==
  ASSUME NEW e
  PROVE  ValidationPaths(e) = ConfigurationLeaves(e) \cup OperationalLeaves(e)
<1>1. \A l : l \in ValidationPaths(e) <=> l \in ConfigurationLeaves(e) \/ l \in OperationalLeaves(e)
  BY Leaves
<1>2. QED
  BY <1>1

LEMMA Kinds ==
  ASSUME NEW e, NEW l
  PROVE  /\ l \in OperationalLeaves(e) => l[2] \in Convergence
         /\ l \in ConfigurationLeaves(e) /\ l[2] = "status" => l \in OperationalLeaves(e)
         /\ l \in ConfigurationLeaves(e) /\ l[2] # "status" => l[2] \notin Convergence
<1>1. ASSUME l \in OperationalLeaves(e) PROVE l[2] \in Convergence
  <2>1. \/ \E i : l = Oper(i) \/ l = SubOper(i) \/ l = AddressStatus(i, e)
        \/ \E n : l = Session(n)
    BY <1>1, Leaves
  <2>2. l[2] \in {"oper-state", "subinterface oper-state", "status", "session-state"}
    BY <2>1, Names
  <2>3. QED
    BY <2>2 DEF Convergence
<1>2. ASSUME l \in ConfigurationLeaves(e)
      PROVE  IF l[2] = "status" THEN l \in OperationalLeaves(e) ELSE l[2] \notin Convergence
  <2>1. CASE \E i \in Interfaces(e) : l = AddressStatus(i, e)
    <3>1. l[2] = "status"
      BY <2>1, Names
    <3>2. QED
      BY <2>1, <3>1, Leaves
  <2>2. CASE ~\E i \in Interfaces(e) : l = AddressStatus(i, e)
    <3>1. \/ l = Hostname \/ l = LocalAsn
          \/ \E i \in Interfaces(e) : l = Admin(i) \/ l = SubAdmin(i)
          \/ \E n \in e.neighbors : l = PeerAs(n)
      BY <1>2, <2>2, Leaves
    <3>2. l[2] \notin Convergence /\ l[2] # "status"
      BY <3>1, Names DEF Convergence
    <3>3. QED
      BY <3>2
  <2>3. QED
    BY <2>1, <2>2
<1>3. QED
  BY <1>1, <1>2

(* No leaf is expected to have one of the values that are never right.     *)
LEMMA ExpectedIsUsual ==
  ASSUME DeviceConstants, NEW e \in Intents, NEW l \in ValidationPaths(e)
  PROVE  Expected(e, l) \notin Unusual
<1>1. e.asn \notin Unusual
  BY DEF DeviceConstants
<1>2. l[2] \in {"host-name", "autonomous-system", "admin-state", "oper-state",
                "subinterface admin-state", "subinterface oper-state", "status",
                "peer-as", "session-state"}
  <2>1. \/ l = Hostname \/ l = LocalAsn
        \/ \E i : \/ l = Admin(i) \/ l = Oper(i) \/ l = SubAdmin(i)
                 \/ l = SubOper(i) \/ l = AddressStatus(i, e)
        \/ \E n : l = PeerAs(n) \/ l = Session(n)
    BY Leaves
  <2>2. QED
    BY <2>1, Names
<1>3. Expected(e, l) \in {"device", "enable", "up", "preferred", e.asn, "remote", "established"}
  BY <1>2 DEF Expected
<1>4. QED
  BY <1>1, <1>3 DEF Unusual, Absent, Other, Mistyped, Unsafe

-----------------------------------------------------------------------------
(* The bound on an expected state is one on all results.                   *)
LEMMA UnionIsSmall ==
  ASSUME NEW S, NEW T, IsFiniteSet(S), IsFiniteSet(T)
  PROVE  /\ IsFiniteSet(S \cup T)
         /\ Cardinality(S \cup T) <= Cardinality(S) + Cardinality(T)
         /\ {Cardinality(S), Cardinality(T), Cardinality(S \cup T)} \subseteq Nat
<1>1. /\ IsFiniteSet(S \cup T) /\ IsFiniteSet(S \cap T)
      /\ Cardinality(S \cup T) = Cardinality(S) + Cardinality(T) - Cardinality(S \cap T)
  BY FS_Union, FS_Intersection
<1>2. /\ Cardinality(S) \in Nat /\ Cardinality(T) \in Nat
      /\ Cardinality(S \cap T) \in Nat /\ Cardinality(S \cup T) \in Nat
  BY <1>1, FS_CardinalityType
<1>3. QED
  BY <1>1, <1>2

LEMMA OnePerOwner ==
  ASSUME NEW S, IsFiniteSet(S), NEW name, NEW p
  PROVE  /\ IsFiniteSet({<<i, name, p>> : i \in S})
         /\ Cardinality({<<i, name, p>> : i \in S}) <= Cardinality(S)
<1> DEFINE T == {<<i, name, p>> : i \in S}
           f == [i \in S |-> <<i, name, p>>]
<1>1. f \in Surjection(S, T)
  BY DEF Surjection
<1>2. IsFiniteSet(T) /\ Cardinality(T) <= Cardinality(S)
  <2> HIDE DEF T, f
  <2>1. QED
    BY <1>1, FS_Surjection
<1>3. QED
  BY <1>2

LEMMA PathsAreBounded ==
  ASSUME NEW e, IsFiniteSet(e.routed), IsFiniteSet(e.neighbors)
  PROVE  /\ IsFiniteSet(ValidationPaths(e))
         /\ Cardinality(ValidationPaths(e)) <= CheckTotal(e)
<1> DEFINE I == Interfaces(e)
           N == e.neighbors
           Of(S, name, p) == {<<i, name, p>> : i \in S}
           System == {Hostname, LocalAsn}
           Ups == Of(I, "admin-state", 0) \cup Of(I, "oper-state", 0)
           Subs == Of(I, "subinterface admin-state", 0) \cup Of(I, "subinterface oper-state", 0)
           Statuses == Of(I, "status", e.prefix)
           Peers == Of(N, "peer-as", 0) \cup Of(N, "session-state", 0)
<1>1. IsFiniteSet(I) /\ Cardinality(I) <= 1 + Cardinality(e.routed)
      /\ Cardinality(I) \in Nat /\ Cardinality(N) \in Nat /\ Cardinality(e.routed) \in Nat
  BY FS_Singleton, UnionIsSmall, FS_CardinalityType DEF Interfaces
<1>2. IsFiniteSet(System) /\ Cardinality(System) <= 2
  <2>1. System = {Hostname} \cup {LocalAsn}
    OBVIOUS
  <2>2. QED
    <3>1. /\ IsFiniteSet({Hostname}) /\ Cardinality({Hostname}) = 1
          /\ IsFiniteSet({LocalAsn}) /\ Cardinality({LocalAsn}) = 1
      BY FS_Singleton
    <3>2. /\ IsFiniteSet({Hostname} \cup {LocalAsn})
          /\ Cardinality({Hostname} \cup {LocalAsn}) <= 1 + 1
      BY <3>1, UnionIsSmall
    <3>3. QED
      BY <2>1, <3>2
<1>3. ASSUME NEW S, IsFiniteSet(S), NEW name, NEW other
      PROVE  /\ IsFiniteSet(Of(S, name, 0) \cup Of(S, other, 0))
             /\ Cardinality(Of(S, name, 0) \cup Of(S, other, 0)) <= 2 * Cardinality(S)
  <2>1. ASSUME NEW m PROVE IsFiniteSet(Of(S, m, 0)) /\ Cardinality(Of(S, m, 0)) <= Cardinality(S)
    BY <1>3, OnePerOwner, Zenon
  <2>2. Cardinality(S) \in Nat
    BY <1>3, FS_CardinalityType
  <2> HIDE DEF Of
  <2>3. QED
    BY <2>1, <2>2, UnionIsSmall
<1>4. IsFiniteSet(Statuses) /\ Cardinality(Statuses) <= Cardinality(I)
  BY <1>1, OnePerOwner
<1>5. /\ IsFiniteSet(Ups) /\ Cardinality(Ups) <= 2 * Cardinality(I)
      /\ IsFiniteSet(Subs) /\ Cardinality(Subs) <= 2 * Cardinality(I)
      /\ IsFiniteSet(Peers) /\ Cardinality(Peers) <= 2 * Cardinality(N)
  <2> HIDE DEF Of, I, N
  <2>1. IsFiniteSet(N)
    BY DEF N
  <2>2. QED
    BY <1>1, <1>3, <2>1
<1>6. ValidationPaths(e) = (System \cup Ups) \cup (Subs \cup Statuses) \cup Peers
  <2>1. ASSUME NEW l
        PROVE  /\ l \in Ups <=> \E i \in I : l = Admin(i) \/ l = Oper(i)
               /\ l \in Subs <=> \E i \in I : l = SubAdmin(i) \/ l = SubOper(i)
               /\ l \in Statuses <=> \E i \in I : l = AddressStatus(i, e)
               /\ l \in Peers <=> \E n \in N : l = PeerAs(n) \/ l = Session(n)
    <3>1. l \in Ups <=> \E i \in I : l = Admin(i) \/ l = Oper(i)
      BY Zenon DEF Admin, Oper
    <3>2. l \in Subs <=> \E i \in I : l = SubAdmin(i) \/ l = SubOper(i)
      BY Zenon DEF SubAdmin, SubOper
    <3>3. l \in Statuses <=> \E i \in I : l = AddressStatus(i, e)
      BY Zenon DEF AddressStatus
    <3>4. l \in Peers <=> \E n \in N : l = PeerAs(n) \/ l = Session(n)
      BY Zenon DEF PeerAs, Session
    <3>5. QED
      BY <3>1, <3>2, <3>3, <3>4
  <2>2. ASSUME NEW l
        PROVE  l \in ValidationPaths(e) <=> l \in (System \cup Ups) \cup (Subs \cup Statuses) \cup Peers
    <3>1. l \in System <=> l = Hostname \/ l = LocalAsn
      OBVIOUS
    <3> HIDE DEF Ups, Subs, Statuses, Peers, System
    <3>2. QED
      BY <2>1, <3>1, Leaves
  <2> HIDE DEF Ups, Subs, Statuses, Peers, System
  <2>3. QED
    BY <2>2
<1>7. QED
  <2> HIDE DEF I, N, System, Ups, Subs, Statuses, Peers
  <2>1. /\ IsFiniteSet(System \cup Ups) /\ IsFiniteSet(Subs \cup Statuses)
        /\ Cardinality(System \cup Ups) <= 2 + 2 * Cardinality(I)
        /\ Cardinality(Subs \cup Statuses) <= 3 * Cardinality(I)
    BY <1>1, <1>2, <1>4, <1>5, UnionIsSmall
  <2>2. /\ IsFiniteSet((System \cup Ups) \cup (Subs \cup Statuses))
        /\ Cardinality((System \cup Ups) \cup (Subs \cup Statuses)) <= 2 + 5 * Cardinality(I)
    BY <1>1, <2>1, UnionIsSmall
  <2>3. /\ IsFiniteSet(ValidationPaths(e))
        /\ Cardinality(ValidationPaths(e)) <= 2 + 5 * Cardinality(I) + 2 * Cardinality(N)
    BY <1>1, <1>5, <1>6, <2>2, UnionIsSmall
  <2>4. CheckTotal(e) = 7 + 5 * Cardinality(e.routed) + 2 * Cardinality(N)
    BY DEF CheckTotal, N
  <2>5. Cardinality(ValidationPaths(e)) \in Nat
    BY <2>3, FS_CardinalityType
  <2>6. QED
    BY <1>1, <2>3, <2>4, <2>5

(* Any part of what is read fits into a result.                            *)
LEMMA ResultsFit ==
  ASSUME DeviceConstants, NEW e \in Intents, Admitted(e)
  PROVE  Fits(ValidationPaths(e)) /\ Fits(ConfigurationLeaves(e)) /\ Fits(OperationalLeaves(e))
<1>1. /\ IsFiniteSet(ValidationPaths(e)) /\ MaxChecks \in Nat /\ CheckTotal(e) <= MaxChecks
      /\ Cardinality(ValidationPaths(e)) <= CheckTotal(e)
  BY PathsAreBounded DEF DeviceConstants, Admitted
<1>2. CheckTotal(e) \in Int
  <2>1. Cardinality(e.routed) \in Nat /\ Cardinality(e.neighbors) \in Nat
    BY FS_CardinalityType DEF DeviceConstants
  <2>2. QED
    BY <2>1 DEF CheckTotal
<1>3. ASSUME NEW S \in SUBSET ValidationPaths(e), S # {}
      PROVE  Fits(S)
  <2>1. IsFiniteSet(S) /\ Cardinality(S) <= Cardinality(ValidationPaths(e))
    BY <1>1, FS_Subset
  <2>2. Cardinality(S) \in Nat /\ Cardinality(S) # 0 /\ Cardinality(ValidationPaths(e)) \in Nat
    BY <1>1, <1>3, <2>1, FS_CardinalityType, FS_EmptySet
  <2>3. QED
    BY <1>1, <1>2, <2>1, <2>2 DEF Fits
<1>4. /\ ConfigurationLeaves(e) \subseteq ValidationPaths(e)
      /\ OperationalLeaves(e) \subseteq ValidationPaths(e)
  BY ReadForBoth
<1>5. Hostname \in ConfigurationLeaves(e) /\ Oper(Loopback) \in OperationalLeaves(e)
  <2>1. Loopback \in Interfaces(e)
    BY DEF Interfaces
  <2>2. QED
    BY <2>1, Leaves
<1>6. QED
  BY <1>3, <1>4, <1>5

-----------------------------------------------------------------------------
(* What a comparison may say.                                              *)
LEMMA Conclusions ==
  ASSUME NEW e, NEW o
  PROVE  /\ Shown(Compare(e, o)) =
              [drift |-> Shown(Compare(e, o)).drift, health |-> Shown(Compare(e, o)).health]
         /\ Shown(Compare(e, o)).drift \in {"in_sync", "drifted", "unavailable"}
         /\ Shown(Compare(e, o)).health \in {"healthy", "degraded", "unavailable"}
<1>1. Drift(e, o) \in {"in_sync", "drifted"} /\ Health(e, o) \in {"healthy", "degraded", "unavailable"}
  BY DEF Drift, Health
<1>2. \/ Compare(e, o) = [drift |-> Refused, health |-> Refused]
      \/ Compare(e, o) = [drift |-> Drift(e, o), health |-> Health(e, o)]
  BY DEF Compare
<1>3. \/ Shown(Compare(e, o)) = Unavailable
      \/ Shown(Compare(e, o)) = [drift |-> Drift(e, o), health |-> Health(e, o)]
  BY <1>2 DEF Shown
<1>4. QED
  BY <1>1, <1>3 DEF Unavailable

(* The two judges of one observation.                                      *)
LEMMA Judges ==
  ASSUME DeviceConstants, NEW e \in Intents, Admitted(e), NEW o, Reading(o, e)
  PROVE  LET shown == Shown(Compare(e, o))
             verdict == Validation(e, o)
             lacking == \E l \in ConfigurationLeaves(e) : Get(o, l) = Absent
         IN  /\ KeysUnique(e) /\ (\A l \in DOMAIN o : o[l] = Expected(e, l)) =>
                  shown.drift = "in_sync" /\ shown.health = "healthy" /\ verdict = "passed"
             /\ verdict = "internal_error" => shown.drift = "unavailable"
             /\ shown.drift = "in_sync" /\ shown.health = "healthy" => verdict = "passed"
             /\ shown.drift = "in_sync" /\ shown.health # "healthy"
                  => verdict = "validation_not_converged"
             /\ shown.drift = "drifted" =>
                  \/ verdict = "validation_failed"
                  \/ lacking /\ verdict = "validation_not_converged"
<1> DEFINE shown == Shown(Compare(e, o))
           verdict == Validation(e, o)
           lacking == \E l \in ConfigurationLeaves(e) : Get(o, l) = Absent
           P == ValidationPaths(e)
           Conf == ConfigurationLeaves(e)
           Op == OperationalLeaves(e)
           trips == (\E l \in P : o[l] = Unsafe) \/ ~KeysUnique(e)
           refused == (\E l \in P : o[l] \in {Mistyped, Unsafe}) \/ ~KeysUnique(e)
<1>1. DOMAIN o = P /\ P = Conf \cup Op /\ (\A l \in P : Get(o, l) = o[l])
  BY ReadForBoth DEF Reading, Get
<1>2. \A l \in P : Expected(e, l) \notin {Absent, Mistyped, Unsafe}
  BY ExpectedIsUsual DEF Unusual
<1>3. Fits(P) /\ Fits(Conf) /\ Fits(Op)
  BY ResultsFit
<1>4. Op # {}
  BY Leaves DEF Interfaces
<1>5. shown = IF refused THEN Unavailable
              ELSE [drift |-> Drift(e, o), health |-> Health(e, o)]
  <2>1. (\E l \in Conf \cup Op : InvalidLeaf(o, l)) <=> \E l \in P : o[l] \in {Mistyped, Unsafe}
    BY <1>1 DEF InvalidLeaf
  <2>2. Compare(e, o) = IF refused THEN [drift |-> Refused, health |-> Refused]
                        ELSE [drift |-> Drift(e, o), health |-> Health(e, o)]
    BY <1>3, <2>1 DEF Compare
  <2>3. Drift(e, o) # Refused
    BY DEF Drift, Refused
  <2>4. QED
    BY <2>2, <2>3 DEF Shown
<1>6. verdict = IF trips THEN "internal_error"
                ELSE IF FailedChecks(e, o) = {} THEN "passed"
                ELSE IF \A l \in FailedChecks(e, o) : Converging(o, l)
                       THEN "validation_not_converged"
                ELSE "validation_failed"
  BY <1>1, <1>3 DEF Validation
<1>7. /\ \A l \in Conf : ConfigurationMatches(e, o, l) <=>
           IF l[2] = "status" THEN o[l] # Absent ELSE o[l] = Expected(e, l)
      /\ \A l \in P : Converging(o, l) <=> o[l] = Absent \/ l[2] \in Convergence
      /\ FailedChecks(e, o) = {l \in P : o[l] # Expected(e, l)}
  BY <1>1 DEF ConfigurationMatches, Converging, FailedChecks
<1>8. /\ \A l \in Op : l \in P /\ l[2] \in Convergence
      /\ \A l \in Conf : l \in P /\ (l[2] = "status" => l \in Op)
                                 /\ (l[2] # "status" => l[2] \notin Convergence)
  BY <1>1, Kinds
<1> DEFINE matches == \A l \in Conf : IF l[2] = "status" THEN o[l] # Absent ELSE o[l] = Expected(e, l)
           works == \A l \in Op : o[l] = Expected(e, l)
           failed == {l \in P : o[l] # Expected(e, l)}
<1>9. /\ refused => shown.drift = "unavailable" /\ shown.health = "unavailable"
      /\ ~refused => /\ shown.drift = IF matches THEN "in_sync" ELSE "drifted"
                     /\ shown.health = "healthy" <=> works
  <2>1. CASE refused
    BY <1>5, <2>1 DEF Unavailable
  <2>2. CASE ~refused
    <3>1. shown.drift = Drift(e, o) /\ shown.health = Health(e, o)
      BY <1>5, <2>2
    <3>2. Drift(e, o) = IF matches THEN "in_sync" ELSE "drifted"
      BY <1>7 DEF Drift
    <3>3. Health(e, o) = "healthy" <=> works
      <4>1. \A l \in Op : Get(o, l) = o[l] /\ Expected(e, l) # Absent
        BY <1>1, <1>2
      <4> HIDE DEF Op
      <4>2. Health(e, o) = IF \A l \in Op : o[l] = Absent THEN "unavailable"
                           ELSE IF works THEN "healthy" ELSE "degraded"
        BY <4>1 DEF Health, Op
      <4>3. QED
        BY <1>4, <4>1, <4>2
    <3> HIDE DEF shown, matches, works
    <3>4. QED
      BY <2>2, <3>1, <3>2, <3>3
  <2>3. QED
    BY <2>1, <2>2
<1>10. /\ trips => refused
       /\ verdict = "internal_error" <=> trips
       /\ verdict = "passed" <=> ~trips /\ failed = {}
       /\ verdict = "validation_not_converged" <=>
            ~trips /\ failed # {} /\ \A l \in failed : o[l] = Absent \/ l[2] \in Convergence
       /\ verdict \in {"internal_error", "passed", "validation_not_converged", "validation_failed"}
  <2>1. verdict = IF trips THEN "internal_error"
                  ELSE IF failed = {} THEN "passed"
                  ELSE IF \A l \in failed : o[l] = Absent \/ l[2] \in Convergence
                         THEN "validation_not_converged"
                  ELSE "validation_failed"
    BY <1>6, <1>7
  <2>2. trips => refused
    OBVIOUS
  <2> HIDE DEF trips, verdict, failed
  <2>3. QED
    BY <2>1, <2>2
<1> HIDE DEF P, Conf, Op, shown, verdict, refused, trips, matches, works
<1>11. shown.drift \in {"in_sync", "drifted"} => ~refused /\ ~trips
  BY <1>9, <1>10
<1>12. ASSUME KeysUnique(e), \A l \in DOMAIN o : o[l] = Expected(e, l)
       PROVE  shown.drift = "in_sync" /\ shown.health = "healthy" /\ verdict = "passed"
  <2>1. ~refused /\ ~trips
    BY <1>1, <1>2, <1>10, <1>12 DEF refused
  <2>2. matches /\ works /\ failed = {}
    BY <1>1, <1>2, <1>12 DEF matches, works
  <2>3. QED
    BY <1>9, <1>10, <2>1, <2>2
<1>13. ASSUME shown.drift = "in_sync", shown.health = "healthy" PROVE verdict = "passed"
  <2>1. matches /\ works
    BY <1>9, <1>11, <1>13
  <2>2. failed = {}
    BY <1>1, <1>8, <2>1 DEF matches, works
  <2>3. QED
    BY <1>10, <1>11, <1>13, <2>2
<1>14. ASSUME shown.drift = "in_sync", shown.health # "healthy"
       PROVE  verdict = "validation_not_converged"
  <2>1. matches /\ ~works
    BY <1>9, <1>11, <1>14
  <2>2. failed # {} /\ \A l \in failed : l[2] \in Convergence
    BY <1>1, <1>8, <2>1 DEF matches, works
  <2>3. QED
    BY <1>10, <1>11, <1>14, <2>2
<1>15. ASSUME shown.drift = "drifted"
       PROVE  \/ verdict = "validation_failed"
              \/ lacking /\ verdict = "validation_not_converged"
  <2>1. ~matches /\ ~trips
    BY <1>9, <1>11, <1>15
  <2>2. PICK l \in Conf : ~IF l[2] = "status" THEN o[l] # Absent ELSE o[l] = Expected(e, l)
    BY <2>1 DEF matches
  <2>3. l \in failed
    BY <1>2, <1>8, <2>2
  <2>4. CASE o[l] = Absent
    <3>1. lacking
      BY <1>1, <1>8, <2>2, <2>4 DEF Conf
    <3>2. QED
      BY <1>10, <2>1, <2>3, <3>1
  <2>5. CASE o[l] # Absent
    <3>1. l[2] \notin Convergence
      BY <1>8, <2>2, <2>5
    <3>2. QED
      BY <1>10, <2>1, <2>3, <2>5, <3>1
  <2>6. QED
    BY <2>4, <2>5
<1>16. verdict = "internal_error" => shown.drift = "unavailable"
  BY <1>9, <1>10
<1>17. QED
  BY <1>12, <1>13, <1>14, <1>15, <1>16 DEF shown, verdict

-----------------------------------------------------------------------------
(* An observation has a value, or Absent, for every leaf that is read.     *)
LEMMA ObservedPaths ==
  ASSUME NEW e, NEW o \in Observations(e)
  PROVE  DOMAIN o = ValidationPaths(e)
<1>1. \A u \in Uniform(e) : DOMAIN u = ValidationPaths(e)
  BY DEF Uniform
<1>2. CASE o \in Uniform(e)
  BY <1>1, <1>2
<1>3. CASE o \notin Uniform(e)
  <2>1. PICK u \in Uniform(e), l \in ValidationPaths(e), k \in ValidationPaths(e),
             v \in Unusual, w \in Unusual : o = [u EXCEPT ![l] = v, ![k] = w]
    BY <1>3 DEF Observations
  <2>2. QED
    BY <1>1, <2>1
<1>4. QED
  BY <1>2, <1>3

LEMMA InitIInv == Init => IInv
<1> SUFFICES ASSUME Init PROVE IInv
  OBVIOUS
<1>1. DeviceConstants
  BY IntentsAreExpectations
<1>2. intent \in Intents
  BY <1>1 DEF DeviceConstants, Init
<1>3. phase = "idle" /\ live = FALSE /\ snapshot = None /\ observed = None /\ page = None
  BY DEF Init
<1>4. TypeOK
  BY <1>2, <1>3 DEF TypeOK
<1>5. JudgesAgree
  BY <1>3, <1>4 DEF JudgesAgree, IntendedDevicePasses, PageAgreesWithDeployment, Compared
<1>6. QED
  BY <1>3, <1>5 DEF IInv, OneExpectation, InHand

(* A request without an answer, or answered without a comparison.          *)
LEMMA NothingConcluded ==
  ASSUME IInv, TypeOK', InHand', observed' = None,
         page' = None \/ \E i \in Intents \cup {None} : page' = Detail(i, Unavailable)
  PROVE  IInv'
<1>1. page' = None \/ (page'.drift = "unavailable" /\ page'.health = "unavailable")
  BY DEF Detail, Unavailable
<1>2. JudgesAgree' /\ OneExpectation'
  BY <1>1 DEF JudgesAgree, IntendedDevicePasses, PageAgreesWithDeployment, Compared, OneExpectation
<1>3. QED
  BY <1>2 DEF IInv

LEMMA DetailIsDetail ==
  ASSUME NEW i \in Intents \cup {None}
  PROVE  /\ Detail(i, Unavailable).intent \in Intents \cup {None}
         /\ Detail(i, Unavailable).drift = "unavailable"
         /\ Detail(i, Unavailable).health = "unavailable"
BY DEF Detail, Unavailable

LEMMA ReadDeviceKeepsIInv ==
  ASSUME IInv, phase = "device", NEW o, Reading(o, snapshot), ReadDevice(o)
  PROVE  IInv'
<1>1. /\ snapshot \in Intents /\ Admitted(snapshot) /\ DeviceConstants /\ TypeOK
  BY IntentsAreExpectations DEF IInv, InHand, JudgesAgree
<1>2. /\ snapshot # None /\ o # None
  BY <1>1 DEF DeviceConstants, Reading
<1> DEFINE c == Shown(Compare(snapshot, o))
<1>3. /\ phase' = "idle" /\ page' = Detail(snapshot, c) /\ observed' = o
      /\ UNCHANGED <<intent, live, snapshot>>
  BY DEF ReadDevice, Answer, ComparedWith
<1>4. /\ c.drift \in {"in_sync", "drifted", "unavailable"}
      /\ c.health \in {"healthy", "degraded", "unavailable"}
      /\ c = [drift |-> c.drift, health |-> c.health]
  BY Conclusions
<1>5. page'.intent = snapshot /\ page'.drift = c.drift /\ page'.health = c.health
  <2> HIDE DEF c
  <2>1. QED
    BY <1>3 DEF Detail
<1>6. TypeOK'
  <2> HIDE DEF c
  <2>1. QED
    BY <1>1, <1>3, <1>4, <1>5 DEF TypeOK
<1>7. IntendedDevicePasses'
  BY <1>1, <1>3, <1>5, Judges DEF IntendedDevicePasses
<1>8. PageAgreesWithDeployment'
  BY <1>1, <1>3, <1>5, Judges DEF PageAgreesWithDeployment
<1>9. OneExpectation'
  BY <1>2, <1>3, <1>4, <1>5 DEF OneExpectation
<1>10. InHand'
  BY <1>3 DEF InHand
<1>11. QED
  BY <1>6, <1>7, <1>8, <1>9, <1>10 DEF IInv, JudgesAgree

(* The observations of the runs are readings.                              *)
LEMMA ObservedIsRead ==
  ASSUME IInv, phase = "device", NEW o \in Observations(snapshot)
  PROVE  Reading(o, snapshot)
<1>1. snapshot \in Intents
  BY DEF IInv, InHand
<1>2. QED
  BY <1>1, IntentsAreExpectations, ObservedPaths DEF DeviceConstants, Reading

LEMMA NextIInv == ASSUME IInv, [AnyNext]_vars PROVE IInv'
<1>1. TypeOK /\ InHand /\ intent \in Intents
  BY DEF IInv, JudgesAgree, TypeOK
<1>2. ASSUME UNCHANGED <<phase, live, snapshot, observed, page>>, intent' \in Intents
      PROVE  IInv'
  <2>1. TypeOK'
    BY <1>1, <1>2 DEF TypeOK
  <2>2. QED
    BY <1>2, <2>1 DEF IInv, JudgesAgree, IntendedDevicePasses, PageAgreesWithDeployment,
                      Compared, OneExpectation, InHand
<1>3. CASE \E e \in Intents : EditIntent(e)
  BY <1>2, <1>3 DEF EditIntent
<1>4. CASE \E l \in BOOLEAN : Request(l)
  <2>1. /\ intent' \in Intents /\ phase' = "inventory" /\ live' \in BOOLEAN
        /\ snapshot' = None /\ observed' = None /\ page' = None
    BY <1>1, <1>4 DEF Request
  <2>2. TypeOK' /\ InHand'
    BY <2>1 DEF TypeOK, InHand
  <2>3. QED
    BY <2>1, <2>2, NothingConcluded
<1>5. CASE ReadInventory
  <2>1. /\ phase = "inventory" /\ phase' = "intent"
        /\ UNCHANGED <<intent, live, snapshot, observed, page>>
    BY <1>5 DEF ReadInventory
  <2>2. observed' = None /\ page' = None
    BY <1>1, <2>1 DEF InHand
  <2>3. TypeOK' /\ InHand'
    BY <1>1, <2>1, <2>2 DEF TypeOK, InHand
  <2>4. QED
    BY <2>2, <2>3, NothingConcluded
<1>6. ASSUME phase # "idle", phase' = "idle",
             UNCHANGED <<intent, live, observed>>, snapshot' \in Intents \cup {None},
             NEW i \in Intents \cup {None}, page' = Detail(i, Unavailable)
      PROVE  IInv'
  <2>1. observed' = None
    BY <1>1, <1>6 DEF InHand
  <2>2. TypeOK'
    BY <1>1, <1>6, DetailIsDetail DEF TypeOK
  <2>3. InHand'
    BY <1>6 DEF InHand
  <2>4. QED
    BY <1>6, <2>1, <2>2, <2>3, NothingConcluded
<1>7. CASE InventoryFails \/ IntentFails
  <2>1. /\ phase # "idle" /\ phase' = "idle" /\ UNCHANGED <<intent, live, observed, snapshot>>
        /\ page' = Detail(None, Unavailable)
    BY <1>7 DEF InventoryFails, IntentFails, Answer, Missing
  <2>2. snapshot' \in Intents \cup {None}
    BY <1>1, <2>1 DEF TypeOK
  <2>3. QED
    BY <1>6, <2>1, <2>2
<1>8. CASE DeviceFails
  <2>1. /\ phase # "idle" /\ phase' = "idle" /\ UNCHANGED <<intent, live, observed, snapshot>>
        /\ page' = Detail(snapshot, Unavailable)
    BY <1>8 DEF DeviceFails, Answer
  <2>2. snapshot \in Intents \cup {None}
    BY <1>1 DEF TypeOK
  <2>3. QED
    BY <1>6, <2>1, <2>2
<1>9. CASE ReadIntent
  <2>1. /\ phase = "intent" /\ snapshot' = intent /\ UNCHANGED <<intent, live, observed>>
    BY <1>9 DEF ReadIntent
  <2>2. CASE live /\ Admitted(intent)
    <3>1. phase' = "device" /\ page' = page
      BY <1>9, <2>2 DEF ReadIntent
    <3>2. observed' = None /\ page' = None
      BY <1>1, <2>1, <3>1 DEF InHand
    <3>3. TypeOK'
      BY <1>1, <2>1, <3>1, <3>2 DEF TypeOK
    <3>4. Admitted(snapshot)'
      BY <2>1, <2>2 DEF Admitted, CheckTotal
    <3>5. InHand'
      BY <1>1, <2>1, <3>1, <3>2, <3>4 DEF InHand
    <3>6. QED
      BY <3>2, <3>3, <3>5, NothingConcluded
  <2>3. CASE ~(live /\ Admitted(intent))
    <3>1. phase' = "idle" /\ page' = Detail(IF live THEN None ELSE intent, Unavailable)
      BY <1>9, <2>3 DEF ReadIntent, Answer
    <3>2. (IF live THEN None ELSE intent) \in Intents \cup {None}
      BY <1>1
    <3>3. QED
      BY <1>1, <1>6, <2>1, <3>1, <3>2
  <2>4. QED
    BY <2>2, <2>3
<1>10. CASE phase = "device" /\ \E o : Reading(o, snapshot) /\ ReadDevice(o)
  BY <1>10, ReadDeviceKeepsIInv
<1>11. CASE UNCHANGED vars
  BY <1>1, <1>2, <1>11 DEF vars
<1>12. QED
  BY <1>3, <1>4, <1>5, <1>7, <1>8, <1>9, <1>10, <1>11, ObservedIsRead DEF Next, AnyNext

LEMMA IInvIsInvariant == (Spec => []IInv) /\ (AnySpec => []IInv)
<1>1. Init => IInv
  BY InitIInv
<1>2. IInv /\ [AnyNext]_vars => IInv'
  BY NextIInv
<1>3. [Next]_vars => [AnyNext]_vars
  BY DEF AnyNext
<1>4. QED
  BY <1>1, <1>2, <1>3, PTL DEF Spec, AnySpec

(* A device page is of one intent, for all readings: what it concludes is  *)
(* about the one it shows, however often that is edited meanwhile, and it  *)
(* concludes nothing about what was not read (api/devices.py:269-466).     *)
THEOREM PageIsOfOneIntent == (Spec => []OneExpectation) /\ (AnySpec => []OneExpectation)
<1>1. IInv => OneExpectation
  BY DEF IInv
<1>2. QED
  BY <1>1, IInvIsInvariant, PTL

(* The page and the deployment judge a reading alike, whatever it is,      *)
(* whatever the intents and the bound on the checks are, and no list of    *)
(* checks outgrows it (devices/comparison.py:231-456,                      *)
(* devices/validation.py:63-146).                                          *)
THEOREM OneJudgement == (Spec => []JudgesAgree) /\ (AnySpec => []JudgesAgree)
<1>1. IInv => JudgesAgree
  BY DEF IInv
<1>2. QED
  BY <1>1, IInvIsInvariant, PTL
=============================================================================
