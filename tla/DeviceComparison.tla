-------------------------- MODULE DeviceComparison --------------------------
(***************************************************************************)
(* The two judgements passed on one observation of a device: the device    *)
(* page's comparison (devices/comparison.py) and the deployment's          *)
(* validation (devices/validation.py, activities/deployment.py), and the   *)
(* list of leaves that is read for both (devices/srlinux.py).              *)
(*                                                                         *)
(* A leaf is <<owner, name, prefix>>, the prefix 0 where the path has none.*)
(* Values are the strings the expectation is compared with, or one of the  *)
(* four below; a leaf the device does not have is Absent.                  *)
(***************************************************************************)
EXTENDS Integers, FiniteSets

CONSTANT MaxChecks   \* 64: of an expected state, a validation and a comparison

ASSUME MaxChecksIsNat == MaxChecks \in Nat \ {0}

Absent   == "absent"
Other    == "other"      \* of the right type, not the expected value
Mistyped == "mistyped"   \* a number for text, or text for a number
Unsafe   == "unsafe"     \* blank text, or text over 128 characters
Unusual  == {Absent, Other, Mistyped, Unsafe}

(* ExpectedDeviceState: [asn, prefix, routed, neighbors].  prefix stands   *)
(* for every interface's; expected_state_from_intent requires all          *)
(* interfaces to be up.                                                    *)
Loopback == "system0"
Interfaces(e) == {Loopback} \cup e.routed
CheckTotal(e) == 7 + 5 * Cardinality(e.routed) + 2 * Cardinality(e.neighbors)

(* Mutant: the bound forgets the loopback and the system.                  *)
CheckedRouting(e) == 5 * Cardinality(e.routed) + 2 * Cardinality(e.neighbors) <= MaxChecks
Admitted(e) == CheckTotal(e) <= MaxChecks

-----------------------------------------------------------------------------
(* Leaves.                                                                 *)
Hostname       == <<"system", "host-name", 0>>
LocalAsn       == <<"bgp", "autonomous-system", 0>>
Admin(i)       == <<i, "admin-state", 0>>
Oper(i)        == <<i, "oper-state", 0>>
SubAdmin(i)    == <<i, "subinterface admin-state", 0>>
SubOper(i)     == <<i, "subinterface oper-state", 0>>
AddressStatus(i, e) == <<i, "status", e.prefix>>
PeerAs(n)      == <<n, "peer-as", 0>>
Session(n)     == <<n, "session-state", 0>>

Expected(e, l) ==
  CASE l[2] = "host-name" -> "device"
    [] l[2] \in {"admin-state", "subinterface admin-state"} -> "enable"
    [] l[2] \in {"oper-state", "subinterface oper-state"} -> "up"
    [] l[2] = "status" -> "preferred"
    [] l[2] = "autonomous-system" -> e.asn
    [] l[2] = "peer-as" -> "remote"
    [] l[2] = "session-state" -> "established"

(* _validation_paths: what is read, and what validation_result checks.     *)
ValidationPaths(e) ==
  {Hostname, LocalAsn}
    \cup {PeerAs(n) : n \in e.neighbors} \cup {Session(n) : n \in e.neighbors}
    \cup UNION {{Admin(i), Oper(i), SubAdmin(i), SubOper(i), AddressStatus(i, e)} :
                 i \in Interfaces(e)}

(* What a leaf that was read, or was not, counts as.                       *)
Get(o, l) == IF l \in DOMAIN o THEN o[l] ELSE Absent

-----------------------------------------------------------------------------
(* compare_device_state.                                                   *)

Refused == "refused"   \* ValueError: nothing is concluded

ConfigurationLeaves(e) ==
  {Hostname, LocalAsn} \cup {PeerAs(n) : n \in e.neighbors}
    \cup UNION {{Admin(i), SubAdmin(i), AddressStatus(i, e)} : i \in Interfaces(e)}
OperationalLeaves(e) ==
  {Session(n) : n \in e.neighbors}
    \cup UNION {{Oper(i), SubOper(i), AddressStatus(i, e)} : i \in Interfaces(e)}

InvalidLeaf(o, l) == Get(o, l) \in {Mistyped, Unsafe}

(* Mutant: an address must be preferred to be there.                       *)
PreferredMatches(e, o, l) == Get(o, l) = Expected(e, l)
ConfigurationMatches(e, o, l) ==
  IF l[2] = "status" THEN Get(o, l) # Absent ELSE Get(o, l) = Expected(e, l)

Drift(e, o) ==
  IF \A l \in ConfigurationLeaves(e) : ConfigurationMatches(e, o, l)
    THEN "in_sync" ELSE "drifted"

Health(e, o) ==
  IF \A l \in OperationalLeaves(e) : Get(o, l) = Absent THEN "unavailable"
  ELSE IF \A l \in OperationalLeaves(e) : Get(o, l) = Expected(e, l) THEN "healthy"
  ELSE "degraded"

(* The results' own validators: the keys are unique and the checks few.  A *)
(* routed interface of the loopback's name has the loopback's keys.        *)
KeysUnique(e) == Loopback \notin e.routed
Fits(checks) == Cardinality(checks) \in 1 .. MaxChecks

Compare(e, o) ==
  IF \/ \E l \in ConfigurationLeaves(e) \cup OperationalLeaves(e) : InvalidLeaf(o, l)
     \/ ~KeysUnique(e)
     \/ ~Fits(ConfigurationLeaves(e)) \/ ~Fits(OperationalLeaves(e))
    THEN [drift |-> Refused, health |-> Refused]
    ELSE [drift |-> Drift(e, o), health |-> Health(e, o)]

-----------------------------------------------------------------------------
(* validation_result, and what validate_device_state makes of it.          *)

FailedChecks(e, o) == {l \in ValidationPaths(e) : Get(o, l) # Expected(e, l)}
Convergence == {"oper-state", "subinterface oper-state", "status", "session-state"}

Converging(o, l) == Get(o, l) = Absent \/ l[2] \in Convergence

Validation(e, o) ==
  IF \/ \E l \in ValidationPaths(e) : l \notin DOMAIN o \/ o[l] = Unsafe
     \/ ~KeysUnique(e) \/ ~Fits(ValidationPaths(e))
    THEN "internal_error"
  ELSE IF FailedChecks(e, o) = {} THEN "passed"
  ELSE IF \A l \in FailedChecks(e, o) : Converging(o, l) THEN "validation_not_converged"
  ELSE "validation_failed"
=============================================================================
