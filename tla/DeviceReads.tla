---------------------------- MODULE DeviceReads -----------------------------
(***************************************************************************)
(* api/devices.py, get_device_detail: a device page is put together from   *)
(* the inventory, the intent and, if asked for, one read of the device,    *)
(* while operators edit the intent.  What is retained in Temporal is shown *)
(* beside it and is WorkflowProjection's; the time limits are ReadApi's.   *)
(***************************************************************************)
EXTENDS DeviceComparison

CONSTANTS
  None,
  Intents   \* the intents operators write: what DeviceComparison expects of each

VARIABLES
  intent,    \* what Nautobot holds of the device
  phase,     \* what the request under way awaits next
  live,      \* it asked for a comparison
  snapshot,  \* the intent it read, or None
  observed,  \* the leaves it read, or None
  page       \* the answer, or None

vars == <<intent, phase, live, snapshot, observed, page>>

Unavailable == [drift |-> "unavailable", health |-> "unavailable"]

(* An answer: the intent it shows and the comparison.                      *)
Detail(shown, comparison) ==
  [intent |-> shown, drift |-> comparison.drift, health |-> comparison.health]
Missing == Detail(None, Unavailable)

TypeOK ==
  /\ intent \in Intents
  /\ phase \in {"idle", "inventory", "intent", "device"}
  /\ live \in BOOLEAN
  /\ snapshot \in Intents \cup {None}
  /\ page # None =>
       /\ page.intent \in Intents \cup {None}
       /\ page.drift \in {"in_sync", "drifted", "unavailable"}
       /\ page.health \in {"healthy", "degraded", "unavailable"}

Init ==
  /\ intent = CHOOSE e \in Intents : TRUE
  /\ phase = "idle" /\ live = FALSE
  /\ snapshot = None /\ observed = None /\ page = None

(* An operator saves a change.                                             *)
EditIntent(e) ==
  /\ intent' = e
  /\ UNCHANGED <<phase, live, snapshot, observed, page>>

Request(l) ==
  /\ phase = "idle"
  /\ phase' = "inventory" /\ live' = l
  /\ snapshot' = None /\ observed' = None /\ page' = None
  /\ UNCHANGED intent

Answer(detail) == phase' = "idle" /\ page' = detail

(* The device is in the inventory, or the answer is an error.              *)
ReadInventory ==
  /\ phase = "inventory"
  /\ phase' = "intent"
  /\ UNCHANGED <<intent, live, snapshot, observed, page>>

InventoryFails ==
  /\ phase = "inventory"
  /\ Answer(Missing)
  /\ UNCHANGED <<intent, live, snapshot, observed>>

(* deployment_intent, and expected_state_from_intent if a comparison was   *)
(* asked for: an intent whose expected state is refused is not shown then. *)
ReadIntent ==
  /\ phase = "intent"
  /\ snapshot' = intent
  /\ IF live /\ Admitted(intent)
       THEN phase' = "device" /\ UNCHANGED page
       ELSE Answer(Detail(IF live THEN None ELSE intent, Unavailable))
  /\ UNCHANGED <<intent, live, observed>>

IntentFails ==
  /\ phase = "intent"
  /\ Answer(Missing)
  /\ UNCHANGED <<intent, live, snapshot, observed>>

(* _live.  The leaves are read one by one while the device changes: an     *)
(* observation is any combination of values they had.                      *)
(* Mutant: the intent is read again for the comparison.                    *)
ReadAgain(e) == intent
ComparedWith(e) == e

(* What the comparison raises is not shown.                                *)
Shown(comparison) == IF comparison.drift = Refused THEN Unavailable ELSE comparison

ReadDevice(o) ==
  /\ phase = "device"
  /\ observed' = o
  /\ Answer(Detail(snapshot, Shown(Compare(ComparedWith(snapshot), o))))
  /\ UNCHANGED <<intent, live, snapshot>>

(* No credentials, no connection, no time, or a response that is refused.  *)
DeviceFails ==
  /\ phase = "device"
  /\ Answer(Detail(snapshot, Unavailable))
  /\ UNCHANGED <<intent, live, snapshot, observed>>

-----------------------------------------------------------------------------
(* Bound: observations are uniform but for two leaves.                     *)
Uniform(e) ==
  LET paths == ValidationPaths(e)
      Right(l) == Expected(e, l)
      With(v) == [l \in paths |-> IF l \in OperationalLeaves(e) THEN v ELSE Right(l)]
  IN  {[l \in paths |-> Right(l)], [l \in paths |-> Absent], With(Absent), With(Other)}

Observations(e) ==
  Uniform(e) \cup
    {[o EXCEPT ![l] = v, ![k] = w] : o \in Uniform(e),
       l \in ValidationPaths(e), k \in ValidationPaths(e), v \in Unusual, w \in Unusual}

(* An ASN is a number of the intent; nothing is not an intent or a reading.*)
DeviceConstants ==
  /\ MaxChecks \in Nat \ {0} /\ Intents # {} /\ None \notin Intents
  /\ \A e \in Intents :
       /\ DOMAIN e = {"asn", "prefix", "routed", "neighbors"} /\ e.asn \notin Unusual
       /\ IsFiniteSet(e.routed) /\ IsFiniteSet(e.neighbors)
       /\ \A o \in Observations(e) : o # None
ASSUME IntentsAreExpectations == DeviceConstants

Next ==
  \/ \E e \in Intents : EditIntent(e)
  \/ \E l \in BOOLEAN : Request(l)
  \/ ReadInventory
  \/ InventoryFails
  \/ ReadIntent
  \/ IntentFails
  \/ phase = "device" /\ \E o \in Observations(snapshot) : ReadDevice(o)
  \/ DeviceFails

Spec == Init /\ [][Next]_vars

-----------------------------------------------------------------------------
Compared == page # None /\ observed # None

(* What the page concludes, it concludes about the intent it shows, however*)
(* often that is edited while the page is put together; and of what it     *)
(* could not read or compare it concludes nothing (devices.py:269-466).    *)
OneExpectation ==
  page # None =>
    IF observed = None THEN page.drift = "unavailable" /\ page.health = "unavailable"
    ELSE /\ page.intent # None
         /\ [drift |-> page.drift, health |-> page.health]
              = Shown(Compare(page.intent, observed))

(* A device that has every leaf it was asked for as intended is in sync,   *)
(* healthy and validated, whatever the intent that was admitted: the leaves*)
(* that are read are those both judgements want, and the bound on the      *)
(* expected state keeps the results within theirs (srlinux.py:186-219,     *)
(* comparison.py:241-344, models.py:424-431).                              *)
IntendedDevicePasses ==
  Compared /\ KeysUnique(snapshot)
    /\ (\A l \in DOMAIN observed : observed[l] = Expected(snapshot, l)) =>
      /\ page.drift = "in_sync" /\ page.health = "healthy"
      /\ Validation(snapshot, observed) = "passed"

(* The page and a deployment of the same intent judge one observation      *)
(* alike: in sync and healthy is what passes; in sync and not healthy may  *)
(* still converge; drifted is what fails for good, or lacks a leaf; and an *)
(* observation validation trips over concludes nothing on the page         *)
(* (comparison.py:231-456, validation.py:63-146, deployment.py:405-427).   *)
PageAgreesWithDeployment ==
  Compared =>
    LET verdict == Validation(snapshot, observed)
        lacking == \E l \in ConfigurationLeaves(snapshot) : Get(observed, l) = Absent
    IN  /\ verdict = "internal_error" => page.drift = "unavailable"
        /\ (page.drift = "in_sync" /\ page.health = "healthy") => verdict = "passed"
        /\ (page.drift = "in_sync" /\ page.health # "healthy")
             => verdict = "validation_not_converged"
        /\ page.drift = "drifted" =>
             \/ verdict = "validation_failed"
             \/ lacking /\ verdict = "validation_not_converged"

(* Together: the page of a device and a deployment judge an observation    *)
(* alike, and a device that is as intended passes both; comparisons are    *)
(* reported only as the models of the answers allow                        *)
(* (comparison.py:231-456, validation.py:63-146, models.py:200-330).       *)
JudgesAgree == TypeOK /\ IntendedDevicePasses /\ PageAgreesWithDeployment

(* Why these hold: what is compared was read and admitted for this answer. *)
InHand ==
  /\ phase # "idle" => page = None /\ observed = None
  /\ phase = "device" => snapshot \in Intents /\ Admitted(snapshot)

IInv == JudgesAgree /\ OneExpectation /\ InHand
=============================================================================
