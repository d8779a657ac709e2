--------------------------- MODULE RequestIntake ---------------------------
(***************************************************************************)
(* What the bridge from Kafka to Temporal promises, with no consumer, no   *)
(* process and no network in sight: requests are appended to topics, each  *)
(* one that is valid for its topic becomes at most one piece of accepted   *)
(* work, and a record is acknowledged, in log order, only when it is       *)
(* poison or its work has been accepted.  EventConsumer implements it.     *)
(***************************************************************************)
EXTENDS Naturals, Sequences

CONSTANTS
  RenderTopic,      \* the topic that carries RenderRequested
  DeploymentTopic,  \* the topic that carries DeploymentRequested
  EventId,          \* the identities producers give to their requests
  MaxLog            \* bound: records published

Topic == {RenderTopic, DeploymentTopic}

(***************************************************************************)
(* A record is reduced to what the consumer tells apart: the event type    *)
(* its payload parses as, if it parses, and the identity in it.            *)
(***************************************************************************)
RequestType == {"render", "deployment"}
WorkflowId  == [type : RequestType, event_id : EventId]
Malformed   == [type |-> "malformed", event_id |-> "none"]
Record      == WorkflowId \cup {Malformed}

(* The one event type each topic carries.                                  *)
TypeOf(topic) == IF topic = RenderTopic THEN "render" ELSE "deployment"

(* A payload of the other topic's type is as poisonous as a broken one.    *)
IsRequest(topic, record) == record.type = TypeOf(topic)

VARIABLES
  log,            \* per topic, the records published so far
  acknowledged,   \* per topic, how many records are settled
  accepted        \* the work that has been accepted

vars == <<log, acknowledged, accepted>>

(* w was asked for on the topic its type belongs to.                       *)
Requested(w) ==
  \E t \in Topic : \E i \in 1..Len(log[t]) : IsRequest(t, log[t][i]) /\ log[t][i] = w

Init ==
  /\ log = [t \in Topic |-> <<>>]
  /\ acknowledged = [t \in Topic |-> 0]
  /\ accepted = {}

Publish(t, record) ==
  /\ Len(log[RenderTopic]) + Len(log[DeploymentTopic]) < MaxLog
  /\ log' = [log EXCEPT ![t] = Append(@, record)]
  /\ UNCHANGED <<acknowledged, accepted>>

Accept(w) ==
  /\ w \notin accepted
  /\ Requested(w)
  /\ accepted' = accepted \cup {w}
  /\ UNCHANGED <<log, acknowledged>>

Acknowledge(t) ==
  /\ acknowledged[t] < Len(log[t])
  /\ LET record == log[t][acknowledged[t] + 1]
     IN  IsRequest(t, record) => record \in accepted
  /\ acknowledged' = [acknowledged EXCEPT ![t] = @ + 1]
  /\ UNCHANGED <<log, accepted>>

Next ==
  \/ \E t \in Topic, record \in Record : Publish(t, record)
  \/ \E w \in WorkflowId : Accept(w)
  \/ \E t \in Topic : Acknowledge(t)

Spec == Init /\ [][Next]_vars
=============================================================================
