------------------------------- MODULE Answers ------------------------------
(* What is answered to the page of a device, of the topology or of an       *)
(* execution; the three reads share no variable.                            *)
EXTENDS DeviceReads

CONSTANTS
  Port, Address, Listed, Neighbors, InterfaceLimit, LinkLimit, \* of TopologyRead
  Subjects, Connectable, Cabled, Assignable,                   \* its bounds
  Foreign                                                      \* of WorkflowProjection

VARIABLES
  reader, subject, cables, assigned, unread, interfaces, graph, steady, ever,
  plan, status, history, described, shown, polling

topology == <<subject, cables, assigned, unread, interfaces, graph, steady, ever>>

T == INSTANCE TopologyRead WITH Nobody <- None

P == INSTANCE WorkflowProjection

ASSUME TopologyInputs == T!TopologyConstants
ASSUME WorkflowInputs == P!WorkflowConstants

execution == <<plan, status, history, described, shown, polling>>
answers == <<reader, vars, topology, execution>>

(* The reads that are not looked at begin in one state.                     *)
AnswersInit ==
  /\ Init /\ T!Init /\ P!Init /\ reader \in {"device", "topology", "workflow"}
  /\ reader # "topology" =>
       subject = (CHOOSE s \in Subjects : TRUE) /\ cables = CHOOSE C \in Cabled : TRUE
  /\ reader # "workflow" => plan = <<"render">>

Workflow(A) == reader = "workflow" /\ A /\ UNCHANGED <<reader, vars, topology>>

AnswersNext ==
  \/ reader = "device" /\ Next /\ UNCHANGED <<reader, topology, execution>>
  \/ reader = "topology" /\ T!Next /\ UNCHANGED <<reader, vars, execution>>
  \/ Workflow(P!Next)

(* The fairness of WorkflowProjection's specification.                      *)
AnswersSpec ==
  /\ AnswersInit /\ [][AnswersNext]_answers
  /\ WF_answers(Workflow(P!Describe)) /\ WF_described(P!ReadReturns)

(* The graph is one the network could have had, however cables and addresses*)
(* move while it is read: one link for a port, a peering only between       *)
(* devices that are each other's neighbours (devices.py:539-603).           *)
GraphIsPossible == T!GraphIsPossible

(* What does not change while it is read is drawn, as far as a page of each *)
(* device's interfaces and the limit on links reach (devices.py:489-614,    *)
(* nautobot.py:246-258).                                                    *)
SteadyLinkIsDrawn == T!SteadyLinkIsDrawn

(* The overview and the topology make the same status of a device's         *)
(* inventory status and of one deployment (app.py:438-465,                  *)
(* devices.py:469-486).                                                     *)
OverviewAgreesWithTopology == T!OverviewAgreesWithTopology

(* A closed timeline is the history's, in stages and states that the UI     *)
(* knows, and the failed stage is the same in all three places that compute *)
(* it (workflows.py:251-336, 386-542, 609-665).                             *)
ClosedReadIsExact == P!TypeOK /\ P!ClosedReadIsExact /\ P!FailureIsNamed

(* Success is never shown before the history proves it                      *)
(* (workflows.py:215-248, 299-336, 636-649).                                *)
SuccessIsProved == P!SuccessIsProved

(* A page left open shows the end (usePolling.ts:44-65).                    *)
FinalTimelineShown == P!FinalTimelineShown
=============================================================================
