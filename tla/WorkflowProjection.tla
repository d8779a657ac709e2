------------------------- MODULE WorkflowProjection -------------------------
(***************************************************************************)
(* api/workflows.py: what the detail page of an execution is shown while   *)
(* the execution goes on.  The API asks Temporal twice, for a description  *)
(* and then for the history, and the execution may move in between; the    *)
(* page asks again until it is told that the execution has closed.         *)
(*                                                                         *)
(* The execution is reduced to the history it leaves behind; how it gets   *)
(* there is DeviceWorkflow's matter.  Names, times, attempts and artifact  *)
(* metadata are left out.                                                  *)
(***************************************************************************)
EXTENDS Naturals, Sequences, FiniteSets, SequencesExt

CONSTANTS
  None,
  Foreign   \* activities ACTIVITY_STAGES does not know: of other versions

Known == {"prepare", "render", "deploy", "validate", "publish"}
ClosingType == {"completed", "failed", "timed_out", "canceled"}

(* What is assumed of the constants; Answers has TLC evaluate it.          *)
WorkflowConstants ==
  /\ None \notin Known \cup Foreign \cup ClosingType \cup {"passed", "unknown", "not_reached"}
  /\ Foreign \cap Known = {}

VARIABLES
  plan,       \* the activities this version of the workflow runs before it publishes
  status,     \* of the execution
  history,    \* its events
  described,  \* what describe() returned to the read under way, or None
  shown,      \* the WorkflowDetail the page holds, or None
  polling     \* the page asks again

execution == <<plan, status, history>>
vars == <<plan, status, history, described, shown, polling>>

Kind == IF Head(plan) = "render" THEN "render" ELSE "deployment"

-----------------------------------------------------------------------------
(* The execution.  An activity is scheduled once; closing it is the only   *)
(* trace an activity with a retry policy leaves before it has ended.       *)

Event(type, activity) == [type |-> type, activity |-> activity, result |-> None]
ExecutionCompleted(result) ==
  [type |-> "execution_completed", activity |-> None, result |-> result]

CloseOf(h, a) ==
  LET closing == {i \in 1 .. Len(h) : h[i].activity = a /\ h[i].type \in ClosingType}
  IN  IF closing = {} THEN None ELSE h[CHOOSE i \in closing : TRUE].type

Scheduled(h, a) == \E i \in 1 .. Len(h) : h[i].type = "scheduled" /\ h[i].activity = a
Open(h) == {a \in Known \cup Foreign : Scheduled(h, a) /\ CloseOf(h, a) = None}

(* What stands at the positions I of s, in their order: SelectSeq with the *)
(* positions spelled out, of which proofs can speak.                       *)
Nth(I, k) == CHOOSE i \in I : Cardinality({j \in I : j <= i}) = k
At(s, I) == [k \in 1 .. Cardinality(I) |-> s[Nth(I, k)]]

OpenIn(h) == At(h, {i \in DOMAIN h : h[i].type = "scheduled" /\ h[i].activity \in Open(h)})

Failed(h) == {a \in Known \ {"publish"} : CloseOf(h, a) \in ClosingType \ {"completed"}}

Closed == {"completed", "failed", "timed_out", "canceled", "terminated"}

Init ==
  /\ plan \in {p \o tail : p \in {<<"render">>, <<"prepare", "deploy", "validate">>},
                           tail \in {<<>>} \cup {<<a>> : a \in Foreign}}
  /\ status = "running"
  /\ history = <<Event("execution_started", None)>>
  /\ described = None
  /\ shown = None
  /\ polling = TRUE

(* The next activity; after a failure, the publication of the failure.     *)
(* Without a category a prepare failure has no event to publish.           *)
Steps == plan \o <<"publish">>
IsNext(i, h) ==
  IF Failed(h) = {}
    THEN ~Scheduled(h, Steps[i]) /\ \A j \in 1 .. i - 1 : Scheduled(h, Steps[j])
    ELSE Steps[i] = "publish"
Stuck(h) == CloseOf(h, "prepare") \in {"timed_out", "canceled"}

Schedule ==
  /\ status = "running" /\ Open(history) = {} /\ ~Stuck(history)
  /\ CloseOf(history, "publish") = None
  /\ \E i \in 1 .. Len(Steps) :
       IsNext(i, history) /\ history' = Append(history, Event("scheduled", Steps[i]))
  /\ UNCHANGED <<plan, status, described, shown, polling>>

(* Cancellation reaches the workflow as an ActivityError, like a failure.  *)
ActivityCloses(type) ==
  /\ status = "running"
  /\ \E a \in Open(history) : history' = Append(history, Event(type, a))
  /\ UNCHANGED <<plan, status, described, shown, polling>>

Outcome(h) ==
  IF Failed(h) = {} THEN [type |-> Kind, succeeded |-> TRUE, stage |-> None]
  ELSE [type |-> Kind, succeeded |-> FALSE,
        stage |-> IF Kind = "render" THEN None ELSE CHOOSE a \in Failed(h) : TRUE]

Return ==
  /\ status = "running" /\ CloseOf(history, "publish") # None
  /\ IF CloseOf(history, "publish") = "completed"
       THEN /\ status' = "completed"
            /\ history' = Append(history, ExecutionCompleted(Outcome(history)))
       ELSE /\ status' = "failed"
            /\ history' = Append(history, Event("execution_failed", None))
  /\ UNCHANGED <<plan, described, shown, polling>>

EndedFromOutside(s) ==
  /\ status = "running"
  /\ status' = s
  /\ history' = Append(history, Event("execution_closed", None))
  /\ UNCHANGED <<plan, described, shown, polling>>

-----------------------------------------------------------------------------
(* _stages: from a description, [status, pending], and a history.          *)

Stage(key, stageStatus, category) ==
  [key |-> key, status |-> stageStatus, category |-> category]

KeyOf(a) == IF a \in Known THEN a ELSE "unknown"

Keys(stages) == {stages[i].key : i \in DOMAIN stages}
Has(stages, key, stageStatus) ==
  \E i \in DOMAIN stages : stages[i].key = key /\ stages[i].status = stageStatus

(* A closed activity, by the way it closed.                                *)
ClosedStage(e) ==
  IF e.activity \notin Known \/ e.type = "canceled" THEN Stage(KeyOf(e.activity), "unknown", None)
  ELSE IF e.type = "completed" THEN Stage(e.activity, "completed", None)
  ELSE Stage(e.activity, "failed", "activity_failed")

(* Mutant: an open activity of a closed execution still runs.              *)
RunningWhileOpen(e, executionStatus) ==
  Stage(KeyOf(e.activity), IF e.activity \in Known THEN "running" ELSE "unknown", None)
OpenStage(e, executionStatus) ==
  Stage(KeyOf(e.activity),
        IF e.activity \in Known /\ executionStatus = "running" THEN "running" ELSE "unknown", None)

FromHistory(h, executionStatus) ==
  LET closings == At(h, {i \in DOMAIN h : h[i].type \in ClosingType})
      open == OpenIn(h)
  IN  <<Stage("workflow", "completed", None)>>
        \o [i \in DOMAIN closings |-> ClosedStage(closings[i])]
        \o [i \in DOMAIN open |-> OpenStage(open[i], executionStatus)]

(* What the description calls pending and the history does not.            *)
WithPending(stages, h, desc) ==
  LET missing == At(desc.pending, {i \in DOMAIN desc.pending :
                   /\ desc.pending[i] \notin Open(h)
                   /\ ~Has(stages, KeyOf(desc.pending[i]), "running")})
  IN  stages \o [i \in DOMAIN missing |->
        Stage(KeyOf(missing[i]),
              IF missing[i] \in Known /\ desc.status = "running" THEN "running" ELSE "unknown",
              None)]

(* The stages a failure at stage f kept from being reached.                *)
Pipeline == <<"prepare", "deploy", "validate">>
NotReached(stages, f) ==
  LET missing == At(Pipeline, {j \in DOMAIN Pipeline :
                   /\ \E i \in 1 .. j - 1 : Pipeline[i] = f
                   /\ Pipeline[j] \notin Keys(stages)})
  IN  [i \in DOMAIN missing |-> Stage(missing[i], "not_reached", None)]

(* Mutant: stages that were not reached go to the end.                     *)
NotReachedLast(stages, f) == stages \o NotReached(stages, f)
InsertNotReached(stages, f) ==
  LET at == SelectInSeq(stages, LAMBDA s : s.key = f)
  IN  SubSeq(stages, 1, at) \o NotReached(stages, f) \o SubSeq(stages, at + 1, Len(stages))

WithFailure(stages, result) ==
  IF result = None \/ result.succeeded \/ result.type = "render" THEN stages
  ELSE LET f == result.stage
           named == IF f \in Keys(stages) THEN stages
                    ELSE InsertAt(stages, 2, Stage(f, "failed", "classified"))
           all == InsertNotReached(named, f)
       IN  [i \in DOMAIN all |->
              IF all[i].key = f /\ all[i].status = "failed"
                THEN Stage(f, "failed", "classified") ELSE all[i]]

WithFinalizing(stages, executionStatus) ==
  IF /\ executionStatus = "running"
     /\ \A i \in DOMAIN stages : stages[i].status # "running"
     /\ \E k \in Known \ {"publish"} : Has(stages, k, "completed")
     /\ ~Has(stages, "publish", "completed")
    THEN Append(stages, Stage("finalizing", "running", None)) ELSE stages

Stages(desc, h, result) ==
  WithFinalizing(
    WithFailure(WithPending(FromHistory(h, desc.status), h, desc), result), desc.status)

-----------------------------------------------------------------------------
(* _hydrate, _summary, deployment_from_summary and the rest of the detail. *)

ResultIn(h) ==
  LET closing == {i \in 1 .. Len(h) : h[i].type = "execution_completed"}
  IN  IF closing = {} THEN None ELSE h[CHOOSE i \in closing : TRUE].result

ExecutionFailure == Closed \ {"completed"}

(* Mutant: success read off the status.                                    *)
SuccessByStatus(s, result) ==
  IF s = "completed" THEN "succeeded" ELSE IF s = "running" THEN s ELSE "execution_failed"
SummaryOutcome(s, result) ==
  IF result # None THEN (IF result.succeeded THEN "succeeded" ELSE "failed")
  ELSE IF s \in ExecutionFailure THEN "execution_failed"
  ELSE IF s = "running" THEN s ELSE "unknown"

DeploymentOf(s, result) ==
  LET stage == IF result = None THEN None ELSE result.stage
  IN  IF s = "running" THEN [status |-> "queued", validation |-> "unknown", stage |-> stage]
      ELSE IF result # None /\ result.succeeded
        THEN [status |-> "succeeded", validation |-> "passed", stage |-> stage]
      ELSE IF result # None
        THEN [status |-> "failed", stage |-> stage,
              validation |-> IF stage = "validate" THEN "failed" ELSE "unavailable"]
      ELSE IF s \in ExecutionFailure
        THEN [status |-> "failed", validation |-> "unavailable", stage |-> "execution"]
      ELSE [status |-> "unknown", validation |-> "unknown", stage |-> None]

(* Mutant: the last stage, whatever its status.                            *)
LastStage(stages) ==
  IF Len(stages) = 1 THEN None ELSE Last(stages).key
Current(stages) ==
  LET at == SelectLastInSeq(stages, LAMBDA s : s.status \in {"running", "failed", "unknown"})
  IN  IF at # 0 THEN stages[at].key
      ELSE IF Len(stages) = 1 THEN None ELSE Last(stages).key

Validation(h, result) ==
  IF CloseOf(h, "validate") = "completed" THEN "passed"
  ELSE IF result # None /\ Kind = "deployment" /\ result.succeeded THEN "passed"
  ELSE IF result # None /\ result.stage = "validate" THEN "failed" ELSE None

FailureSummary(s, result) ==
  IF result # None THEN (IF result.succeeded THEN None ELSE [stage |-> result.stage])
  ELSE IF s \in ExecutionFailure THEN [stage |-> "execution"] ELSE None

Detail(desc, h) ==
  LET result == ResultIn(h)
      stages == Stages(desc, h, result)
  IN  [status |-> desc.status, outcome |-> SummaryOutcome(desc.status, result),
       stages |-> stages, current |-> Current(stages),
       deployment |-> IF Kind = "deployment" THEN DeploymentOf(desc.status, result) ELSE None,
       validation |-> Validation(h, result), failure |-> FailureSummary(desc.status, result)]

WithoutHistory(desc) ==
  [status |-> desc.status, outcome |-> SummaryOutcome(desc.status, None), stages |-> <<>>,
   current |-> None, deployment |-> None, validation |-> None, failure |-> None]

-----------------------------------------------------------------------------
(* The page (WorkflowDetailPage.tsx, usePolling.ts) and get_workflow_detail. *)

Describe ==
  /\ polling /\ described = None
  /\ described' = [status |-> status,
                   pending |-> IF status = "running"
                                 THEN [i \in DOMAIN OpenIn(history) |-> OpenIn(history)[i].activity]
                                 ELSE <<>>]
  /\ UNCHANGED <<execution, shown, polling>>

(* Mutant: the page stops at the first outcome it sees.                    *)
HasOutcome(detail) == detail.outcome # "running"
IsTerminalWorkflow(detail) == detail.status # "running"

Answer(detail) ==
  /\ shown' = detail
  /\ polling' = ~IsTerminalWorkflow(detail)
  /\ described' = None
  /\ UNCHANGED execution

ReadHistory == described # None /\ Answer(Detail(described, history))
HistoryFails == described # None /\ Answer(WithoutHistory(described))

Next ==
  \/ Schedule
  \/ \E type \in ClosingType : ActivityCloses(type)
  \/ Return
  \/ \E s \in {"timed_out", "canceled", "terminated"} : EndedFromOutside(s)
  \/ Describe
  \/ ReadHistory
  \/ HistoryFails

Spec == Init /\ [][Next]_vars

(* usePolling asks every four seconds while the page is visible, and a     *)
(* read under way returns because every await of it has a timeout.         *)
ReadReturns == described # None /\ described' = None
FairSpec == Spec /\ WF_vars(Describe) /\ WF_described(ReadReturns)

-----------------------------------------------------------------------------
StageKey == Known \cup {"workflow", "unknown", "finalizing"}
StageType ==
  [key : StageKey, category : {None, "activity_failed", "classified"},
   status : {"completed", "running", "failed", "not_reached", "unknown"}]

TypeOK ==
  /\ status \in Closed \cup {"running"}
  /\ described = None \/ described.status \in Closed \cup {"running"}
  /\ polling \in BOOLEAN
  /\ shown = None \/
       /\ shown.status \in Closed \cup {"running"}
       /\ shown.outcome \in {"running", "succeeded", "failed", "execution_failed", "unknown"}
       /\ shown.current \in StageKey \cup {None}
       /\ \A i \in DOMAIN shown.stages : shown.stages[i] \in StageType

(* What the history of a closed execution proves of an activity, or, for   *)
(* None, of the execution's having been started.                           *)
Proved(a) ==
  LET close == CloseOf(history, a) IN
  IF a = None THEN "completed"
  ELSE IF ~Scheduled(history, a)
    THEN IF ResultIn(history) # None /\ a # "publish" THEN "not_reached" ELSE None
  ELSE IF a \notin Known \/ close \in {None, "canceled"} THEN "unknown"
  ELSE IF close = "completed" THEN "completed" ELSE "failed"

Exact(detail) ==
  LET all == <<None>> \o Steps
      order == At(all, {i \in DOMAIN all :
                 /\ Proved(all[i]) # None
                 /\ all[i] \in Foreign => Proved(all[i]) # "not_reached"})
  IN  /\ Len(detail.stages) = Len(order)
      /\ \A i \in DOMAIN order :
           /\ detail.stages[i].key = (IF order[i] = None THEN "workflow" ELSE KeyOf(order[i]))
           /\ detail.stages[i].status = Proved(order[i])

(* Once the description says closed, the timeline is the history's, stage  *)
(* by stage and in the order of the pipeline, whatever was terminated,     *)
(* timed out or canceled half way (workflows.py:386-542).                  *)
ClosedReadIsExact ==
  shown # None /\ shown.status # "running" /\ shown.stages # <<>> => Exact(shown)

(* Three computations agree about a failed deployment: the current stage   *)
(* of the timeline, the stage of the deployment and that of the failure    *)
(* (workflows.py:251-336, 609-612, 650-665).                               *)
FailureIsNamed ==
  shown # None /\ shown.outcome = "failed" /\ shown.status = "completed"
    /\ shown.deployment # None =>
    /\ shown.current = shown.deployment.stage
    /\ shown.failure = [stage |-> shown.deployment.stage]

(* Success is never inferred: no mixture of an old description, a newer    *)
(* history or none shows it before the execution has validated and         *)
(* published (workflows.py:215-248, 299-336, 636-649).                     *)
SuccessIsProved ==
  shown # None =>
    /\ shown.outcome = "succeeded" =>
         \A a \in ToSet(plan) \cup {"publish"} : a \in Known => CloseOf(history, a) = "completed"
    /\ shown.validation = "passed" => CloseOf(history, "validate") = "completed"

(* A page left open comes to show the end of an execution that has closed, *)
(* with its whole timeline or, if the history could not be read at that    *)
(* moment, with none; it never stays with half of it (usePolling.ts:44-65). *)
FinalTimelineShown ==
  status # "running" ~>
    /\ shown # None
    /\ shown.status = status
    /\ shown.stages = <<>> \/ Exact(shown)

(* data-model.md:229 of feature 006: "Workflow stages transition only from *)
(* history evidence"; a stage its history has ended does not run.          *)
StagesFromHistory ==
  shown # None => \A i, j \in DOMAIN shown.stages :
    /\ shown.stages[i].key = shown.stages[j].key
    /\ shown.stages[i].status \in {"completed", "failed"}
    => shown.stages[j].status # "running"
=============================================================================
