--------------------------- MODULE DeviceWorkflow ---------------------------
(***************************************************************************)
(* workflows/render_device.py: one execution of                            *)
(* RenderDeviceConfigWorkflow, for a render or a deployment request, as    *)
(* Temporal drives it: activities attempted under their retry policies and *)
(* timeouts, the outcome event built and validated inside the workflow,    *)
(* and its publication.                                                    *)
(*                                                                         *)
(* What an activity does to the outside world is DeploymentPipeline's      *)
(* matter; here an attempt returns, raises one of the errors its code      *)
(* classifies, or is given up by Temporal.  Replay is not a step: the      *)
(* workflow's state is a function of its history.                          *)
(*                                                                         *)
(* Time is counted in ticks of half a second.                              *)
(***************************************************************************)
EXTENDS Naturals, FiniteSets

CONSTANTS
  None,            \* no outcome yet, no deployment time yet
  MaxSkew,         \* bound: ticks by which a worker's clock runs ahead
  WorkersPresent   \* FALSE: a task may wait for a worker for ever

ASSUME ConstantTypes == MaxSkew \in Nat /\ WorkersPresent \in BOOLEAN

Seconds(s) == 2 * s
ExecutionTimeout == Seconds(600)
Unbounded == ExecutionTimeout    \* no schedule_to_close_timeout: never the first to fire

(* Mutant: validation without a schedule_to_close_timeout.                 *)
NoValidationLimit == Unbounded
ValidationLimit == Seconds(90)

(***************************************************************************)
(* The activity options the workflow passes: first and longest pause       *)
(* between attempts, backoff coefficient num/den, attempts, the longest an *)
(* attempt may run, and the longest the activity may take altogether.      *)
(***************************************************************************)
Activity == {"render", "prepare", "deploy", "validate", "publish"}
Stage    == {"prepare", "deploy", "validate"}

Options ==
  [render   |-> [first |-> 2, num |-> 2, den |-> 1, longest |-> 20, attempts |-> 3,
                 startToClose |-> Seconds(60), scheduleToClose |-> Unbounded],
   prepare  |-> [first |-> 2, num |-> 2, den |-> 1, longest |-> 10, attempts |-> 3,
                 startToClose |-> Seconds(60), scheduleToClose |-> Unbounded],
   deploy   |-> [first |-> 4, num |-> 2, den |-> 1, longest |-> 20, attempts |-> 3,
                 startToClose |-> Seconds(30), scheduleToClose |-> Unbounded],
   validate |-> [first |-> 4, num |-> 3, den |-> 2, longest |-> 10, attempts |-> 12,
                 startToClose |-> Seconds(15), scheduleToClose |-> ValidationLimit],
   publish  |-> [first |-> 2, num |-> 2, den |-> 1, longest |-> 20, attempts |-> 5,
                 startToClose |-> Seconds(30), scheduleToClose |-> Unbounded]]

(* The pause after attempt n, and the end of the whole activity.           *)
Backoff(first, num, den, longest, n) ==
  LET grown == (first * num ^ (n - 1)) \div den ^ (n - 1)
  IN  IF grown < longest THEN grown ELSE longest

Pause(a, n) ==
  Backoff(Options[a].first, Options[a].num, Options[a].den, Options[a].longest, n)

(***************************************************************************)
(* The errors an attempt can end with; "timeout" is Temporal's own, and    *)
(* "publish_error" is the EventPublishError that carries no type.          *)
(***************************************************************************)
Raises ==
  [render   |-> {"nautobot_unavailable", "artifact_unavailable", "intent_invalid",
                 "nautobot_rejected", "unsupported_platform", "render_invalid",
                 "internal_error"},
   prepare  |-> {"nautobot_unavailable", "artifact_unavailable", "intent_invalid",
                 "nautobot_rejected", "unsupported_platform", "artifact_invalid",
                 "artifact_mismatch", "management_address_invalid",
                 "device_settings_missing"},
   deploy   |-> {"device_unavailable", "device_authentication_failed",
                 "artifact_mismatch", "device_identity_mismatch",
                 "device_platform_mismatch", "configuration_rejected",
                 "internal_error", "device_settings_missing"},
   validate |-> {"device_unavailable", "device_authentication_failed",
                 "device_state_invalid", "validation_not_converged",
                 "validation_failed", "internal_error", "device_settings_missing"},
   publish  |-> {"publish_error"}]

ApplicationErrorType == UNION {Raises[a] : a \in Activity}
ErrorType == ApplicationErrorType \cup {"timeout"}

(* Mutants: missing settings raised without the flag, and an unavailable   *)
(* device raised with it.                                                  *)
FlaggedButSettings == ApplicationErrorType \
  {"nautobot_unavailable", "artifact_unavailable", "device_unavailable",
   "validation_not_converged", "publish_error", "device_settings_missing"}
FlaggedEvenUnavailable == ApplicationErrorType \
  {"nautobot_unavailable", "artifact_unavailable", "validation_not_converged",
   "publish_error"}

(* What the code raises with non_retryable=True.                           *)
Flagged == ApplicationErrorType \
  {"nautobot_unavailable", "artifact_unavailable", "device_unavailable",
   "validation_not_converged", "publish_error"}

(* What each retry policy refuses to retry by its type.                    *)
RefusedByPolicy ==
  [render   |-> {"intent_invalid", "nautobot_rejected", "unsupported_platform",
                 "render_invalid", "internal_error"},
   prepare  |-> {"intent_invalid", "nautobot_rejected", "unsupported_platform",
                 "management_address_invalid", "artifact_invalid", "artifact_mismatch",
                 "device_settings_missing", "internal_error"},
   deploy   |-> {"device_authentication_failed", "device_identity_mismatch",
                 "device_platform_mismatch", "configuration_rejected",
                 "artifact_mismatch", "internal_error"},
   validate |-> {"device_authentication_failed", "device_state_invalid",
                 "validation_failed", "internal_error"},
   publish  |-> {}]

(* _DEPLOYMENT_FAILURE_TYPES and allowed_types: what the workflow passes   *)
(* on under its own name.                                                  *)
KnownToWorkflow ==
  [render   |-> Raises.render,
   prepare  |-> Raises.prepare,
   deploy   |-> Raises.deploy \ {"device_settings_missing"},
   validate |-> Raises.validate \ {"device_settings_missing"}]

(* _PREPARE_, _DEPLOY_ and _VALIDATE_FAILURE_TYPES of DeploymentFailed.    *)
AllowedByEvent ==
  [prepare  |-> Raises.prepare,
   deploy   |-> Raises.deploy \ {"device_settings_missing"},
   validate |-> Raises.validate \ {"device_settings_missing"}]

VARIABLES
  request,      \* "render" or "deploy": the input the execution was started with
  status,       \* of the execution
  activity,     \* the activity being attempted
  attempt,      \* number of its current attempt
  scheduledAt,  \* when it was scheduled
  failure,      \* how its last attempt failed, or None
  elapsed,      \* Temporal's clock since the execution started
  deployedAt,   \* the worker's clock when the Set was confirmed
  outcome,      \* the event built for this execution
  copies        \* times it was appended to its topic; CopiesCap stands for more

vars == <<request, status, activity, attempt, scheduledAt, failure, elapsed,
          deployedAt, outcome, copies>>

(* "stuck": the code raised while building an event, so Temporal fails the *)
(* workflow task and repeats it until the execution times out.             *)
Open   == {"attempting", "failing", "stuck", "unattended"}
Closed == {"completed", "failed", "timed_out"}

Outcome ==
  [type : {"render.completed", "render.failed", "deployment.completed"}]
  \cup [type : {"deployment.failed"}, stage : Stage, error : ErrorType, artifact : BOOLEAN]

CopiesCap == 2

ASSUME NoneIsNothing == None \notin Nat \cup ErrorType \cup Outcome

TypeOK ==
  /\ request \in {"render", "deploy"}
  /\ status \in Open \cup Closed
  /\ activity \in Activity
  /\ attempt \in Nat
  /\ scheduledAt \in Nat
  /\ failure \in ErrorType \cup {None}
  /\ elapsed \in Nat
  /\ deployedAt \in Nat \cup {None}
  /\ outcome \in Outcome \cup {None}
  /\ copies \in 0..CopiesCap

Init ==
  /\ request \in {"render", "deploy"}
  /\ status = "attempting"
  /\ activity = IF request = "render" THEN "render" ELSE "prepare"
  /\ attempt = 1
  /\ scheduledAt = 0
  /\ failure = None
  /\ elapsed = 0
  /\ deployedAt = None
  /\ outcome = None
  /\ copies = 0

-----------------------------------------------------------------------------
(* How long the current attempt may run before a timeout ends it.          *)
Limit ==
  LET left == scheduledAt + Options[activity].scheduleToClose - elapsed
  IN  IF left < Options[activity].startToClose THEN left ELSE Options[activity].startToClose

Schedule(next, now) ==
  /\ activity' = next
  /\ attempt' = 1
  /\ scheduledAt' = now
  /\ failure' = None
  /\ status' = "attempting"

-----------------------------------------------------------------------------
(* Building the outcome event.                                             *)

(* Mutant: workflow.now() alone.                                           *)
WorkflowNow(now) == now

(* _outcome_timestamp                                                      *)
OutcomeTimestamp(now) == IF now < deployedAt THEN deployedAt ELSE now

(* DeploymentFailed.require_stage_metadata                                 *)
StageMetadataHolds(event, at) ==
  /\ event.error \in AllowedByEvent[event.stage]
  /\ event.stage = "prepare"  => ~event.artifact /\ deployedAt = None
  /\ event.stage = "deploy"   => event.artifact /\ deployedAt = None
  /\ event.stage = "validate" => event.artifact /\ deployedAt # None /\ at >= deployedAt

(* DeploymentCompleted.require_consistent_completion                       *)
CompletionHolds(event, at) == event.type = "deployment.completed" => at >= deployedAt

Constructible(event, at) ==
  IF event.type = "deployment.failed" THEN StageMetadataHolds(event, at)
                                      ELSE CompletionHolds(event, at)

(* The event becomes the activity input of publish_render_result, or the   *)
(* workflow task that built it fails.                                      *)
Conclude(event, at, now) ==
  IF Constructible(event, at)
    THEN /\ outcome' = event
         /\ Schedule("publish", now)
    ELSE /\ status' = "stuck"
         /\ UNCHANGED <<outcome, activity, attempt, scheduledAt, failure>>

(* _deployment_error                                                       *)
DeploymentError(stage, cause) ==
  IF cause \in KnownToWorkflow[stage] THEN cause ELSE "internal_error"

FailureEvent ==
  IF activity = "render"
    THEN [type |-> "render.failed"]
    ELSE [type |-> "deployment.failed", stage |-> activity,
          error |-> DeploymentError(activity, failure), artifact |-> activity # "prepare"]

-----------------------------------------------------------------------------
(* Attempts.  d is how long the attempt ran.                               *)

OneMoreCopy == IF copies < CopiesCap THEN copies + 1 ELSE CopiesCap

(* Mutant: the count flush() returns is not looked at.                     *)
PerhapsAppended(acknowledged) == {copies, OneMoreCopy}

(* publish_event: returning normally means the broker acknowledged.        *)
Appended(acknowledged) == IF acknowledged THEN {OneMoreCopy} ELSE {copies, OneMoreCopy}

Succeed(d) ==
  /\ status = "attempting"
  /\ elapsed' = elapsed + d
  /\ deployedAt' \in IF activity = "deploy" THEN elapsed + d .. elapsed + d + MaxSkew
                                            ELSE {deployedAt}
  /\ CASE activity = "prepare" -> Schedule("deploy", elapsed') /\ UNCHANGED <<outcome, copies>>
       [] activity = "deploy"  -> Schedule("validate", elapsed') /\ UNCHANGED <<outcome, copies>>
       [] activity = "render"  ->
            Conclude([type |-> "render.completed"], elapsed', elapsed') /\ UNCHANGED copies
       [] activity = "validate" ->
            /\ Conclude([type |-> "deployment.completed"], OutcomeTimestamp(elapsed'), elapsed')
            /\ UNCHANGED copies
       [] activity = "publish" ->
            /\ copies' \in Appended(TRUE)
            /\ status' = "completed"
            /\ UNCHANGED <<outcome, activity, attempt, scheduledAt, failure>>
  /\ UNCHANGED request

(* Temporal's retry decision.                                              *)
Retries(a, n, error, now) ==
  /\ error \notin Flagged \cup RefusedByPolicy[a]
  /\ n < Options[a].attempts
  /\ now + Pause(a, n) < scheduledAt + Options[a].scheduleToClose

Fail(error, d) ==
  /\ status = "attempting"
  /\ failure' = error
  /\ copies' \in IF activity = "publish" THEN Appended(FALSE) ELSE {copies}
  /\ IF Retries(activity, attempt, error, elapsed + d)
       THEN /\ attempt' = attempt + 1
            /\ elapsed' = elapsed + d + Pause(activity, attempt)
            /\ UNCHANGED status
       ELSE /\ elapsed' = elapsed + d
            /\ status' = IF activity = "publish" THEN "failed" ELSE "failing"
            /\ UNCHANGED attempt
  /\ UNCHANGED <<request, activity, scheduledAt, deployedAt, outcome>>

(* except ActivityError: the failure of a stage becomes its event.         *)
HandleFailure ==
  /\ status = "failing"
  /\ Conclude(FailureEvent,
              IF activity = "validate" THEN OutcomeTimestamp(elapsed) ELSE elapsed, elapsed)
  /\ UNCHANGED <<request, elapsed, deployedAt, copies>>

(* Nothing polls the task queue for as long as the execution may last.     *)
WorkersVanish ==
  /\ ~WorkersPresent
  /\ status \in {"attempting", "failing"}
  /\ status' = "unattended"
  /\ elapsed' = ExecutionTimeout
  /\ UNCHANGED <<request, activity, attempt, scheduledAt, failure, deployedAt, outcome, copies>>

(* Mutant: start_workflow without an execution_timeout.                    *)
NoExecutionTimeout == FALSE /\ UNCHANGED vars

ExecutionTimesOut ==
  /\ status \in Open
  /\ status \in {"stuck", "unattended"} \/ elapsed >= ExecutionTimeout
  /\ status' = "timed_out"
  /\ UNCHANGED <<request, activity, attempt, scheduledAt, failure, elapsed, deployedAt,
                 outcome, copies>>

Next ==
  \/ \E d \in {0, Limit} : Succeed(d)
  \/ \E d \in {0, Limit} : \E error \in Raises[activity] : Fail(error, d)
  \/ Fail("timeout", Limit)
  \/ HandleFailure
  \/ WorkersVanish
  \/ ExecutionTimesOut

Spec == Init /\ [][Next]_vars
FairSpec == Spec /\ WF_vars(Next)

-----------------------------------------------------------------------------
(* Whatever stage fails, for whatever reason and whatever the worker's     *)
(* clock says, the event the workflow builds is one its model accepts; the *)
(* one exception is a prepare failure without a category of its own        *)
(* (render_device.py:125-135, models.py:333-362).                          *)
OutcomeIsConstructible ==
  status = "stuck" => activity = "prepare" /\ failure = "timeout"

(* While workers attend to it, no sequence of slow attempts, retries and   *)
(* pauses reaches the execution timeout: the workflow itself decides how   *)
(* it ends (render_device.py:25-91, consumer.py:135).                      *)
FitsExecutionTimeout ==
  status \notin {"unattended", "timed_out"} => elapsed < ExecutionTimeout

(* A completed execution has its outcome in Kafka at least once, though    *)
(* any publication attempt may lose its acknowledgement                    *)
(* (producer.py:48-68, activities/rendering.py:86-110).                    *)
CompletedMeansDelivered == status = "completed" => outcome # None /\ copies >= 1

(* What feature 004 calls transient (FR-024).                              *)
Transient == {"nautobot_unavailable", "artifact_unavailable", "device_unavailable",
              "validation_not_converged", "timeout"}

(* FR-025: nothing but a transient failure, or a publication's, is ever    *)
(* attempted again, whether the flag or the policy has to see to it        *)
(* (render_device.py:25-91, activities/deployment.py:127-193).             *)
NoBlindRetry ==
  status = "attempting" /\ attempt > 1 => failure \in Transient \cup {"publish_error"}

(* FR-024: a transient failure ends a stage only when its attempts are     *)
(* used up or the next would begin too late; neither flag nor policy takes *)
(* it for a permanent one (render_device.py:25-91, 287).                   *)
TransientIsRetried ==
  status = "failing" /\ failure \in Transient =>
    \/ attempt = Options[activity].attempts
    \/ elapsed + Pause(activity, attempt)
          >= scheduledAt + Options[activity].scheduleToClose

(* What FR-024 and FR-025 promise together of every attempt, over a state   *)
(* of the right kind (render_device.py:25-91, activities/deployment.py:127-193). *)
RetriesAsPromised == TypeOK /\ NoBlindRetry /\ TransientIsRetried

(* Why all this holds.  The longest an activity can take: all its attempts *)
(* and all its pauses, or its schedule_to_close_timeout; and the latest it *)
(* can begin, after the stages before it.                                  *)
WorstCase(a) ==
  LET all == Options[a].attempts * Options[a].startToClose
             + (Options[a].attempts - 1) * Options[a].longest
  IN  IF all < Options[a].scheduleToClose THEN all ELSE Options[a].scheduleToClose

LatestStart ==
  [render   |-> 0,
   prepare  |-> 0,
   deploy   |-> WorstCase("prepare"),
   validate |-> WorstCase("prepare") + WorstCase("deploy"),
   publish  |-> WorstCase("prepare") + WorstCase("deploy") + WorstCase("validate")]

(* An attempt begins within the attempts and pauses before it, and before  *)
(* the activity's own end.                                                 *)
InTime ==
  /\ attempt \in 1..Options[activity].attempts
  /\ scheduledAt <= LatestStart[activity]
  /\ scheduledAt <= elapsed
  /\ status = "attempting" =>
       /\ elapsed <= scheduledAt
            + (attempt - 1) * (Options[activity].startToClose + Options[activity].longest)
       /\ elapsed < scheduledAt + Options[activity].scheduleToClose
  /\ status \in {"failing", "stuck", "completed", "failed"} =>
       elapsed <= scheduledAt + WorstCase(activity)

(* What the execution knows at each activity.                              *)
KnownByNow ==
  /\ failure # None => failure \in Raises[activity] \cup {"timeout"}
  /\ status = "failing" => failure # None /\ activity # "publish"
  /\ activity \in {"render", "prepare", "deploy"} => deployedAt = None
  /\ activity = "validate" => deployedAt # None
  /\ activity = "publish" => outcome # None
  /\ status = "completed" => activity = "publish" /\ copies >= 1

IInv ==
  /\ InTime /\ KnownByNow
  /\ OutcomeIsConstructible /\ RetriesAsPromised

(* No execution stays open, whether its workers have gone or an event it   *)
(* builds is refused again and again: nothing would ever reuse its id      *)
(* (consumer.py:134-135).                                                  *)
EveryExecutionCloses == <>(status \in Closed)

(* contracts/execution.md:46 of feature 004: "Prepare (including render),  *)
(* deploy, or validate failure creates one `DeploymentFailed`".            *)
FailureCreatesOutcome == status = "failing" ~> outcome # None
=============================================================================
