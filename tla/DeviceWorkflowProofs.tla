------------------------- MODULE DeviceWorkflowProofs -------------------------
(***************************************************************************)
(* The safety properties of DeviceWorkflow hold however far the worker's   *)
(* clock runs ahead and however long each attempt runs within its limit:   *)
(* AnySpec lets an attempt take any time, where the runs take the shortest *)
(* and the longest.                                                        *)
(***************************************************************************)
EXTENDS DeviceWorkflow, Integers, TLAPS

AnyNext ==
  \/ \E d \in 0..Limit : Succeed(d)
  \/ \E d \in 0..Limit : \E error \in Raises[activity] \cup {"timeout"} : Fail(error, d)
  \/ HandleFailure
  \/ WorkersVanish
  \/ ExecutionTimesOut

AnySpec == Init /\ [][AnyNext]_vars

-----------------------------------------------------------------------------
(* The activity options, in ticks.                                         *)
LEMMA Limits ==
  /\ Options.render.startToClose = 120 /\ Options.prepare.startToClose = 120
  /\ Options.deploy.startToClose = 60 /\ Options.validate.startToClose = 30
  /\ Options.publish.startToClose = 60
  /\ Options.render.scheduleToClose = 1200 /\ Options.prepare.scheduleToClose = 1200
  /\ Options.deploy.scheduleToClose = 1200 /\ Options.validate.scheduleToClose = 180
  /\ Options.publish.scheduleToClose = 1200
BY DEF Options, Seconds, Unbounded, ExecutionTimeout, ValidationLimit

LEMMA Attempts ==
  /\ Options.render.attempts = 3 /\ Options.prepare.attempts = 3 /\ Options.deploy.attempts = 3
  /\ Options.validate.attempts = 12 /\ Options.publish.attempts = 5
  /\ Options.render.longest = 20 /\ Options.prepare.longest = 10 /\ Options.deploy.longest = 20
  /\ Options.validate.longest = 10 /\ Options.publish.longest = 20
BY DEF Options

LEMMA Worst ==
  /\ WorstCase("render") = 400 /\ WorstCase("prepare") = 380 /\ WorstCase("deploy") = 220
  /\ WorstCase("validate") = 180 /\ WorstCase("publish") = 380
BY Limits, Attempts DEF WorstCase

LEMMA Latest ==
  /\ LatestStart.render = 0 /\ LatestStart.prepare = 0 /\ LatestStart.deploy = 380
  /\ LatestStart.validate = 600 /\ LatestStart.publish = 780
BY Worst DEF LatestStart

(* A pause is never longer than the longest, whatever the coefficient.     *)
LEMMA Pauses ==
  ASSUME NEW a \in Activity, NEW n \in 1..(Options[a].attempts - 1)
  PROVE  Pause(a, n) \in 0..Options[a].longest
<1> USE DEF Backoff
<1>1. Backoff(2, 2, 1, 20, 1) = 2 /\ Backoff(2, 2, 1, 20, 2) = 4
  OBVIOUS
<1>2. Backoff(2, 2, 1, 10, 1) = 2 /\ Backoff(2, 2, 1, 10, 2) = 4
  OBVIOUS
<1>3. Backoff(4, 2, 1, 20, 1) = 4 /\ Backoff(4, 2, 1, 20, 2) = 8
  OBVIOUS
<1>4. Backoff(4, 3, 2, 10, 1) = 4 /\ Backoff(4, 3, 2, 10, 2) = 6 /\ Backoff(4, 3, 2, 10, 3) = 9
  OBVIOUS
<1>5. /\ Backoff(4, 3, 2, 10, 4) = 10 /\ Backoff(4, 3, 2, 10, 5) = 10
      /\ Backoff(4, 3, 2, 10, 6) = 10 /\ Backoff(4, 3, 2, 10, 7) = 10
  OBVIOUS
<1>6. /\ Backoff(4, 3, 2, 10, 8) = 10 /\ Backoff(4, 3, 2, 10, 9) = 10
      /\ Backoff(4, 3, 2, 10, 10) = 10 /\ Backoff(4, 3, 2, 10, 11) = 10
  OBVIOUS
<1>7. /\ Backoff(2, 2, 1, 20, 3) = 8 /\ Backoff(2, 2, 1, 20, 4) = 16
  OBVIOUS
<1> HIDE DEF Backoff
<1>a. /\ Pause("render", n) = Backoff(2, 2, 1, 20, n)
      /\ Pause("prepare", n) = Backoff(2, 2, 1, 10, n)
      /\ Pause("deploy", n) = Backoff(4, 2, 1, 20, n)
      /\ Pause("validate", n) = Backoff(4, 3, 2, 10, n)
      /\ Pause("publish", n) = Backoff(2, 2, 1, 20, n)
  BY DEF Pause, Options
<1> USE DEF Activity
<1>8. CASE a \in {"render", "prepare", "deploy"}
  <2>1. n = 1 \/ n = 2
    BY <1>8, Attempts
  <2>2. QED
    BY <1>1, <1>2, <1>3, <1>8, <1>a, <2>1, Attempts
<1>9. CASE a = "validate"
  <2>1. n \in 1..11
    BY <1>9, Attempts
  <2>2. \A m \in 1..11 : m \in 1..3 \/ m \in 4..7 \/ m \in 8..11
    OBVIOUS
  <2>3. n \in 1..3 => Pause(a, n) \in 0..10
    BY <1>4, <1>9, <1>a
  <2>4. n \in 4..7 => Pause(a, n) \in 0..10
    BY <1>5, <1>9, <1>a
  <2>5. n \in 8..11 => Pause(a, n) \in 0..10
    BY <1>6, <1>9, <1>a
  <2>6. QED
    BY <1>9, <2>1, <2>2, <2>3, <2>4, <2>5, Attempts
<1>10. CASE a = "publish"
  <2>1. n \in 1..4
    BY <1>10, Attempts
  <2>2. QED
    BY <1>1, <1>7, <1>10, <1>a, <2>1, Attempts
<1>11. QED
  BY <1>8, <1>9, <1>10

(* When an attempt ends, the activity has used no more than its attempts   *)
(* and pauses so far, nor more than its own limit.                         *)
LEMMA AttemptEnds ==
  ASSUME TypeOK, InTime, status = "attempting", NEW d \in 0..Limit
  PROVE  /\ elapsed + d \in Nat /\ elapsed + d >= scheduledAt
         /\ elapsed + d <= scheduledAt + WorstCase(activity)
         /\ attempt < Options[activity].attempts =>
              \A pause \in 0..Options[activity].longest :
                elapsed + d + pause <= scheduledAt
                  + attempt * (Options[activity].startToClose + Options[activity].longest)
<1>1. /\ elapsed \in Nat /\ scheduledAt \in Nat /\ attempt \in Nat /\ activity \in Activity
      /\ attempt \in 1..Options[activity].attempts /\ scheduledAt <= elapsed
      /\ elapsed <= scheduledAt
           + (attempt - 1) * (Options[activity].startToClose + Options[activity].longest)
      /\ elapsed < scheduledAt + Options[activity].scheduleToClose
  BY DEF TypeOK, InTime
<1>2. /\ Limit <= Options[activity].startToClose
      /\ Limit <= scheduledAt + Options[activity].scheduleToClose - elapsed
      /\ Limit \in Int
  BY <1>1, Limits DEF Limit, Activity
<1>3. d \in Nat /\ d <= Limit
  BY <1>2
<1>4. CASE activity \in {"render", "prepare"}
  BY <1>1, <1>2, <1>3, <1>4, Limits, Attempts, Worst
<1>5. CASE activity \in {"deploy", "publish"}
  BY <1>1, <1>2, <1>3, <1>5, Limits, Attempts, Worst
<1>6. CASE activity = "validate"
  BY <1>1, <1>2, <1>3, <1>6, Limits, Attempts, Worst
<1>7. QED
  BY <1>1, <1>4, <1>5, <1>6 DEF Activity

(* The stages follow each other in time for the next.                      *)
LEMMA StageEnds ==
  ASSUME TypeOK, InTime, NEW now \in Nat, now <= scheduledAt + WorstCase(activity)
  PROVE  /\ activity = "prepare" => now <= LatestStart.deploy
         /\ activity = "deploy" => now <= LatestStart.validate
         /\ activity # "publish" => now <= LatestStart.publish
         /\ now < ExecutionTimeout
<1>1. scheduledAt \in Nat /\ activity \in Activity /\ scheduledAt <= LatestStart[activity]
  BY DEF TypeOK, InTime
<1>2. ExecutionTimeout = 1200
  BY DEF ExecutionTimeout, Seconds
<1>3. QED
  BY <1>1, <1>2, Worst, Latest DEF Activity

-----------------------------------------------------------------------------
(* An activity that is scheduled has its time before it.                   *)
LEMMA ScheduleStep ==
  ASSUME IInv, NEW next \in Activity \ {"render", "prepare"}, NEW now \in Nat,
         Schedule(next, now), elapsed' = now, now <= LatestStart[next], UNCHANGED request,
         deployedAt' \in Nat \cup {None}, outcome' \in Outcome \cup {None}, copies' = copies,
         next = "deploy" => deployedAt' = None, next = "validate" => deployedAt' # None,
         next = "publish" => outcome' # None
  PROVE  IInv'
<1>1. /\ activity' = next /\ attempt' = 1 /\ scheduledAt' = now /\ failure' = None
      /\ status' = "attempting"
  BY DEF Schedule
<1>2. TypeOK'
  BY <1>1 DEF IInv, RetriesAsPromised, TypeOK, Open, Activity
<1>3. InTime'
  <2>1. Options[next].attempts >= 1 /\ Options[next].scheduleToClose > 0 /\ Options[next].attempts \in Nat
        /\ Options[next].scheduleToClose \in Nat
        /\ Options[next].startToClose + Options[next].longest \in Nat
    BY Attempts, Limits DEF Activity
  <2>2. (1 - 1) * (Options[next].startToClose + Options[next].longest) = 0
    BY <2>1
  <2>3. QED
    BY <1>1, <2>1, <2>2 DEF InTime
<1>4. KnownByNow'
  BY <1>1 DEF KnownByNow
<1>5. OutcomeIsConstructible' /\ NoBlindRetry' /\ TransientIsRetried'
  BY <1>1 DEF OutcomeIsConstructible, NoBlindRetry, TransientIsRetried
<1>6. QED
  BY <1>2, <1>3, <1>4, <1>5 DEF IInv, RetriesAsPromised

(* The events of a success are built: the clock that stamps them is not    *)
(* behind the deployment.                                                  *)
LEMMA Completions ==
  /\ [type |-> "render.completed"] \in Outcome /\ [type |-> "deployment.completed"] \in Outcome
  /\ None \notin Outcome /\ None \notin Nat
  /\ \A now \in Nat : Constructible([type |-> "render.completed"], now)
  /\ \A now \in Nat : deployedAt \in Nat =>
       Constructible([type |-> "deployment.completed"], OutcomeTimestamp(now))
<1>1. [type |-> "render.completed"] \in Outcome /\ [type |-> "deployment.completed"] \in Outcome
  BY DEF Outcome
<1>2. None \notin Outcome /\ None \notin Nat
  BY NoneIsNothing
<1>3. \A now \in Nat : Constructible([type |-> "render.completed"], now)
  BY DEF Constructible, CompletionHolds
<1>4. \A now \in Nat : deployedAt \in Nat =>
        Constructible([type |-> "deployment.completed"], OutcomeTimestamp(now))
  BY DEF Constructible, CompletionHolds, OutcomeTimestamp
<1>5. QED
  BY <1>1, <1>2, <1>3, <1>4

LEMMA SucceedStep ==
  ASSUME IInv, NEW d \in 0..Limit, Succeed(d)
  PROVE  IInv'
<1>1. TypeOK /\ InTime /\ KnownByNow /\ status = "attempting" /\ activity \in Activity
  BY DEF IInv, RetriesAsPromised, Succeed, TypeOK
<1> DEFINE now == elapsed + d
<1>2. /\ elapsed' = now /\ now \in Nat /\ now >= scheduledAt
      /\ now <= scheduledAt + WorstCase(activity)
      /\ activity = "prepare" => now <= LatestStart.deploy
      /\ activity = "deploy" => now <= LatestStart.validate
      /\ activity # "publish" => now <= LatestStart.publish
  <2>1. now \in Nat /\ now >= scheduledAt /\ now <= scheduledAt + WorstCase(activity)
    BY <1>1, AttemptEnds
  <2>2. QED
    BY <1>1, <2>1, StageEnds DEF Succeed
<1>3. UNCHANGED request
  BY DEF Succeed
<1> HIDE DEF now
<1>4. CASE activity = "prepare"
  <2>1. Schedule("deploy", now) /\ UNCHANGED <<outcome, copies>> /\ deployedAt' = deployedAt
    BY <1>2, <1>4 DEF Succeed
  <2>2. deployedAt = None
    BY <1>1, <1>4 DEF KnownByNow
  <2>3. outcome \in Outcome \cup {None}
    BY <1>1 DEF TypeOK
  <2>4. QED
    BY <1>2, <1>3, <1>4, <2>1, <2>2, <2>3, ScheduleStep DEF Activity
<1>5. CASE activity = "deploy"
  <2>1. Schedule("validate", now) /\ UNCHANGED <<outcome, copies>> /\ deployedAt' \in now .. now + MaxSkew
    BY <1>2, <1>5 DEF Succeed, now
  <2>2. deployedAt' \in Nat /\ deployedAt' # None
    BY <1>2, <2>1, ConstantTypes, Completions
  <2>3. outcome \in Outcome \cup {None}
    BY <1>1 DEF TypeOK
  <2>4. QED
    BY <1>2, <1>3, <1>5, <2>1, <2>2, <2>3, ScheduleStep DEF Activity
<1>6. CASE activity \in {"render", "validate"}
  <2>1. deployedAt' = deployedAt /\ copies' = copies
    BY <1>6 DEF Succeed
  <2>2. PICK event \in Outcome : outcome' = event /\ Schedule("publish", now)
    <3>1. CASE activity = "render"
      <4>1. Conclude([type |-> "render.completed"], now, now)
        BY <1>2, <3>1 DEF Succeed
      <4>2. QED
        BY <1>2, <4>1, Completions DEF Conclude
    <3>2. CASE activity = "validate"
      <4>1. Conclude([type |-> "deployment.completed"], OutcomeTimestamp(now), now)
        BY <1>2, <3>2 DEF Succeed
      <4>2. deployedAt \in Nat
        BY <1>1, <3>2 DEF KnownByNow, TypeOK
      <4>3. QED
        BY <1>2, <4>1, <4>2, Completions DEF Conclude
    <3>3. QED
      BY <1>6, <3>1, <3>2
  <2>3. deployedAt \in Nat \cup {None} /\ outcome' # None
    BY <1>1, <2>2, Completions DEF TypeOK
  <2>4. QED
    BY <1>2, <1>3, <1>6, <2>1, <2>2, <2>3, ScheduleStep DEF Activity
<1>7. CASE activity = "publish"
  <2>1. /\ status' = "completed" /\ deployedAt' = deployedAt /\ copies' = OneMoreCopy
        /\ UNCHANGED <<outcome, activity, attempt, scheduledAt, failure>>
    BY <1>7 DEF Succeed, Appended
  <2>2. copies' \in 1..2
    BY <1>1, <2>1 DEF OneMoreCopy, TypeOK, CopiesCap
  <2>3. TypeOK'
    BY <1>1, <1>2, <1>3, <2>1, <2>2 DEF TypeOK, CopiesCap, Closed
  <2>4. InTime'
    BY <1>1, <1>2, <2>1 DEF InTime
  <2>5. KnownByNow'
    BY <1>1, <1>7, <2>1, <2>2 DEF KnownByNow
  <2>6. OutcomeIsConstructible' /\ NoBlindRetry' /\ TransientIsRetried'
    BY <2>1 DEF OutcomeIsConstructible, NoBlindRetry, TransientIsRetried
  <2>7. QED
    BY <2>3, <2>4, <2>5, <2>6 DEF IInv, RetriesAsPromised
<1>8. QED
  BY <1>1, <1>4, <1>5, <1>6, <1>7 DEF Activity

-----------------------------------------------------------------------------
(* An error an attempt ends with is retried unless flagged or refused.     *)
LEMMA RetryStep ==
  ASSUME IInv, NEW d \in 0..Limit, NEW error \in Raises[activity] \cup {"timeout"}, Fail(error, d)
  PROVE  IInv'
<1>1. TypeOK /\ InTime /\ KnownByNow /\ status = "attempting" /\ activity \in Activity
  BY DEF IInv, RetriesAsPromised, Fail, TypeOK
<1> DEFINE now == elapsed + d
           n == Options[activity].attempts
<1>2. /\ now \in Nat /\ now >= scheduledAt /\ now <= scheduledAt + WorstCase(activity)
      /\ attempt < n =>
           \A pause \in 0..Options[activity].longest :
             now + pause <= scheduledAt
               + attempt * (Options[activity].startToClose + Options[activity].longest)
  BY <1>1, AttemptEnds
<1>3. /\ attempt \in Nat /\ attempt \in 1..n /\ scheduledAt \in Nat
      /\ n \in Nat /\ Options[activity].longest \in Nat
  BY <1>1, Attempts DEF InTime, TypeOK, Activity
<1>4. attempt < n => Pause(activity, attempt) \in 0..Options[activity].longest
  BY <1>1, <1>3, Pauses
<1>5. /\ error \in ErrorType /\ error # None /\ failure' = error
      /\ UNCHANGED <<request, activity, scheduledAt, deployedAt, outcome>>
  <2>1. error \in ErrorType
    BY <1>1 DEF ErrorType, ApplicationErrorType
  <2>2. QED
    BY <2>1, NoneIsNothing DEF Fail
<1>6. copies' \in 0..CopiesCap
  BY <1>1 DEF Fail, Appended, OneMoreCopy, TypeOK, CopiesCap
<1> HIDE DEF now, n
<1>7. CASE Retries(activity, attempt, error, now)
  <2>1. /\ attempt' = attempt + 1 /\ elapsed' = now + Pause(activity, attempt) /\ status' = status
    BY <1>7 DEF Fail, now
  <2>2. /\ error \notin Flagged \cup RefusedByPolicy[activity] /\ attempt < n
        /\ now + Pause(activity, attempt) < scheduledAt + Options[activity].scheduleToClose
    BY <1>7 DEF Retries, n
  <2>3. elapsed' \in Nat /\ elapsed' >= scheduledAt
    BY <1>2, <1>3, <1>4, <2>1, <2>2
  <2>4. TypeOK'
    BY <1>1, <1>3, <1>5, <1>6, <2>1, <2>3 DEF TypeOK
  <2>5. InTime'
    <3>1. attempt' \in 1..n /\ attempt' - 1 = attempt
      BY <1>3, <2>1, <2>2
    <3>2. elapsed' <= scheduledAt + attempt * (Options[activity].startToClose + Options[activity].longest)
      BY <1>2, <1>4, <2>1, <2>2
    <3>3. QED
      BY <1>1, <1>5, <2>1, <2>2, <2>3, <3>1, <3>2 DEF InTime, n
  <2>6. KnownByNow'
    BY <1>1, <1>5, <2>1 DEF KnownByNow
  <2>7. NoBlindRetry'
    <3>1. error \in Transient \cup {"publish_error"}
      BY <1>1, <2>2 DEF Flagged, ApplicationErrorType, Transient
    <3>2. QED
      BY <1>5, <3>1 DEF NoBlindRetry
  <2>8. OutcomeIsConstructible' /\ TransientIsRetried'
    BY <1>1, <2>1 DEF OutcomeIsConstructible, TransientIsRetried
  <2>9. QED
    BY <2>4, <2>5, <2>6, <2>7, <2>8 DEF IInv, RetriesAsPromised
<1>8. CASE ~Retries(activity, attempt, error, now)
  <2>1. /\ attempt' = attempt /\ elapsed' = now
        /\ status' = IF activity = "publish" THEN "failed" ELSE "failing"
    BY <1>8 DEF Fail, now
  <2>2. TypeOK'
    BY <1>1, <1>2, <1>5, <1>6, <2>1 DEF TypeOK, Open, Closed
  <2>3. InTime'
    BY <1>1, <1>2, <1>3, <1>5, <2>1 DEF InTime, n
  <2>4. KnownByNow'
    BY <1>1, <1>5, <2>1 DEF KnownByNow
  <2>5. TransientIsRetried'
    <3>1. SUFFICES ASSUME error \in Transient, attempt # n
                   PROVE  now + Pause(activity, attempt) >= scheduledAt + Options[activity].scheduleToClose
      BY <1>5, <2>1 DEF TransientIsRetried, n
    <3>2. error \notin Flagged \cup RefusedByPolicy[activity]
      BY <1>1, <3>1 DEF Transient, Flagged, ApplicationErrorType, Raises, RefusedByPolicy, Activity
    <3>3. ~(now + Pause(activity, attempt) < scheduledAt + Options[activity].scheduleToClose)
      BY <1>3, <1>8, <3>1, <3>2 DEF Retries, n
    <3>4. Options[activity].scheduleToClose \in Nat
      BY <1>1, Limits DEF Activity
    <3>5. QED
      BY <1>2, <1>3, <1>4, <3>1, <3>3, <3>4
  <2>6. OutcomeIsConstructible' /\ NoBlindRetry'
    BY <2>1 DEF OutcomeIsConstructible, NoBlindRetry
  <2>7. QED
    BY <2>2, <2>3, <2>4, <2>5, <2>6 DEF IInv, RetriesAsPromised
<1>9. QED
  BY <1>7, <1>8

-----------------------------------------------------------------------------
(* When the failure of a stage becomes an event.                           *)
FailedAt == IF activity = "validate" THEN OutcomeTimestamp(elapsed) ELSE elapsed

(* The stage's event carries an error its model allows, and a timestamp    *)
(* that is not before the deployment's, but for a preparation that timed   *)
(* out.                                                                    *)
LEMMA FailuresAreEvents ==
  ASSUME TypeOK, KnownByNow, status = "failing"
  PROVE  /\ FailureEvent \in Outcome
         /\ Constructible(FailureEvent, FailedAt) \/ (activity = "prepare" /\ failure = "timeout")
<1>1. /\ activity \in {"render", "prepare", "deploy", "validate"} /\ elapsed \in Nat
      /\ failure \in Raises[activity] \cup {"timeout"} /\ failure \in ErrorType
      /\ activity \in {"prepare", "deploy"} => deployedAt = None
      /\ activity = "validate" => deployedAt \in Nat /\ deployedAt # None
  BY DEF TypeOK, KnownByNow, Activity
<1>2. CASE activity = "render"
  <2>1. FailureEvent = [type |-> "render.failed"]
    BY <1>2 DEF FailureEvent
  <2>2. FailureEvent \in Outcome
    BY <2>1 DEF Outcome
  <2>3. Constructible(FailureEvent, FailedAt)
    BY <2>1 DEF Constructible, CompletionHolds
  <2>4. QED
    BY <2>2, <2>3
<1>3. CASE activity # "render"
  <2> DEFINE error == DeploymentError(activity, failure)
  <2>1. FailureEvent = [type |-> "deployment.failed", stage |-> activity,
                        error |-> error, artifact |-> activity # "prepare"]
    BY <1>3 DEF FailureEvent
  <2>2. error \in ErrorType
    <3>1. "internal_error" \in ErrorType
      BY DEF ErrorType, ApplicationErrorType, Raises, Activity
    <3>2. QED
      BY <1>1, <3>1 DEF DeploymentError
  <2>3. error \in AllowedByEvent[activity] \/ (activity = "prepare" /\ failure = "timeout")
    <3>1. CASE activity = "prepare"
      BY <1>1, <3>1 DEF DeploymentError, KnownToWorkflow, AllowedByEvent
    <3>2. CASE activity = "deploy"
      BY <1>1, <3>2 DEF DeploymentError, KnownToWorkflow, AllowedByEvent, Raises
    <3>3. CASE activity = "validate"
      BY <1>1, <3>3 DEF DeploymentError, KnownToWorkflow, AllowedByEvent, Raises
    <3>4. QED
      BY <1>1, <1>3, <3>1, <3>2, <3>3
  <2> HIDE DEF error
  <2>4. FailureEvent \in Outcome
    BY <1>1, <1>3, <2>1, <2>2 DEF Outcome, Stage
  <2>5. activity = "validate" => FailedAt >= deployedAt
    BY <1>1 DEF FailedAt, OutcomeTimestamp
  <2>6. /\ FailureEvent.type = "deployment.failed" /\ FailureEvent.stage = activity
        /\ FailureEvent.error = error /\ (FailureEvent.artifact <=> activity # "prepare")
    BY <2>1
  <2>7. error \in AllowedByEvent[activity] => StageMetadataHolds(FailureEvent, FailedAt)
    BY <1>1, <2>5, <2>6 DEF StageMetadataHolds
  <2>8. QED
    BY <2>3, <2>4, <2>6, <2>7 DEF Constructible
<1>4. QED
  BY <1>2, <1>3

LEMMA HandleStep ==
  ASSUME IInv, HandleFailure
  PROVE  IInv'
<1>1. TypeOK /\ InTime /\ KnownByNow /\ status = "failing" /\ activity # "publish"
      /\ UNCHANGED <<request, elapsed, deployedAt, copies>> /\ elapsed \in Nat
  BY DEF IInv, RetriesAsPromised, HandleFailure, KnownByNow, TypeOK
<1>2. Conclude(FailureEvent, FailedAt, elapsed)
  BY DEF HandleFailure, FailedAt
<1>3. CASE Constructible(FailureEvent, FailedAt)
  <2>1. outcome' = FailureEvent /\ Schedule("publish", elapsed)
    BY <1>2, <1>3 DEF Conclude
  <2>2. outcome' \in Outcome \cup {None} /\ outcome' # None
    BY <1>1, <2>1, FailuresAreEvents, Completions
  <2>3. elapsed <= scheduledAt + WorstCase(activity)
    BY <1>1 DEF InTime
  <2>4. elapsed <= LatestStart.publish
    BY <1>1, <2>3, StageEnds
  <2>5. deployedAt' \in Nat \cup {None}
    BY <1>1 DEF TypeOK
  <2>6. QED
    BY <1>1, <2>1, <2>2, <2>4, <2>5, ScheduleStep DEF Activity
<1>4. CASE ~Constructible(FailureEvent, FailedAt)
  <2>1. status' = "stuck" /\ UNCHANGED <<outcome, activity, attempt, scheduledAt, failure>>
    BY <1>2, <1>4 DEF Conclude
  <2>2. activity = "prepare" /\ failure = "timeout"
    BY <1>1, <1>4, FailuresAreEvents
  <2>3. TypeOK'
    BY <1>1, <2>1 DEF TypeOK, Open
  <2>4. InTime' /\ KnownByNow'
    BY <1>1, <2>1 DEF InTime, KnownByNow
  <2>5. OutcomeIsConstructible' /\ NoBlindRetry' /\ TransientIsRetried'
    BY <2>1, <2>2 DEF OutcomeIsConstructible, NoBlindRetry, TransientIsRetried
  <2>6. QED
    BY <2>3, <2>4, <2>5 DEF IInv, RetriesAsPromised
<1>5. QED
  BY <1>3, <1>4

(* An execution nobody attends to, or that has timed out, promises nothing *)
(* more.                                                                   *)
LEMMA AbandonStep ==
  ASSUME IInv, WorkersVanish \/ ExecutionTimesOut
  PROVE  IInv'
<1>1. TypeOK /\ InTime /\ KnownByNow
  BY DEF IInv, RetriesAsPromised
<1>2. /\ status' \in {"unattended", "timed_out"} /\ elapsed' \in {elapsed, ExecutionTimeout}
      /\ UNCHANGED <<request, activity, attempt, scheduledAt, failure, deployedAt, outcome, copies>>
  BY DEF WorkersVanish, ExecutionTimesOut
<1>3. scheduledAt \in Nat /\ scheduledAt <= elapsed /\ elapsed \in Nat
      /\ scheduledAt <= 780 /\ ExecutionTimeout = 1200
  BY <1>1, Latest DEF InTime, TypeOK, Activity, ExecutionTimeout, Seconds
<1>4. TypeOK'
  BY <1>1, <1>2, <1>3 DEF TypeOK, Open, Closed
<1>5. InTime' /\ KnownByNow'
  BY <1>1, <1>2, <1>3 DEF InTime, KnownByNow
<1>6. OutcomeIsConstructible' /\ NoBlindRetry' /\ TransientIsRetried'
  BY <1>2 DEF OutcomeIsConstructible, NoBlindRetry, TransientIsRetried
<1>7. QED
  BY <1>4, <1>5, <1>6 DEF IInv, RetriesAsPromised

LEMMA InitIInv == Init => IInv
<1> SUFFICES ASSUME Init PROVE IInv
  OBVIOUS
<1>1. /\ request \in {"render", "deploy"} /\ status = "attempting" /\ attempt = 1
      /\ activity \in {"render", "prepare"} /\ scheduledAt = 0 /\ elapsed = 0
      /\ failure = None /\ deployedAt = None /\ outcome = None /\ copies = 0
  BY DEF Init
<1>2. TypeOK
  BY <1>1 DEF TypeOK, Open, Activity, CopiesCap
<1>3. InTime
  BY <1>1, Attempts, Limits, Latest DEF InTime
<1>4. KnownByNow /\ OutcomeIsConstructible /\ NoBlindRetry /\ TransientIsRetried
  BY <1>1 DEF KnownByNow, OutcomeIsConstructible, NoBlindRetry, TransientIsRetried
<1>5. QED
  BY <1>2, <1>3, <1>4 DEF IInv, RetriesAsPromised

LEMMA NextIInv == IInv /\ [AnyNext]_vars => IInv'
<1> SUFFICES ASSUME IInv, [AnyNext]_vars PROVE IInv'
  OBVIOUS
<1>1. ASSUME UNCHANGED vars PROVE IInv'
  BY <1>1 DEF vars, IInv, InTime, KnownByNow, OutcomeIsConstructible, RetriesAsPromised, TypeOK,
              NoBlindRetry, TransientIsRetried
<1>2. QED
  BY <1>1, SucceedStep, RetryStep, HandleStep, AbandonStep DEF AnyNext

(* The invariant the workflow's promises rest on, whatever time each       *)
(* attempt takes within its limit (workflows/render_device.py:25-345).     *)
THEOREM WorkflowInvariant == AnySpec => []IInv
<1>1. QED
  BY InitIInv, NextIInv, PTL DEF AnySpec

(* The shortest and the longest attempts are attempts of any length.       *)
LEMMA RunsInvariant == Spec => []IInv
<1>1. ASSUME IInv, [Next]_vars PROVE [AnyNext]_vars
  <2>1. TypeOK /\ InTime
    BY <1>1 DEF IInv, RetriesAsPromised
  <2>2. status = "attempting" => 0 \in 0..Limit /\ Limit \in 0..Limit
    <3>1. status = "attempting" => Limit \in Nat
      BY <2>1, Limits DEF TypeOK, InTime, Limit, Activity
    <3>2. QED
      BY <3>1
  <2>3. \A d : Succeed(d) => status = "attempting"
    BY DEF Succeed
  <2>4. \A d, error : Fail(error, d) => status = "attempting"
    BY DEF Fail
  <2>5. QED
    BY <1>1, <2>2, <2>3, <2>4 DEF Next, AnyNext
<1>2. IInv /\ [Next]_vars => IInv'
  BY <1>1, NextIInv
<1>3. QED
  BY <1>2, InitIInv, PTL DEF Spec

(* Every failure becomes an event its model accepts, but for a preparation *)
(* that timed out (render_device.py:125-135, models.py:333-362).           *)
THEOREM FailuresAreReported == (Spec => []OutcomeIsConstructible) /\ (AnySpec => []OutcomeIsConstructible)
<1>1. IInv => OutcomeIsConstructible
  BY DEF IInv
<1>2. QED
  BY <1>1, WorkflowInvariant, RunsInvariant, PTL

(* No sequence of attempts and pauses reaches the execution timeout, which *)
(* 1160 of 1200 ticks do not, even if every attempt took its limit and     *)
(* every pause were the longest (render_device.py:25-91, consumer.py:135). *)
THEOREM WorkflowEndsInTime == (Spec => []FitsExecutionTimeout) /\ (AnySpec => []FitsExecutionTimeout)
<1>1. IInv => FitsExecutionTimeout
  <2> SUFFICES ASSUME IInv, status \notin {"unattended", "timed_out"} PROVE elapsed < ExecutionTimeout
    BY DEF FitsExecutionTimeout
  <2>1. TypeOK /\ InTime /\ elapsed \in Nat
    BY DEF IInv, RetriesAsPromised, TypeOK
  <2>2. CASE status = "attempting"
    <3>1. 0 \in 0..Limit
      BY <2>1, <2>2, Limits DEF TypeOK, InTime, Limit, Activity
    <3>2. elapsed + 0 <= scheduledAt + WorstCase(activity)
      BY <2>1, <2>2, <3>1, AttemptEnds
    <3>3. QED
      BY <2>1, <3>2, StageEnds
  <2>3. CASE status # "attempting"
    <3>1. elapsed <= scheduledAt + WorstCase(activity)
      BY <2>1, <2>3 DEF TypeOK, InTime, Open, Closed
    <3>2. QED
      BY <2>1, <3>1, StageEnds
  <2>4. QED
    BY <2>2, <2>3
<1>2. QED
  BY <1>1, WorkflowInvariant, RunsInvariant, PTL

(* A completed execution has its outcome in Kafka at least once            *)
(* (producer.py:48-68, activities/rendering.py:86-110).                    *)
THEOREM CompletionIsDelivered == (Spec => []CompletedMeansDelivered) /\ (AnySpec => []CompletedMeansDelivered)
<1>1. IInv => CompletedMeansDelivered
  BY DEF IInv, KnownByNow, CompletedMeansDelivered
<1>2. QED
  BY <1>1, WorkflowInvariant, RunsInvariant, PTL

(* Only transient failures are attempted again, and they are until their   *)
(* attempts or their time are used up (render_device.py:25-91, 287).       *)
THEOREM RetriesKeepPromise == (Spec => []RetriesAsPromised) /\ (AnySpec => []RetriesAsPromised)
<1>1. IInv => RetriesAsPromised
  BY DEF IInv
<1>2. QED
  BY <1>1, WorkflowInvariant, RunsInvariant, PTL
=============================================================================
