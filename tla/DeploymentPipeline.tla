------------------------- MODULE DeploymentPipeline -------------------------
(***************************************************************************)
(* activities/deployment.py, activities/rendering.py and their clients:    *)
(* what the attempts of several executions for one device do to what they  *)
(* share.  All write artifacts/configs/<device>.cfg, deployments Set the   *)
(* device, and Nautobot is edited meanwhile.                               *)
(*                                                                         *)
(* An attempt is a thread of the worker's pool.  Temporal can give an      *)
(* attempt up and schedule the next, but nothing interrupts the thread: it *)
(* runs on, and only its result is dropped.  The retry decisions and the   *)
(* outcome events themselves are DeviceWorkflow's.                         *)
(*                                                                         *)
(* The intent is two parts that Nautobot serves in separate responses, and *)
(* a rendering is what the parts were when they were read: render_srlinux  *)
(* is a function of the intent, so equal contents have equal digests.      *)
(***************************************************************************)
EXTENDS Naturals, FiniteSets

CONSTANTS
  Deployments,    \* executions started by deployment requests for the device
  Renders,        \* executions started by render requests for it
  Loads,          \* bound: which of them run together, with how many timeouts
  Nothing,        \* no content: no artifact, nothing prepared, no thread
  MaxVersion,     \* bound: versions of a part of the intent
  MaxAttempts     \* bound: attempts of an activity (3 or 12 in the code)

ASSUME DisjointRequests == Deployments \cap Renders = {}
ASSUME LoadsAreExecutions ==
  Loads \subseteq [executions : SUBSET (Deployments \cup Renders), timeouts : Nat]
ASSUME PipelineBounds == {MaxVersion, MaxAttempts} \subseteq Nat \ {0}

Execution == Deployments \cup Renders
Part      == {"device", "interfaces"}
Content   == [Part -> 1..MaxVersion]
Truncated == [p \in Part |-> 0]      \* what a reader would find in a half-written file
Identity  == [artifact : Content, expected : Content]

ASSUME NothingIsNoContent == Nothing \notin Content \cup {Truncated} \cup Identity

Active == {"render", "prepare", "deploy", "validate"}

(* One permanent error stands for its kind: intent_invalid for every       *)
(* refusal of the intent, device_identity_mismatch for every refusal of the*)
(* target before the Set.  internal_error stands for a timeout.            *)
Error  == {"none", "nautobot_unavailable", "intent_invalid", "artifact_unavailable",
           "artifact_invalid", "artifact_mismatch", "device_unavailable",
           "device_identity_mismatch", "configuration_rejected",
           "validation_not_converged", "validation_failed", "internal_error"}
Passing == {"nautobot_unavailable", "artifact_unavailable", "device_unavailable",
            "validation_not_converged", "internal_error"}

VARIABLES
  intent,     \* what Nautobot holds
  file,       \* the device's artifact
  device,     \* the parts of the configuration the device runs
  stage,      \* per execution: the activity in progress, or its end
  attempt,    \* per execution: the current attempt
  prepared,   \* per execution: artifact identity and expected state, bound together
  failure,    \* per execution: the error it failed with
  threads,    \* the attempts that run, abandoned ones included
  timeouts,   \* bound: attempts Temporal will still give up
  displaced,  \* history: executions whose last artifact is not in the file
  unread,     \* history: executions whose artifact storage failed to read
  sets        \* history: <<execution, content>> the device accepted

shared == <<intent, file, device>>
temporal == <<stage, attempt, prepared, failure, timeouts>>
history == <<displaced, unread, sets>>
vars == <<shared, temporal, threads, history>>

Step == {"fetch_device", "fetch_interfaces", "write", "replace", "verify",
         "read", "connect", "set", "get_device", "get_interfaces"}

(* An attempt: seen holds what it fetched, read or observed so far.        *)
Thread == [of : Execution, kind : Active, n : 1..MaxAttempts, at : Step,
           seen : [Part -> 0..MaxVersion]]

FirstStep(kind) == CASE kind \in {"render", "prepare"} -> "fetch_device"
                     [] kind = "deploy" -> "read"
                     [] kind = "validate" -> "get_device"

Attempt(x, kind, n) ==
  [of |-> x, kind |-> kind, n |-> n, at |-> FirstStep(kind), seen |-> Truncated]

TypeOK ==
  /\ intent \in Content
  /\ file \in Content \cup {Truncated, Nothing}
  /\ device \in [Part -> 0..MaxVersion]
  /\ stage \in [Execution -> Active \cup {"not_requested", "completed", "failed"}]
  /\ attempt \in [Execution -> 1..MaxAttempts]
  /\ prepared \in [Execution -> Identity \cup {Nothing}]
  /\ failure \in [Execution -> Error]
  /\ threads \subseteq Thread
  /\ timeouts \in Nat
  /\ displaced \subseteq Execution /\ unread \subseteq Execution
  /\ sets \subseteq Execution \X Content

FirstStage(x) == IF x \in Deployments THEN "prepare" ELSE "render"

Init ==
  /\ intent = [p \in Part |-> 1]
  /\ file = Nothing
  /\ device = [p \in Part |-> 0]
  /\ \E load \in Loads :
       /\ stage = [x \in Execution |->
            IF x \in load.executions THEN FirstStage(x) ELSE "not_requested"]
       /\ threads = {Attempt(x, FirstStage(x), 1) : x \in load.executions}
       /\ timeouts = load.timeouts
  /\ attempt = [x \in Execution |-> 1]
  /\ prepared = [x \in Execution |-> Nothing]
  /\ failure = [x \in Execution |-> "none"]
  /\ displaced = {} /\ unread = {}
  /\ sets = {}

-----------------------------------------------------------------------------
(* How an attempt ends.                                                    *)

Live(th) == stage[th.of] = th.kind /\ attempt[th.of] = th.n

(* The attempt of x fails, its thread gone or, after a timeout, left among *)
(* remaining.                                                              *)
FailAttempt(x, error, remaining) ==
  /\ IF error \in Passing /\ attempt[x] < MaxAttempts
       THEN /\ attempt' = [attempt EXCEPT ![x] = @ + 1]
            /\ threads' = remaining \cup {Attempt(x, stage[x], attempt[x] + 1)}
            /\ UNCHANGED <<stage, failure>>
       ELSE /\ stage' = [stage EXCEPT ![x] = "failed"]
            /\ failure' = [failure EXCEPT ![x] = error]
            /\ threads' = remaining
            /\ UNCHANGED attempt
  /\ UNCHANGED prepared

Raise(th, error) ==
  /\ IF Live(th)
       THEN FailAttempt(th.of, error, threads \ {th})
       ELSE threads' = threads \ {th} /\ UNCHANGED <<stage, attempt, failure, prepared>>
  /\ UNCHANGED timeouts

NextStage == [render |-> "completed", prepare |-> "deploy", deploy |-> "validate",
              validate |-> "completed"]

(* The attempt returns; the workflow takes a live one's result and goes on.*)
Return(th, result) ==
  LET x == th.of  next == NextStage[th.kind]  rest == threads \ {th} IN
  /\ IF Live(th)
       THEN /\ stage' = [stage EXCEPT ![x] = next]
            /\ attempt' = [attempt EXCEPT ![x] = 1]
            /\ prepared' = [prepared EXCEPT ![x] = result]
            /\ threads' = IF next \in Active THEN rest \cup {Attempt(x, next, 1)} ELSE rest
       ELSE threads' = rest /\ UNCHANGED <<stage, attempt, prepared>>
  /\ UNCHANGED <<failure, timeouts>>

Goto(th, at, seen) ==
  /\ threads' = (threads \ {th}) \cup {[th EXCEPT !.at = at, !.seen = seen]}
  /\ UNCHANGED temporal

-----------------------------------------------------------------------------
(* prepare_device_deployment and render_device_artifact.                   *)

FetchDevice(th) ==
  /\ th.at = "fetch_device"
  /\ Goto(th, "fetch_interfaces", [th.seen EXCEPT !["device"] = intent["device"]])
  /\ UNCHANGED <<shared, history>>

FetchInterfaces(th) ==
  /\ th.at = "fetch_interfaces"
  /\ Goto(th, "write", [th.seen EXCEPT !["interfaces"] = intent["interfaces"]])
  /\ UNCHANGED <<shared, history>>

FetchFails(th) ==
  /\ th.at \in {"fetch_device", "fetch_interfaces"}
  /\ \E error \in {"nautobot_unavailable", "intent_invalid"} : Raise(th, error)
  /\ UNCHANGED <<shared, history>>

(* Mutant: the artifact is written in place.                               *)
InPlace == Truncated

(* _write_srlinux_artifact fills a temporary file first ...                *)
WhileWriting == file

Write(th) ==
  /\ th.at = "write"
  /\ file' = WhileWriting
  /\ Goto(th, "replace", th.seen)
  /\ UNCHANGED <<intent, device, history>>

(* Mutant: the temporary file is left where it is.                         *)
LeftBehind(content) == file

(* ... and then puts it in the artifact's place in one os.replace.         *)
Replaced(content) == content

Replace(th) ==
  /\ th.at = "replace"
  /\ file' = Replaced(th.seen)
  /\ displaced' = IF Live(th) THEN Execution \ {th.of} ELSE Execution
  /\ IF th.kind = "render" THEN Return(th, Nothing) ELSE Goto(th, "verify", th.seen)
  /\ UNCHANGED <<intent, device, unread, sets>>

(* Mutant: the identity is taken from the path.                            *)
PreparedFromFile(th) == [artifact |-> file, expected |-> th.seen]

(* The identity returned is of the bytes written, not of the file; the     *)
(* expected state is of the same intent.                                   *)
Prepared(th) == [artifact |-> th.seen, expected |-> th.seen]

(* _verify_artifact_shape rereads the path and compares with the identity. *)
Verify(th) ==
  /\ th.at = "verify"
  /\ IF file = Prepared(th).artifact THEN Return(th, Prepared(th))
                                     ELSE Raise(th, "artifact_invalid")
  /\ UNCHANGED <<shared, history>>

-----------------------------------------------------------------------------
(* deploy_device_artifact and SRLinuxClient.deploy.                        *)

(* Mutant: no digest comparison.                                           *)
AcceptAnything(x, content) == content # Nothing

(* _read_artifact                                                          *)
Acceptable(x, content) == content = prepared[x].artifact

ReadArtifact(th) ==
  /\ th.at = "read"
  /\ IF Acceptable(th.of, file) THEN Goto(th, "connect", file)
                                ELSE Raise(th, "artifact_mismatch")
  /\ UNCHANGED <<shared, history>>

VerifyTarget(th) ==
  /\ th.at = "connect"
  /\ \/ Goto(th, "set", th.seen)
     \/ \E error \in {"device_unavailable", "device_identity_mismatch"} : Raise(th, error)
  /\ UNCHANGED <<shared, history>>

(* While preparing, an OSError passes; while deploying, _read_artifact     *)
(* reports it as a mismatch.                                               *)
StorageFails(th) ==
  /\ \/ /\ th.at \in {"write", "replace", "verify"} /\ Raise(th, "artifact_unavailable")
        /\ UNCHANGED unread
     \/ /\ th.at = "read" /\ Raise(th, "artifact_mismatch")
        /\ unread' = unread \cup {th.of}
  /\ UNCHANGED <<shared, displaced, sets>>

(* One gNMI transaction updates the device: every leaf of the artifact, so *)
(* both parts, takes the artifact's value ...                              *)
Applied(th) ==
  /\ device' = th.seen
  /\ sets' = sets \cup {<<th.of, th.seen>>}
  /\ UNCHANGED <<intent, file, displaced, unread>>

SetConfirmed(th) ==
  /\ th.at = "set"
  /\ Applied(th)
  /\ Return(th, prepared[th.of])

(* ... or its answer is lost ...                                           *)
SetUnanswered(th) ==
  /\ th.at = "set"
  /\ Applied(th)
  /\ Raise(th, "device_unavailable")

(* Mutant: a connection error is taken for the end of a successful Set.    *)
LostRequestPasses(th) == Return(th, prepared[th.of])

(* ... or it takes nothing: the request is lost, or refused.               *)
LostRequestEnds(th) == Raise(th, "device_unavailable")

SetLost(th) ==
  /\ th.at = "set"
  /\ LostRequestEnds(th)
  /\ UNCHANGED <<shared, history>>

SetRejected(th) ==
  /\ th.at = "set"
  /\ Raise(th, "configuration_rejected")
  /\ UNCHANGED <<shared, history>>

-----------------------------------------------------------------------------
(* validate_device_state: every leaf is a Get of its own.                  *)

GetDevice(th) ==
  /\ th.at = "get_device"
  /\ Goto(th, "get_interfaces", [th.seen EXCEPT !["device"] = device["device"]])
  /\ UNCHANGED <<shared, history>>

Matches(x, observed) == observed = prepared[x].expected

(* The last Get, and the comparison.  Operational leaves may lag behind a  *)
(* configuration that matches.                                             *)
GetInterfaces(th) ==
  /\ th.at = "get_interfaces"
  /\ LET observed == [th.seen EXCEPT !["interfaces"] = device["interfaces"]]
     IN  IF Matches(th.of, observed)
           THEN Return(th, prepared[th.of]) \/ Raise(th, "validation_not_converged")
           ELSE Raise(th, "validation_failed")
  /\ UNCHANGED <<shared, history>>

GetFails(th) ==
  /\ th.at \in {"get_device", "get_interfaces"}
  /\ Raise(th, "device_unavailable")
  /\ UNCHANGED <<shared, history>>

-----------------------------------------------------------------------------
(* Nautobot, Temporal and the worker process.                              *)

(* An edit changes one part or both; reads in between see a mixture.       *)
EditIntent(parts) ==
  /\ \A p \in parts : intent[p] < MaxVersion
  /\ intent' = [p \in Part |-> IF p \in parts THEN intent[p] + 1 ELSE intent[p]]
  /\ UNCHANGED <<file, device, temporal, threads, history>>

(* Temporal gives the attempt up and schedules the next one while the      *)
(* thread, if there still is one, runs on.                                 *)
TimeOut(x) ==
  /\ stage[x] \in Active
  /\ timeouts > 0 /\ timeouts' = timeouts - 1
  /\ FailAttempt(x, "internal_error", threads)
  /\ UNCHANGED <<shared, history>>

(* The worker dies with its threads; what they had written remains.        *)
WorkerCrashes ==
  /\ threads # {}
  /\ threads' = {}
  /\ UNCHANGED <<shared, temporal, history>>

ThreadStep(th) ==
  \/ FetchDevice(th) \/ FetchInterfaces(th) \/ FetchFails(th)
  \/ Write(th) \/ Replace(th) \/ Verify(th)
  \/ StorageFails(th) \/ ReadArtifact(th) \/ VerifyTarget(th)
  \/ SetConfirmed(th) \/ SetUnanswered(th) \/ SetLost(th) \/ SetRejected(th)
  \/ GetDevice(th) \/ GetInterfaces(th) \/ GetFails(th)

Next ==
  \/ \E th \in threads : ThreadStep(th)
  \/ \E parts \in SUBSET Part \ {{}} : EditIntent(parts)
  \/ \E x \in Execution : TimeOut(x)
  \/ WorkerCrashes

Spec == Init /\ [][Next]_vars

-----------------------------------------------------------------------------
(* Whatever another execution, an earlier attempt or an edit of the intent *)
(* does to the path, every Set an execution ever sends, by an abandoned    *)
(* thread too, carries the one artifact its outcome names                  *)
(* (devices/srlinux.py:154-169; research.md:81-82).                        *)
SetCarriesPrepared ==
  \A s \in sets : prepared[s[1]] # Nothing /\ s[2] = prepared[s[1]].artifact

(* The artifact that is deployed and the state validation expects come     *)
(* from the same read of the intent, though the path can be replaced by    *)
(* another rendering at any moment (rendering/srlinux.py:117-148,          *)
(* activities/deployment.py:252-294; research.md:94-96).                   *)
PreparedBindsOneRead ==
  \A x \in Execution : prepared[x] # Nothing => prepared[x].artifact = prepared[x].expected

(* A deployment that completed has put its own configuration on the device *)
(* itself: a lost Set is not mistaken for a confirmed one, even when the   *)
(* device happens to run the same configuration (srlinux.py:84-107).       *)
CompletedMeansOwnSet ==
  \A x \in Deployments : stage[x] = "completed" => <<x, prepared[x].artifact>> \in sets

(* An execution fails on its artifact only if storage failed, or another   *)
(* execution, or an abandoned attempt of its own, really replaced the file *)
(* after it wrote it (activities/deployment.py:108-124,                    *)
(* devices/srlinux.py:154-169).                                            *)
NoFalseMismatch ==
  \A x \in Execution :
    failure[x] \in {"artifact_invalid", "artifact_mismatch"} => x \in displaced \cup unread

(* No reader finds a half-written artifact, whichever thread is writing    *)
(* or has died while writing, and attempts and timeouts stay within what   *)
(* the workflow allows (rendering/srlinux.py:128-143).                      *)
ArtifactAlwaysComplete == TypeOK /\ file # Truncated

(* Why they hold.  A thread is at a step of its activity, and the activity *)
(* is one of its execution's.                                              *)
KindsOf(x) == IF x \in Deployments THEN {"prepare", "deploy", "validate"} ELSE {"render"}
StepsOf(kind) ==
  CASE kind = "render"   -> {"fetch_device", "fetch_interfaces", "write", "replace"}
    [] kind = "prepare"  -> {"fetch_device", "fetch_interfaces", "write", "replace", "verify"}
    [] kind = "deploy"   -> {"read", "connect", "set"}
    [] kind = "validate" -> {"get_device", "get_interfaces"}

ThreadsAtWork ==
  \A th \in threads : th.kind \in KindsOf(th.of) /\ th.at \in StepsOf(th.kind)

(* No thread is ahead of what the workflow has scheduled, and no attempt   *)
(* has two threads: only one thread's result can count.                    *)
NoneAhead ==
  \A th \in threads :
    /\ th.kind = stage[th.of] => th.n <= attempt[th.of]
    /\ stage[th.of] = "prepare" => th.kind = "prepare"
    /\ stage[th.of] = "deploy" => th.kind # "validate"

OneThreadPerAttempt ==
  \A s, t \in threads : s.of = t.of /\ s.kind = t.kind /\ s.n = t.n => s = t

(* What a thread has seen: a whole rendering before it writes, the prepared*)
(* artifact before it Sets.                                                *)
SeenIsWhole ==
  \A th \in threads :
    /\ th.at = "fetch_interfaces" => th.seen["device"] \in 1..MaxVersion
    /\ th.at \in {"write", "replace", "verify"} => th.seen \in Content
    /\ th.kind \in {"deploy", "validate"} => prepared[th.of] # Nothing
    /\ th.at \in {"connect", "set"} => th.seen = prepared[th.of].artifact

(* What an execution has when it reaches a stage.                          *)
StagesFollow ==
  \A x \in Execution :
    /\ stage[x] \in Active => stage[x] \in KindsOf(x)
    /\ x \notin Deployments \/ stage[x] = "prepare" => prepared[x] = Nothing
    /\ stage[x] \in {"deploy", "validate"} => prepared[x] # Nothing
    /\ x \in Deployments /\ stage[x] \in {"validate", "completed"}
         => <<x, prepared[x].artifact>> \in sets
    /\ failure[x] # "none" => stage[x] = "failed"

(* Until another artifact takes its place, the file is what the attempt at *)
(* work wrote and what the execution deploys.                              *)
FileIsTheirs ==
  /\ \A th \in threads : th.at = "verify" /\ Live(th) /\ th.of \notin displaced => file = th.seen
  /\ \A x \in Execution : stage[x] = "deploy" /\ x \notin displaced => file = prepared[x].artifact

(* Together with what it is to show, this is inductive: artifact, identity,*)
(* Set and outcome of an execution stay in step whatever threads are left  *)
(* over (activities/deployment.py:252-427, devices/srlinux.py:84-169).     *)
IInv ==
  /\ TypeOK /\ file # Truncated
  /\ ThreadsAtWork /\ NoneAhead /\ OneThreadPerAttempt
  /\ SeenIsWhole /\ StagesFollow /\ FileIsTheirs
  /\ SetCarriesPrepared /\ PreparedBindsOneRead /\ NoFalseMismatch

(* research.md:104-105 of feature 004: "If another request overwrites the  *)
(* path after preparation, deployment fails before mutation."              *)
OverwriteFailsBeforeMutation ==
  \A x \in Deployments :
    failure[x] = "artifact_mismatch" /\ x \notin unread => \A s \in sets : s[1] # x
=============================================================================
