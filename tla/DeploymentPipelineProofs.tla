---------------------- MODULE DeploymentPipelineProofs ----------------------
(***************************************************************************)
(* The safety properties of DeploymentPipeline hold for any deployments    *)
(* and renderings of one device, any number of versions and attempts, and  *)
(* any number of abandoned attempts.                                       *)
(***************************************************************************)
EXTENDS DeploymentPipeline, TLAPS

Seen == [Part -> 0..MaxVersion]

LEMMA Bounds == MaxVersion \in Nat \ {0} /\ MaxAttempts \in Nat \ {0}
BY PipelineBounds

(* Contents, half-written files and Nothing are told apart.                *)
LEMMA Contents ==
  /\ Content \subseteq Seen /\ Truncated \in Seen /\ Truncated \notin Content
  /\ Nothing \notin Content /\ Nothing # Truncated /\ Nothing \notin Identity
<1>1. Content \subseteq Seen /\ Truncated \in Seen
  BY Bounds DEF Content, Seen, Truncated
<1>2. Truncated \notin Content
  <2>1. Truncated["device"] = 0
    BY DEF Truncated, Part
  <2>2. \A c \in Content : c["device"] # 0
    BY Bounds DEF Content, Part
  <2>3. QED
    BY <2>1, <2>2
<1>3. QED
  BY <1>1, <1>2, NothingIsNoContent

(* A new attempt has seen nothing and stands at its first step.            *)
LEMMA NewAttempt ==
  ASSUME NEW x \in Execution, NEW kind \in Active, NEW n \in 1..MaxAttempts
  PROVE  /\ Attempt(x, kind, n) \in Thread
         /\ Attempt(x, kind, n).of = x /\ Attempt(x, kind, n).kind = kind
         /\ Attempt(x, kind, n).n = n /\ Attempt(x, kind, n).at = FirstStep(kind)
         /\ FirstStep(kind) \in {"fetch_device", "read", "get_device"}
         /\ FirstStep(kind) \in StepsOf(kind)
<1>1. FirstStep(kind) \in {"fetch_device", "read", "get_device"} /\ FirstStep(kind) \in StepsOf(kind)
  BY DEF FirstStep, StepsOf, Active
<1>2. QED
  BY <1>1, Contents DEF Attempt, Thread, Step, Seen

(* A thread that goes on is the same attempt.                              *)
MovedTo(th, at, seen) == [th EXCEPT !.at = at, !.seen = seen]

LEMMA Moved ==
  ASSUME NEW th \in Thread, NEW at \in Step, NEW seen \in Seen
  PROVE  /\ MovedTo(th, at, seen) \in Thread
         /\ MovedTo(th, at, seen).of = th.of /\ MovedTo(th, at, seen).kind = th.kind
         /\ MovedTo(th, at, seen).n = th.n
         /\ MovedTo(th, at, seen).at = at /\ MovedTo(th, at, seen).seen = seen
BY DEF MovedTo, Thread, Seen

-----------------------------------------------------------------------------
(* What a thread may do beside its own progress: write down what it could  *)
(* not read, and Set the device to what was prepared.                      *)
Aside ==
  /\ UNCHANGED <<intent, file, displaced>>
  /\ device' \in Seen
  /\ sets \subseteq sets' /\ sets' \subseteq Execution \X Content
  /\ unread \subseteq unread' /\ unread' \subseteq Execution
  /\ \A s \in sets' : prepared[s[1]] # Nothing /\ s[2] = prepared[s[1]].artifact

(* Threads that are gone, or whose result nobody waits for, take nothing   *)
(* with them.                                                              *)
LEMMA DroppedStep ==
  ASSUME IInv, Aside, threads' \subseteq threads, UNCHANGED temporal
  PROVE  IInv'
<1> USE DEF temporal
<1>1. TypeOK' /\ file' # Truncated
  BY DEF IInv, Aside, TypeOK, Seen
<1>2. ThreadsAtWork' /\ NoneAhead' /\ OneThreadPerAttempt'
  BY DEF IInv, ThreadsAtWork, NoneAhead, OneThreadPerAttempt
<1>3. SeenIsWhole'
  BY DEF IInv, SeenIsWhole
<1>4. StagesFollow'
  BY DEF IInv, StagesFollow, Aside
<1>5. FileIsTheirs'
  BY DEF IInv, FileIsTheirs, Aside, Live
<1>6. SetCarriesPrepared' /\ PreparedBindsOneRead' /\ NoFalseMismatch'
  BY DEF IInv, Aside, SetCarriesPrepared, PreparedBindsOneRead, NoFalseMismatch
<1>7. QED
  BY <1>1, <1>2, <1>3, <1>4, <1>5, <1>6 DEF IInv

(* An attempt that failed is followed by another, or by the failure of its *)
(* execution, whether its thread is gone or not.                           *)
LEMMA FailStep ==
  ASSUME IInv, Aside, NEW x \in Execution, stage[x] \in Active,
         NEW error \in Error \ {"none"}, NEW remaining \in SUBSET threads,
         FailAttempt(x, error, remaining), timeouts' \in Nat,
         error \in {"artifact_invalid", "artifact_mismatch"} => x \in displaced \cup unread'
  PROVE  IInv'
<1>0. TypeOK /\ prepared' = prepared
  BY DEF IInv, FailAttempt
<1>1. CASE error \in Passing /\ attempt[x] < MaxAttempts
  <2> DEFINE n == attempt[x] + 1
             new == Attempt(x, stage[x], n)
  <2>1. /\ attempt' = [attempt EXCEPT ![x] = n] /\ threads' = remaining \cup {new}
        /\ UNCHANGED <<stage, failure>>
    BY <1>1 DEF FailAttempt
  <2>2. n \in 1..MaxAttempts
    BY <1>0, <1>1, Bounds DEF TypeOK
  <2>3. /\ new \in Thread /\ new.of = x /\ new.kind = stage[x] /\ new.n = n
        /\ new.at \in {"fetch_device", "read", "get_device"} /\ new.at \in StepsOf(stage[x])
    BY <2>2, NewAttempt
  <2>4. attempt' \in [Execution -> 1..MaxAttempts] /\ attempt'[x] = n
        /\ \A y \in Execution \ {x} : attempt'[y] = attempt[y]
    BY <1>0, <2>1, <2>2 DEF TypeOK
  <2>5. attempt[x] \in Nat /\ n = attempt[x] + 1
    BY <1>0, Bounds DEF TypeOK
  <2> HIDE DEF n, new
  <2>6. TypeOK' /\ file' # Truncated
    BY <1>0, <2>1, <2>3, <2>4 DEF IInv, TypeOK, Aside, Seen
  <2>7. ThreadsAtWork'
    BY <2>1, <2>3 DEF IInv, ThreadsAtWork, StagesFollow
  <2>8. \A th \in remaining : th.of \in Execution /\ th.n \in Nat /\ (th.of = x /\ th.kind = stage[x] => th.n < n)
    BY <1>0, <2>5, Bounds DEF IInv, NoneAhead, TypeOK, Thread
  <2>9. NoneAhead'
    <3>1. ASSUME NEW th \in remaining PROVE th.kind = stage[th.of] => th.n <= attempt'[th.of]
      <4>1. CASE th.of = x
        BY <2>4, <2>5, <2>8, <4>1
      <4>2. CASE th.of # x
        BY <2>4, <2>8, <4>2 DEF IInv, NoneAhead
      <4>3. QED
        BY <4>1, <4>2
    <3>2. new.n <= attempt'[x]
      BY <2>3, <2>4, <2>5
    <3>3. QED
      BY <2>1, <2>3, <3>1, <3>2 DEF IInv, NoneAhead
  <2>10. OneThreadPerAttempt'
    BY <2>1, <2>3, <2>5, <2>8 DEF IInv, OneThreadPerAttempt
  <2>11. SeenIsWhole'
    BY <1>0, <2>1, <2>3 DEF IInv, SeenIsWhole, StagesFollow
  <2>12. StagesFollow'
    BY <1>0, <2>1 DEF IInv, StagesFollow, Aside
  <2>13. FileIsTheirs'
    <3>1. \A th \in remaining : Live(th)' => Live(th)
      BY <2>1, <2>4, <2>5, <2>8 DEF Live
    <3>2. QED
      BY <1>0, <2>1, <2>3, <3>1 DEF IInv, FileIsTheirs, Aside
  <2>14. SetCarriesPrepared' /\ PreparedBindsOneRead' /\ NoFalseMismatch'
    BY <1>0, <2>1 DEF IInv, Aside, SetCarriesPrepared, PreparedBindsOneRead, NoFalseMismatch
  <2>15. QED
    BY <2>6, <2>7, <2>9, <2>10, <2>11, <2>12, <2>13, <2>14 DEF IInv
<1>2. CASE ~(error \in Passing /\ attempt[x] < MaxAttempts)
  <2>1. /\ stage' = [stage EXCEPT ![x] = "failed"] /\ failure' = [failure EXCEPT ![x] = error]
        /\ threads' = remaining /\ attempt' = attempt
    BY <1>2 DEF FailAttempt
  <2>2. /\ stage'[x] = "failed" /\ \A y \in Execution \ {x} : stage'[y] = stage[y]
        /\ failure'[x] = error /\ \A y \in Execution \ {x} : failure'[y] = failure[y]
    BY <1>0, <2>1 DEF TypeOK
  <2>3. TypeOK' /\ file' # Truncated
    BY <1>0, <2>1 DEF IInv, TypeOK, Aside, Seen
  <2>4. \A th \in remaining : th \in threads /\ th.of \in Execution /\ th.kind \in Active
    BY <1>0 DEF TypeOK, Thread
  <2>5. ThreadsAtWork' /\ OneThreadPerAttempt'
    BY <2>1 DEF IInv, ThreadsAtWork, OneThreadPerAttempt
  <2>6. NoneAhead'
    BY <2>1, <2>2, <2>4 DEF IInv, NoneAhead, Active
  <2>7. SeenIsWhole'
    BY <1>0, <2>1 DEF IInv, SeenIsWhole
  <2>8. StagesFollow'
    BY <1>0, <2>2 DEF IInv, StagesFollow, Aside, Active
  <2>9. FileIsTheirs'
    <3>1. \A th \in remaining : Live(th)' => Live(th)
      BY <2>1, <2>2, <2>4 DEF Live, Active
    <3>2. QED
      BY <1>0, <2>1, <2>2, <3>1 DEF IInv, FileIsTheirs, Aside
  <2>10. SetCarriesPrepared' /\ PreparedBindsOneRead' /\ NoFalseMismatch'
    BY <1>0, <2>2 DEF IInv, Aside, SetCarriesPrepared, PreparedBindsOneRead, NoFalseMismatch
  <2>11. QED
    BY <2>3, <2>5, <2>6, <2>7, <2>8, <2>9, <2>10 DEF IInv
<1>3. QED
  BY <1>1, <1>2

(* Either way, for the thread whose attempt it is; an abandoned thread just*)
(* ends.                                                                   *)
LEMMA RaiseStep ==
  ASSUME IInv, Aside, NEW th \in threads, NEW error \in Error \ {"none"}, Raise(th, error),
         error \in {"artifact_invalid", "artifact_mismatch"} /\ Live(th)
           => th.of \in displaced \cup unread'
  PROVE  IInv'
<1>1. th.of \in Execution /\ th.kind \in Active /\ timeouts \in Nat /\ timeouts' = timeouts
  BY DEF IInv, TypeOK, Thread, Raise
<1>2. CASE Live(th)
  <2>1. stage[th.of] \in Active /\ FailAttempt(th.of, error, threads \ {th})
    BY <1>1, <1>2 DEF Live, Raise
  <2>2. QED
    BY <1>1, <1>2, <2>1, FailStep
<1>3. CASE ~Live(th)
  <2>1. threads' \subseteq threads /\ UNCHANGED temporal
    BY <1>1, <1>3 DEF Raise, temporal
  <2>2. QED
    BY <2>1, DroppedStep
<1>4. QED
  BY <1>2, <1>3

(* A thread that goes on takes nobody's place.                             *)
LEMMA GotoKeeps ==
  ASSUME IInv, NEW th \in threads, NEW at \in StepsOf(th.kind), NEW seen \in Seen,
         Goto(th, at, seen),
         at = "fetch_interfaces" => seen["device"] \in 1..MaxVersion,
         at \in {"write", "replace", "verify"} => seen \in Content,
         at \in {"connect", "set"} => seen = prepared[th.of].artifact
  PROVE  /\ threads' \subseteq Thread
         /\ ThreadsAtWork' /\ NoneAhead' /\ OneThreadPerAttempt' /\ SeenIsWhole'
         /\ \A t \in threads' :
              \/ t \in threads \ {th}
              \/ t.of = th.of /\ t.kind = th.kind /\ t.n = th.n /\ t.at = at /\ t.seen = seen
<1> DEFINE next == MovedTo(th, at, seen)
<1>1. threads' = (threads \ {th}) \cup {next} /\ UNCHANGED <<stage, attempt, prepared>>
  BY DEF Goto, temporal, MovedTo
<1>2. th \in Thread /\ threads \subseteq Thread /\ at \in Step
  <2>1. th \in Thread /\ threads \subseteq Thread
    BY DEF IInv, TypeOK
  <2>2. th.kind \in Active
    BY <2>1 DEF Thread
  <2>3. QED
    BY <2>1, <2>2 DEF StepsOf, Active, Step
<1>3. /\ next \in Thread /\ next.of = th.of /\ next.kind = th.kind /\ next.n = th.n
      /\ next.at = at /\ next.seen = seen
  BY <1>2, Moved
<1> HIDE DEF next
<1>4. threads' \subseteq Thread
  BY <1>1, <1>2, <1>3
<1>5. ThreadsAtWork'
  BY <1>1, <1>3 DEF IInv, ThreadsAtWork
<1>6. NoneAhead'
  BY <1>1, <1>3 DEF IInv, NoneAhead
<1>7. OneThreadPerAttempt'
  BY <1>1, <1>3 DEF IInv, OneThreadPerAttempt
<1>8. SeenIsWhole'
  BY <1>1, <1>3 DEF IInv, SeenIsWhole
<1>9. QED
  BY <1>1, <1>3, <1>4, <1>5, <1>6, <1>7, <1>8

LEMMA GotoStep ==
  ASSUME IInv, Aside, NEW th \in threads, NEW at \in StepsOf(th.kind) \ {"verify"}, NEW seen \in Seen,
         Goto(th, at, seen),
         at = "fetch_interfaces" => seen["device"] \in 1..MaxVersion,
         at \in {"write", "replace"} => seen \in Content,
         at \in {"connect", "set"} => seen = prepared[th.of].artifact
  PROVE  IInv'
<1>1. /\ threads' \subseteq Thread
      /\ ThreadsAtWork' /\ NoneAhead' /\ OneThreadPerAttempt' /\ SeenIsWhole'
      /\ \A t \in threads' : t \in threads \/ t.at # "verify"
  <2>1. at \in StepsOf(th.kind) /\ at # "verify"
    OBVIOUS
  <2>2. at \in {"write", "replace", "verify"} => seen \in Content
    BY <2>1
  <2>3. QED
    BY <2>1, <2>2, GotoKeeps
<1>2. UNCHANGED temporal
  BY DEF Goto
<1>3. TypeOK' /\ file' # Truncated
  BY <1>1, <1>2 DEF IInv, TypeOK, Aside, Seen, temporal
<1>4. StagesFollow'
  BY <1>2 DEF IInv, StagesFollow, Aside, temporal
<1>5. FileIsTheirs'
  BY <1>1, <1>2 DEF IInv, FileIsTheirs, Aside, Live, temporal
<1>6. SetCarriesPrepared' /\ PreparedBindsOneRead' /\ NoFalseMismatch'
  BY <1>2 DEF IInv, Aside, SetCarriesPrepared, PreparedBindsOneRead, NoFalseMismatch, temporal
<1>7. QED
  BY <1>1, <1>3, <1>4, <1>5, <1>6 DEF IInv

(* A stage that changes nothing of what was prepared returns to the        *)
(* workflow, which goes on to the next or completes.                       *)
LEMMA ReturnStep ==
  ASSUME IInv, Aside, NEW th \in threads, th.kind \in {"deploy", "validate"},
         Return(th, prepared[th.of]),
         th.kind = "deploy" => <<th.of, prepared[th.of].artifact>> \in sets'
  PROVE  IInv'
<1> DEFINE x == th.of
           next == NextStage[th.kind]
           rest == threads \ {th}
           new == Attempt(x, "validate", 1)
<1>1. TypeOK /\ th \in Thread /\ x \in Execution /\ th.n \in 1..MaxAttempts
  BY DEF IInv, TypeOK, Thread
<1>2. next = (IF th.kind = "deploy" THEN "validate" ELSE "completed")
  BY DEF NextStage
<1>3. CASE ~Live(th)
  <2>1. threads' \subseteq threads /\ UNCHANGED temporal
    BY <1>3 DEF Return, temporal
  <2>2. QED
    BY <2>1, DroppedStep
<1>4. CASE Live(th)
  <2>1. /\ stage' = [stage EXCEPT ![x] = next] /\ attempt' = [attempt EXCEPT ![x] = 1]
        /\ prepared' = [prepared EXCEPT ![x] = prepared[x]]
        /\ threads' = IF next \in Active THEN rest \cup {Attempt(x, next, 1)} ELSE rest
        /\ UNCHANGED <<failure, timeouts>>
    BY <1>4 DEF Return
  <2>2. prepared' = prepared
    BY <1>1, <2>1 DEF TypeOK
  <2>3. /\ stage'[x] = next /\ \A y \in Execution \ {x} : stage'[y] = stage[y]
        /\ attempt'[x] = 1 /\ \A y \in Execution \ {x} : attempt'[y] = attempt[y]
        /\ stage[x] = th.kind
    BY <1>1, <1>4, <2>1 DEF TypeOK, Live
  <2>4. /\ new \in Thread /\ new.of = x /\ new.kind = "validate" /\ new.n = 1
        /\ new.at \in {"fetch_device", "read", "get_device"} /\ new.at \in StepsOf("validate")
    BY <1>1, Bounds, NewAttempt DEF Active
  <2>5. /\ next = "validate" => threads' = rest \cup {new}
        /\ next = "completed" => threads' = rest
        /\ next \in {"validate", "completed"}
    BY <1>2, <2>1 DEF Active
  <2>6. x \in Deployments /\ prepared[x] # Nothing /\ failure[x] = "none"
    BY <1>1, <2>3 DEF IInv, StagesFollow, SeenIsWhole, ThreadsAtWork, KindsOf
  <2> HIDE DEF new, next
  <2>7. \A t \in rest : next = "validate" /\ t.of = x => t.kind # "validate"
    BY <1>2, <2>3 DEF IInv, NoneAhead
  <2>8. TypeOK' /\ file' # Truncated
    <3>1. threads' \subseteq Thread
      BY <1>1, <2>4, <2>5 DEF TypeOK
    <3>2. stage' \in [Execution -> Active \cup {"not_requested", "completed", "failed"}]
      BY <1>1, <2>1, <2>5 DEF TypeOK, Active
    <3>3. attempt' \in [Execution -> 1..MaxAttempts]
      BY <1>1, <2>1, Bounds DEF TypeOK
    <3>4. QED
      BY <1>1, <2>1, <2>2, <3>1, <3>2, <3>3 DEF IInv, TypeOK, Aside, Seen
  <2>9. ThreadsAtWork'
    BY <2>4, <2>5, <2>6 DEF IInv, ThreadsAtWork, KindsOf
  <2>10. NoneAhead'
    <3>1. \A t \in rest : t.of \in Execution
      BY <1>1 DEF TypeOK, Thread
    <3>2. ASSUME NEW t \in rest
          PROVE  /\ t.kind = stage'[t.of] => t.n <= attempt'[t.of]
                 /\ stage'[t.of] = "prepare" => t.kind = "prepare"
                 /\ stage'[t.of] = "deploy" => t.kind # "validate"
      <4>1. CASE t.of = x
        <5>1. t.kind \in Active
          BY <1>1 DEF TypeOK, Thread
        <5>2. QED
          BY <2>3, <2>5, <2>7, <4>1, <5>1 DEF Active
      <4>2. CASE t.of # x
        BY <2>3, <3>1, <4>2 DEF IInv, NoneAhead
      <4>3. QED
        BY <4>1, <4>2
    <3>3. QED
      BY <2>3, <2>4, <2>5, <3>2 DEF NoneAhead
  <2>11. OneThreadPerAttempt'
    BY <2>4, <2>5, <2>7 DEF IInv, OneThreadPerAttempt
  <2>12. SeenIsWhole'
    BY <2>2, <2>4, <2>5, <2>6 DEF IInv, SeenIsWhole
  <2>13. StagesFollow'
    <3>1. <<x, prepared[x].artifact>> \in sets'
      BY <1>1, <2>3, <2>6 DEF IInv, StagesFollow, Aside
    <3>2. QED
      BY <2>1, <2>2, <2>3, <2>5, <2>6, <3>1 DEF IInv, StagesFollow, Aside, KindsOf, Active
  <2>14. FileIsTheirs'
    <3>1. \A t \in threads' : t.at = "verify" => t \in threads /\ t.kind = "prepare"
      BY <2>4, <2>5 DEF IInv, ThreadsAtWork, StepsOf, KindsOf
    <3>2. \A t \in threads : t.at = "verify" /\ t.kind = "prepare" /\ Live(t)' => Live(t)
      <4>1. \A t \in threads : t.of \in Execution
        BY <1>1 DEF TypeOK, Thread
      <4>2. QED
        BY <2>3, <2>5, <4>1 DEF Live
    <3>3. QED
      BY <2>2, <2>3, <2>5, <3>1, <3>2 DEF IInv, FileIsTheirs, Aside
  <2>15. SetCarriesPrepared' /\ PreparedBindsOneRead' /\ NoFalseMismatch'
    BY <2>1, <2>2 DEF IInv, Aside, SetCarriesPrepared, PreparedBindsOneRead, NoFalseMismatch
  <2>16. QED
    BY <2>8, <2>9, <2>10, <2>11, <2>12, <2>13, <2>14, <2>15 DEF IInv
<1>5. QED
  BY <1>3, <1>4

-----------------------------------------------------------------------------
(* A rendering takes the place of the artifact: another execution's file   *)
(* is gone, the renderer's own is there.                                   *)
LEMMA ReplaceRenderStep ==
  ASSUME IInv, NEW th \in threads, Replace(th), th.kind = "render"
  PROVE  IInv'
<1> DEFINE x == th.of
<1>1. TypeOK /\ th \in Thread /\ x \in Execution /\ th.at = "replace" /\ th.seen \in Content
  BY DEF IInv, TypeOK, Thread, SeenIsWhole, Replace
<1>2. x \notin Deployments /\ prepared[x] = Nothing
  BY <1>1 DEF IInv, ThreadsAtWork, StagesFollow, KindsOf
<1>3. /\ file' = th.seen /\ displaced' = IF Live(th) THEN Execution \ {x} ELSE Execution
      /\ Return(th, Nothing) /\ UNCHANGED <<intent, device, unread, sets>>
  BY DEF Replace, Replaced
<1>4. threads' = threads \ {th} /\ UNCHANGED <<prepared, failure, timeouts>>
  <2>1. "completed" \notin Active /\ NextStage["render"] = "completed"
    BY DEF Active, NextStage
  <2>2. CASE Live(th)
    <3>1. prepared' = [prepared EXCEPT ![x] = Nothing] /\ threads' = threads \ {th}
          /\ UNCHANGED <<failure, timeouts>>
      BY <1>3, <2>1, <2>2 DEF Return
    <3>2. QED
      BY <1>1, <1>2, <3>1 DEF TypeOK
  <2>3. CASE ~Live(th)
    BY <1>3, <2>3 DEF Return
  <2>4. QED
    BY <2>2, <2>3
<1>5. /\ Live(th) => stage'[x] = "completed" /\ stage[x] = "render"
      /\ \A y \in Execution : \/ stage'[y] = stage[y] /\ attempt'[y] = attempt[y]
                              \/ Live(th) /\ y = x
      /\ ~Live(th) => UNCHANGED <<stage, attempt>>
      /\ stage' \in [Execution -> Active \cup {"not_requested", "completed", "failed"}]
      /\ attempt' \in [Execution -> 1..MaxAttempts]
  <2>1. CASE Live(th)
    <3>1. stage' = [stage EXCEPT ![x] = "completed"] /\ attempt' = [attempt EXCEPT ![x] = 1]
      BY <1>3, <2>1 DEF Return, NextStage
    <3>2. stage[x] = "render"
      BY <2>1 DEF Live
    <3>3. /\ stage'[x] = "completed" /\ stage' \in [Execution -> Active \cup {"not_requested", "completed", "failed"}]
          /\ \A y \in Execution \ {x} : stage'[y] = stage[y]
      BY <1>1, <3>1 DEF TypeOK
    <3>4. /\ attempt' \in [Execution -> 1..MaxAttempts]
          /\ \A y \in Execution \ {x} : attempt'[y] = attempt[y]
      BY <1>1, <3>1, Bounds DEF TypeOK
    <3>5. QED
      BY <2>1, <3>2, <3>3, <3>4
  <2>2. CASE ~Live(th)
    <3>1. UNCHANGED <<stage, attempt>>
      BY <1>3, <2>2 DEF Return
    <3>2. QED
      BY <1>1, <2>2, <3>1 DEF TypeOK
  <2>3. QED
    BY <2>1, <2>2
<1>6. \A t \in threads' : t \in threads /\ t.of \in Execution /\ t.kind \in Active
  BY <1>1, <1>4 DEF TypeOK, Thread
<1>7. \A t \in threads' : t.at = "verify" => t.of # x
  BY <1>2, <1>6 DEF IInv, ThreadsAtWork, KindsOf, StepsOf
<1>8. TypeOK' /\ file' # Truncated
  <2>1. displaced' \subseteq Execution
    BY <1>3
  <2>2. QED
    BY <1>1, <1>3, <1>4, <1>5, <2>1, Contents DEF TypeOK
<1>9. ThreadsAtWork' /\ OneThreadPerAttempt' /\ SeenIsWhole'
  BY <1>4 DEF IInv, ThreadsAtWork, OneThreadPerAttempt, SeenIsWhole
<1>10. NoneAhead'
  BY <1>5, <1>6 DEF IInv, NoneAhead, Active
<1>11. StagesFollow'
  BY <1>2, <1>3, <1>4, <1>5 DEF IInv, StagesFollow, Active
<1>12. FileIsTheirs'
  <2>1. \A t \in threads' : t.at = "verify" => t.of \in displaced'
    BY <1>3, <1>6, <1>7
  <2>2. \A y \in Execution : stage'[y] = "deploy" => y \in displaced'
    BY <1>3, <1>5
  <2>3. QED
    BY <2>1, <2>2 DEF FileIsTheirs
<1>13. SetCarriesPrepared' /\ PreparedBindsOneRead'
  BY <1>3, <1>4 DEF IInv, SetCarriesPrepared, PreparedBindsOneRead
<1>14. NoFalseMismatch'
  <2>1. Live(th) => failure[x] = "none"
    BY <1>1, <1>5 DEF IInv, StagesFollow
  <2>2. QED
    BY <1>3, <1>4, <2>1 DEF NoFalseMismatch
<1>15. QED
  BY <1>8, <1>9, <1>10, <1>11, <1>12, <1>13, <1>14 DEF IInv

(* So does a preparation, whose thread is the only one of the attempt that *)
(* will reread the file.                                                   *)
LEMMA ReplacePrepareStep ==
  ASSUME IInv, NEW th \in threads, Replace(th), th.kind # "render"
  PROVE  IInv'
<1> DEFINE x == th.of
<1>1. TypeOK /\ th \in Thread /\ x \in Execution /\ th.at = "replace" /\ th.seen \in Content
  BY DEF IInv, TypeOK, Thread, SeenIsWhole, Replace
<1>2. th.kind = "prepare" /\ "verify" \in StepsOf(th.kind)
  BY <1>1 DEF IInv, ThreadsAtWork, Thread, Active, StepsOf
<1>3. /\ file' = th.seen /\ displaced' = IF Live(th) THEN Execution \ {x} ELSE Execution
      /\ Goto(th, "verify", th.seen) /\ UNCHANGED <<intent, device, unread, sets>>
      /\ UNCHANGED <<stage, attempt, prepared, failure, timeouts>>
  BY DEF Replace, Replaced, Goto, temporal
<1>4. /\ threads' \subseteq Thread
      /\ ThreadsAtWork' /\ NoneAhead' /\ OneThreadPerAttempt' /\ SeenIsWhole'
      /\ \A t \in threads' :
           \/ t \in threads \ {th}
           \/ t.of = x /\ t.kind = th.kind /\ t.n = th.n /\ t.at = "verify" /\ t.seen = th.seen
  BY <1>1, <1>2, <1>3, Contents, GotoKeeps DEF Seen
<1>5. TypeOK' /\ file' # Truncated
  BY <1>1, <1>3, <1>4, Contents DEF TypeOK
<1>6. StagesFollow'
  BY <1>3 DEF IInv, StagesFollow
<1>7. FileIsTheirs'
  <2>1. ASSUME NEW t \in threads', t.at = "verify", Live(t)', t.of \notin displaced'
        PROVE  file' = t.seen
    <3>1. t.of = x /\ Live(th)
      BY <1>1, <1>3, <1>4, <2>1 DEF Thread
    <3>2. t.kind = stage[x] /\ t.n = attempt[x] /\ th.kind = stage[x] /\ th.n = attempt[x]
      BY <1>3, <2>1, <3>1 DEF Live
    <3>3. t \notin threads \ {th}
      BY <3>1, <3>2 DEF IInv, OneThreadPerAttempt
    <3>4. QED
      BY <1>3, <1>4, <3>3
  <2>2. ASSUME NEW y \in Execution, stage'[y] = "deploy"
        PROVE  y \in displaced'
    BY <1>2, <1>3, <2>2 DEF Live
  <2>3. QED
    BY <2>1, <2>2 DEF FileIsTheirs
<1>8. SetCarriesPrepared' /\ PreparedBindsOneRead'
  BY <1>3 DEF IInv, SetCarriesPrepared, PreparedBindsOneRead
<1>9. NoFalseMismatch'
  <2>1. Live(th) => failure[x] = "none"
    BY <1>1, <1>2 DEF IInv, StagesFollow, Live
  <2>2. QED
    BY <1>3, <2>1 DEF NoFalseMismatch
<1>10. QED
  BY <1>4, <1>5, <1>6, <1>7, <1>8, <1>9 DEF IInv

(* A preparation that found its own file returns the identity it binds:    *)
(* nothing was prepared before, so nothing was Set.                        *)
LEMMA VerifyStep ==
  ASSUME IInv, NEW th \in threads, Verify(th)
  PROVE  IInv'
<1> DEFINE x == th.of
           id == Prepared(th)
           rest == threads \ {th}
           new == Attempt(x, "deploy", 1)
<1>1. TypeOK /\ th \in Thread /\ x \in Execution /\ th.at = "verify" /\ th.seen \in Content
      /\ timeouts \in Nat
  BY DEF IInv, TypeOK, Thread, SeenIsWhole, Verify
<1>2. th.kind = "prepare" /\ x \in Deployments
  BY <1>1 DEF IInv, ThreadsAtWork, Thread, Active, StepsOf, KindsOf
<1>3. Aside
  BY <1>1 DEF Aside, IInv, TypeOK, Verify, shared, history, SetCarriesPrepared, Seen
<1>4. id \in Identity /\ id # Nothing /\ id.artifact = th.seen /\ id.expected = th.seen
  BY <1>1, Contents DEF Prepared, Identity
<1>5. CASE Live(th) /\ file = th.seen
  <2>1. /\ stage' = [stage EXCEPT ![x] = "deploy"] /\ attempt' = [attempt EXCEPT ![x] = 1]
        /\ prepared' = [prepared EXCEPT ![x] = id]
        /\ threads' = rest \cup {new}
        /\ UNCHANGED <<failure, timeouts, shared, history>>
    <3>1. Return(th, id) /\ UNCHANGED <<shared, history>>
      BY <1>4, <1>5 DEF Verify
    <3>2. NextStage[th.kind] = "deploy" /\ "deploy" \in Active
      BY <1>2 DEF NextStage, Active
    <3>3. QED
      BY <1>5, <3>1, <3>2 DEF Return
  <2>2. /\ stage'[x] = "deploy" /\ \A y \in Execution \ {x} : stage'[y] = stage[y]
        /\ attempt'[x] = 1 /\ \A y \in Execution \ {x} : attempt'[y] = attempt[y]
        /\ prepared'[x] = id /\ \A y \in Execution \ {x} : prepared'[y] = prepared[y]
    BY <1>1, <2>1 DEF TypeOK
  <2>3. stage[x] = "prepare" /\ prepared[x] = Nothing /\ failure[x] = "none"
    BY <1>1, <1>2, <1>5 DEF Live, IInv, StagesFollow
  <2>4. /\ new \in Thread /\ new.of = x /\ new.kind = "deploy" /\ new.n = 1
        /\ new.at \in {"fetch_device", "read", "get_device"} /\ new.at \in StepsOf("deploy")
    BY <1>1, Bounds, NewAttempt DEF Active
  <2>5. \A t \in rest : /\ t \in threads /\ t.of \in Execution /\ t.kind \in Active
                        /\ t.of = x => t.kind = "prepare"
    BY <1>1, <2>3 DEF IInv, NoneAhead, TypeOK, Thread
  <2>6. \A s \in sets : s \in Execution \X Content /\ s[1] # x
    BY <1>1, <2>3 DEF IInv, SetCarriesPrepared, TypeOK
  <2> HIDE DEF new, id
  <2>7. TypeOK' /\ file' # Truncated
    <3>1. threads' \subseteq Thread
      BY <1>1, <2>1, <2>4 DEF TypeOK
    <3>2. stage' \in [Execution -> Active \cup {"not_requested", "completed", "failed"}]
      BY <1>1, <2>1 DEF TypeOK, Active
    <3>3. attempt' \in [Execution -> 1..MaxAttempts]
      BY <1>1, <2>1, Bounds DEF TypeOK
    <3>4. prepared' \in [Execution -> Identity \cup {Nothing}]
      BY <1>1, <1>4, <2>1 DEF TypeOK
    <3>5. QED
      BY <1>1, <2>1, <3>1, <3>2, <3>3, <3>4 DEF IInv, TypeOK, shared, history
  <2>8. ThreadsAtWork'
    BY <1>2, <2>1, <2>4 DEF IInv, ThreadsAtWork, KindsOf
  <2>9. NoneAhead'
    <3>1. ASSUME NEW t \in rest
          PROVE  /\ t.kind = stage'[t.of] => t.n <= attempt'[t.of]
                 /\ stage'[t.of] = "prepare" => t.kind = "prepare"
                 /\ stage'[t.of] = "deploy" => t.kind # "validate"
      <4>1. CASE t.of = x
        BY <2>2, <2>5, <4>1
      <4>2. CASE t.of # x
        BY <2>2, <2>5, <4>2 DEF IInv, NoneAhead
      <4>3. QED
        BY <4>1, <4>2
    <3>2. QED
      BY <2>1, <2>2, <2>4, <3>1 DEF NoneAhead
  <2>10. OneThreadPerAttempt'
    BY <2>1, <2>4, <2>5 DEF IInv, OneThreadPerAttempt
  <2>11. SeenIsWhole'
    <3>1. ASSUME NEW t \in rest
          PROVE  /\ t.at = "fetch_interfaces" => t.seen["device"] \in 1..MaxVersion
                 /\ t.at \in {"write", "replace", "verify"} => t.seen \in Content
                 /\ t.kind \in {"deploy", "validate"} => prepared'[t.of] # Nothing
                 /\ t.at \in {"connect", "set"} => t.seen = prepared'[t.of].artifact
      <4>1. CASE t.of = x
        <5>1. t.kind = "prepare" /\ t.at \notin {"connect", "set"}
          BY <2>5, <4>1 DEF IInv, ThreadsAtWork, StepsOf
        <5>2. QED
          BY <5>1, <2>5 DEF IInv, SeenIsWhole
      <4>2. CASE t.of # x
        BY <2>2, <2>5, <4>2 DEF IInv, SeenIsWhole
      <4>3. QED
        BY <4>1, <4>2
    <3>2. QED
      BY <1>4, <2>1, <2>2, <2>4, <3>1 DEF SeenIsWhole
  <2>12. StagesFollow'
    BY <1>2, <1>4, <2>1, <2>2, <2>3 DEF IInv, StagesFollow, KindsOf, Active, history
  <2>13. FileIsTheirs'
    <3>1. ASSUME NEW t \in threads', t.at = "verify", Live(t)', t.of \notin displaced'
          PROVE  file' = t.seen
      <4>1. t \in rest
        BY <2>1, <2>4, <3>1
      <4>2. t.of # x
        BY <2>2, <2>5, <3>1, <4>1 DEF Live
      <4>3. Live(t) /\ t.of \notin displaced
        BY <2>1, <2>2, <2>5, <3>1, <4>1, <4>2 DEF Live, history
      <4>4. QED
        BY <2>1, <3>1, <4>1, <4>3 DEF IInv, FileIsTheirs, shared
    <3>2. ASSUME NEW y \in Execution, stage'[y] = "deploy", y \notin displaced'
          PROVE  file' = prepared'[y].artifact
      BY <1>4, <1>5, <2>1, <2>2, <3>2 DEF IInv, FileIsTheirs, shared, history
    <3>3. QED
      BY <3>1, <3>2 DEF FileIsTheirs
  <2>14. SetCarriesPrepared'
    BY <2>1, <2>2, <2>6 DEF IInv, SetCarriesPrepared, history
  <2>15. PreparedBindsOneRead' /\ NoFalseMismatch'
    BY <1>4, <2>1, <2>2 DEF IInv, PreparedBindsOneRead, NoFalseMismatch, history
  <2>16. QED
    BY <2>7, <2>8, <2>9, <2>10, <2>11, <2>12, <2>13, <2>14, <2>15 DEF IInv
<1>6. CASE ~Live(th) /\ file = th.seen
  <2>1. Return(th, id)
    BY <1>4, <1>6 DEF Verify
  <2>2. threads' \subseteq threads /\ UNCHANGED temporal
    BY <1>6, <2>1 DEF Return, temporal
  <2>3. QED
    BY <1>3, <2>2, DroppedStep
<1>7. CASE file # th.seen
  <2>1. Raise(th, "artifact_invalid")
    BY <1>4, <1>7 DEF Verify
  <2>2. Live(th) => th.of \in displaced
    BY <1>1, <1>7 DEF IInv, FileIsTheirs
  <2>3. QED
    BY <1>3, <2>1, <2>2, RaiseStep DEF Error
<1>8. QED
  BY <1>5, <1>6, <1>7

-----------------------------------------------------------------------------
(* A step that touches nothing the executions share, and no history.       *)
LEMMA NothingAside ==
  ASSUME IInv, UNCHANGED <<shared, history>>
  PROVE  Aside
BY DEF Aside, IInv, TypeOK, SetCarriesPrepared, Seen, shared, history

(* A Set carries what its thread read, which is what was prepared.         *)
LEMMA AppliedAside ==
  ASSUME IInv, NEW th \in threads, th.at = "set", Applied(th)
  PROVE  /\ Aside /\ <<th.of, prepared[th.of].artifact>> \in sets'
         /\ th.kind = "deploy"
<1>1. TypeOK /\ th \in Thread /\ th.of \in Execution /\ th.kind \in Active /\ th.seen \in Seen
  BY DEF IInv, TypeOK, Thread, Seen
<1>2. th.kind = "deploy"
  BY <1>1 DEF IInv, ThreadsAtWork, StepsOf, Active
<1>3. prepared[th.of] \in Identity /\ prepared[th.of] # Nothing /\ th.seen = prepared[th.of].artifact
  BY <1>1, <1>2 DEF IInv, SeenIsWhole, TypeOK
<1>4. th.seen \in Content
  BY <1>3 DEF Identity
<1>5. /\ UNCHANGED <<intent, file, displaced, unread>>
      /\ device' = th.seen /\ sets' = sets \cup {<<th.of, th.seen>>}
  BY DEF Applied
<1>6. \A s \in sets' : prepared[s[1]] # Nothing /\ s[2] = prepared[s[1]].artifact
  BY <1>3, <1>5 DEF IInv, SetCarriesPrepared
<1>7. QED
  BY <1>1, <1>2, <1>3, <1>4, <1>5, <1>6 DEF Aside, TypeOK

(* Each part is taken from the intent into a whole.                        *)
LEMMA FetchStep ==
  ASSUME IInv, NEW th \in threads, FetchDevice(th) \/ FetchInterfaces(th) \/ FetchFails(th)
  PROVE  IInv'
<1>1. TypeOK /\ th \in Thread /\ th.kind \in Active /\ th.seen \in Seen /\ Aside
  BY NothingAside DEF IInv, TypeOK, Thread, Seen, FetchDevice, FetchInterfaces, FetchFails
<1>2. th.at \in StepsOf(th.kind)
  BY DEF IInv, ThreadsAtWork
<1>3. CASE FetchDevice(th)
  <2> DEFINE seen == [th.seen EXCEPT !["device"] = intent["device"]]
  <2>1. seen \in Seen /\ seen["device"] \in 1..MaxVersion
    BY <1>1, Bounds DEF TypeOK, Content, Seen, Part
  <2>2. "fetch_interfaces" \in StepsOf(th.kind) \ {"verify"}
    BY <1>1, <1>2, <1>3 DEF FetchDevice, StepsOf, Active
  <2>3. Goto(th, "fetch_interfaces", seen)
    BY <1>3 DEF FetchDevice
  <2> HIDE DEF seen
  <2>4. QED
    BY <1>1, <2>1, <2>2, <2>3, GotoStep
<1>4. CASE FetchInterfaces(th)
  <2> DEFINE seen == [th.seen EXCEPT !["interfaces"] = intent["interfaces"]]
  <2>1. th.seen["device"] \in 1..MaxVersion
    BY <1>4 DEF FetchInterfaces, IInv, SeenIsWhole
  <2>2. seen \in Seen /\ seen \in Content
    BY <1>1, <2>1, Bounds DEF TypeOK, Content, Seen, Part
  <2>3. "write" \in StepsOf(th.kind) \ {"verify"}
    BY <1>1, <1>2, <1>4 DEF FetchInterfaces, StepsOf, Active
  <2>4. Goto(th, "write", seen)
    BY <1>4 DEF FetchInterfaces
  <2> HIDE DEF seen
  <2>5. QED
    BY <1>1, <2>2, <2>3, <2>4, GotoStep
<1>5. CASE FetchFails(th)
  <2>1. PICK error \in {"nautobot_unavailable", "intent_invalid"} : Raise(th, error)
    BY <1>5 DEF FetchFails
  <2>2. error \in Error \ {"none"} /\ error \notin {"artifact_invalid", "artifact_mismatch"}
    BY DEF Error
  <2>3. QED
    BY <1>1, <2>1, <2>2, RaiseStep
<1>6. QED
  BY <1>3, <1>4, <1>5

(* The temporary file is beside the path.                                  *)
LEMMA WriteStep ==
  ASSUME IInv, NEW th \in threads, Write(th)
  PROVE  IInv'
<1>1. TypeOK /\ th \in Thread /\ th.kind \in Active /\ th.at = "write" /\ th.seen \in Seen
      /\ th.seen \in Content
  BY DEF IInv, TypeOK, Thread, Seen, SeenIsWhole, Write
<1>2. "replace" \in StepsOf(th.kind) \ {"verify"}
  BY <1>1 DEF IInv, ThreadsAtWork, StepsOf, Active
<1>3. Aside /\ Goto(th, "replace", th.seen)
  BY NothingAside DEF Write, WhileWriting, shared, history
<1>4. QED
  BY <1>1, <1>2, <1>3, GotoStep

(* Storage that fails is either retried or written down as unread.         *)
LEMMA StorageStep ==
  ASSUME IInv, NEW th \in threads, StorageFails(th)
  PROVE  IInv'
<1>1. TypeOK /\ th.of \in Execution
  BY DEF IInv, TypeOK, Thread
<1>2. CASE Raise(th, "artifact_unavailable") /\ UNCHANGED unread
  <2>1. Aside
    BY <1>2, NothingAside DEF StorageFails, history
  <2>2. QED
    BY <1>2, <2>1, RaiseStep DEF Error
<1>3. CASE Raise(th, "artifact_mismatch") /\ unread' = unread \cup {th.of}
  <2>1. Aside
    BY <1>1, <1>3 DEF StorageFails, Aside, IInv, TypeOK, SetCarriesPrepared, Seen, shared
  <2>2. QED
    BY <1>3, <2>1, RaiseStep DEF Error
<1>4. QED
  BY <1>2, <1>3 DEF StorageFails

(* What deploys is the prepared artifact, or the file is another's.        *)
LEMMA DeployStep ==
  ASSUME IInv, NEW th \in threads, ReadArtifact(th) \/ VerifyTarget(th)
  PROVE  IInv'
<1>1. TypeOK /\ th \in Thread /\ th.of \in Execution /\ th.kind \in Active /\ th.seen \in Seen
      /\ Aside
  BY NothingAside DEF IInv, TypeOK, Thread, Seen, ReadArtifact, VerifyTarget
<1>2. th.at \in StepsOf(th.kind)
  BY DEF IInv, ThreadsAtWork
<1>3. th.kind = "deploy" /\ {"connect", "set"} \subseteq StepsOf(th.kind) \ {"verify"}
  BY <1>1, <1>2 DEF ReadArtifact, VerifyTarget, StepsOf, Active
<1>4. CASE ReadArtifact(th)
  <2>1. CASE file = prepared[th.of].artifact
    <3>1. prepared[th.of] \in Identity
      BY <1>1, <1>3 DEF IInv, SeenIsWhole, TypeOK
    <3>2. file \in Seen
      BY <2>1, <3>1, Contents DEF Identity
    <3>3. Goto(th, "connect", file)
      BY <1>4, <2>1 DEF ReadArtifact, Acceptable
    <3>4. QED
      BY <1>1, <1>3, <2>1, <3>2, <3>3, GotoStep
  <2>2. CASE file # prepared[th.of].artifact
    <3>1. Raise(th, "artifact_mismatch")
      BY <1>4, <2>2 DEF ReadArtifact, Acceptable
    <3>2. Live(th) => th.of \in displaced
      BY <1>1, <1>3, <2>2 DEF IInv, FileIsTheirs, Live
    <3>3. QED
      BY <1>1, <3>1, <3>2, RaiseStep DEF Error
  <2>3. QED
    BY <2>1, <2>2
<1>5. CASE VerifyTarget(th)
  <2>1. CASE Goto(th, "set", th.seen)
    <3>1. th.seen = prepared[th.of].artifact
      BY <1>5 DEF VerifyTarget, IInv, SeenIsWhole
    <3>2. QED
      BY <1>1, <1>3, <2>1, <3>1, GotoStep
  <2>2. CASE \E error \in {"device_unavailable", "device_identity_mismatch"} : Raise(th, error)
    <3>1. PICK error \in {"device_unavailable", "device_identity_mismatch"} : Raise(th, error)
      BY <2>2
    <3>2. error \in Error \ {"none"} /\ error \notin {"artifact_invalid", "artifact_mismatch"}
      BY DEF Error
    <3>3. QED
      BY <1>1, <3>1, <3>2, RaiseStep
  <2>3. QED
    BY <1>5, <2>1, <2>2 DEF VerifyTarget
<1>6. QED
  BY <1>4, <1>5

(* A Set that is confirmed goes on, and every other outcome raises.        *)
LEMMA SetStep ==
  ASSUME IInv, NEW th \in threads,
         SetConfirmed(th) \/ SetUnanswered(th) \/ SetLost(th) \/ SetRejected(th)
  PROVE  IInv'
<1>1. CASE SetConfirmed(th)
  <2>1. th.at = "set" /\ Applied(th) /\ Return(th, prepared[th.of])
    BY <1>1 DEF SetConfirmed
  <2>2. QED
    BY <2>1, AppliedAside, ReturnStep
<1>2. CASE SetUnanswered(th)
  <2>1. th.at = "set" /\ Applied(th) /\ Raise(th, "device_unavailable")
    BY <1>2 DEF SetUnanswered
  <2>2. QED
    BY <2>1, AppliedAside, RaiseStep DEF Error
<1>3. CASE SetLost(th) \/ SetRejected(th)
  <2>1. PICK error \in {"device_unavailable", "configuration_rejected"} : Raise(th, error)
    BY <1>3 DEF SetLost, SetRejected, LostRequestEnds
  <2>2. error \in Error \ {"none"} /\ error \notin {"artifact_invalid", "artifact_mismatch"}
    BY DEF Error
  <2>3. Aside
    BY <1>3, NothingAside DEF SetLost, SetRejected
  <2>4. QED
    BY <2>1, <2>2, <2>3, RaiseStep
<1>4. QED
  BY <1>1, <1>2, <1>3

(* A validation returns what was prepared, whatever it observed.           *)
LEMMA ValidateStep ==
  ASSUME IInv, NEW th \in threads, GetDevice(th) \/ GetInterfaces(th) \/ GetFails(th)
  PROVE  IInv'
<1>1. TypeOK /\ th \in Thread /\ th.kind \in Active /\ th.seen \in Seen /\ Aside
  BY NothingAside DEF IInv, TypeOK, Thread, Seen, GetDevice, GetInterfaces, GetFails
<1>2. th.at \in StepsOf(th.kind)
  BY DEF IInv, ThreadsAtWork
<1>3. th.kind = "validate" /\ "get_interfaces" \in StepsOf(th.kind) \ {"verify"}
  BY <1>1, <1>2 DEF GetDevice, GetInterfaces, GetFails, StepsOf, Active
<1>4. CASE GetDevice(th)
  <2> DEFINE seen == [th.seen EXCEPT !["device"] = device["device"]]
  <2>1. seen \in Seen
    BY <1>1, Bounds DEF TypeOK, Seen, Part
  <2>2. Goto(th, "get_interfaces", seen)
    BY <1>4 DEF GetDevice
  <2> HIDE DEF seen
  <2>3. QED
    BY <1>1, <1>3, <2>1, <2>2, GotoStep
<1>5. CASE Return(th, prepared[th.of])
  BY <1>1, <1>3, <1>5, ReturnStep
<1>6. CASE \E error \in {"validation_not_converged", "validation_failed", "device_unavailable"} : Raise(th, error)
  <2>1. PICK error \in {"validation_not_converged", "validation_failed", "device_unavailable"} : Raise(th, error)
    BY <1>6
  <2>2. error \in Error \ {"none"} /\ error \notin {"artifact_invalid", "artifact_mismatch"}
    BY DEF Error
  <2>3. QED
    BY <1>1, <2>1, <2>2, RaiseStep
<1>7. GetInterfaces(th) \/ GetFails(th) => \/ Return(th, prepared[th.of])
                                           \/ \E error \in {"validation_not_converged", "validation_failed", "device_unavailable"} : Raise(th, error)
  BY DEF GetInterfaces, GetFails
<1>8. QED
  BY <1>4, <1>5, <1>6, <1>7

-----------------------------------------------------------------------------
(* At the start every requested execution has its first attempt at work.   *)
LEMMA InitIInv == Init => IInv
<1> SUFFICES ASSUME Init PROVE IInv
  OBVIOUS
<1>1. PICK load \in Loads :
        /\ stage = [x \in Execution |->
             IF x \in load.executions THEN FirstStage(x) ELSE "not_requested"]
        /\ threads = {Attempt(x, FirstStage(x), 1) : x \in load.executions}
        /\ timeouts = load.timeouts
  BY DEF Init
<1>2. load.executions \subseteq Execution /\ load.timeouts \in Nat
  BY LoadsAreExecutions DEF Execution
<1>3. \A x \in Execution : FirstStage(x) \in KindsOf(x) /\ FirstStage(x) \in {"prepare", "render"}
  BY DEF FirstStage, KindsOf
<1>4. \A x \in load.executions :
        /\ x \in Execution /\ Attempt(x, FirstStage(x), 1) \in Thread
        /\ Attempt(x, FirstStage(x), 1).of = x /\ Attempt(x, FirstStage(x), 1).kind = FirstStage(x)
        /\ Attempt(x, FirstStage(x), 1).n = 1 /\ Attempt(x, FirstStage(x), 1).at = "fetch_device"
  <2> SUFFICES ASSUME NEW x \in load.executions
               PROVE  /\ x \in Execution /\ Attempt(x, FirstStage(x), 1) \in Thread
                      /\ Attempt(x, FirstStage(x), 1).of = x /\ Attempt(x, FirstStage(x), 1).kind = FirstStage(x)
                      /\ Attempt(x, FirstStage(x), 1).n = 1 /\ Attempt(x, FirstStage(x), 1).at = "fetch_device"
    OBVIOUS
  <2>1. x \in Execution /\ FirstStage(x) \in Active /\ 1 \in 1..MaxAttempts
    BY <1>2, <1>3, Bounds DEF Active
  <2>2. FirstStep(FirstStage(x)) = "fetch_device"
    BY <1>3, <2>1 DEF FirstStep
  <2>3. QED
    BY <2>1, <2>2, NewAttempt
<1>5. \A th \in threads : /\ th \in Thread /\ th.of \in load.executions /\ th.of \in Execution
                          /\ th = Attempt(th.of, FirstStage(th.of), 1)
                          /\ th.kind = FirstStage(th.of) /\ th.n = 1 /\ th.at = "fetch_device"
  BY <1>1, <1>4
<1>6. /\ attempt = [x \in Execution |-> 1] /\ prepared = [x \in Execution |-> Nothing]
      /\ failure = [x \in Execution |-> "none"] /\ file = Nothing
      /\ displaced = {} /\ unread = {} /\ sets = {}
  BY DEF Init
<1>7. /\ \A x \in Execution : stage[x] \in {"prepare", "render", "not_requested"}
      /\ \A x \in Execution : stage[x] \in Active => stage[x] \in KindsOf(x)
      /\ stage \in [Execution -> Active \cup {"not_requested", "completed", "failed"}]
  BY <1>1, <1>3 DEF Active
<1>8. TypeOK /\ file # Truncated
  <2>1. intent \in Content /\ device \in [Part -> 0..MaxVersion]
    BY Bounds DEF Init, Content
  <2>2. attempt \in [Execution -> 1..MaxAttempts] /\ failure \in [Execution -> Error]
    BY <1>6, Bounds DEF Error
  <2>3. QED
    BY <1>1, <1>2, <1>5, <1>6, <1>7, <2>1, <2>2, Contents DEF TypeOK
<1>9. ThreadsAtWork
  <2>1. \A kind \in {"prepare", "render"} : "fetch_device" \in StepsOf(kind)
    BY DEF StepsOf
  <2>2. QED
    BY <1>3, <1>5, <2>1 DEF ThreadsAtWork
<1>10. NoneAhead
  <2>1. \A th \in threads : th.n <= attempt[th.of] /\ stage[th.of] = th.kind /\ th.kind \in {"prepare", "render"}
    BY <1>1, <1>2, <1>3, <1>5, <1>6
  <2>2. QED
    BY <2>1 DEF NoneAhead
<1>11. OneThreadPerAttempt
  BY <1>5 DEF OneThreadPerAttempt
<1>12. SeenIsWhole
  BY <1>3, <1>5 DEF SeenIsWhole
<1>13. StagesFollow
  BY <1>6, <1>7 DEF StagesFollow
<1>14. FileIsTheirs
  BY <1>5, <1>7 DEF FileIsTheirs
<1>15. SetCarriesPrepared /\ PreparedBindsOneRead /\ NoFalseMismatch
  BY <1>6 DEF SetCarriesPrepared, PreparedBindsOneRead, NoFalseMismatch
<1>16. QED
  BY <1>8, <1>9, <1>10, <1>11, <1>12, <1>13, <1>14, <1>15 DEF IInv

(* An edit of the intent reaches nothing that was read before it.          *)
LEMMA EditStep ==
  ASSUME IInv, NEW parts \in SUBSET Part, EditIntent(parts)
  PROVE  IInv'
<1>1. /\ UNCHANGED <<file, device, stage, attempt, prepared, failure, timeouts, threads,
                     displaced, unread, sets>>
      /\ \A p \in parts : intent[p] < MaxVersion
      /\ intent' = [p \in Part |-> IF p \in parts THEN intent[p] + 1 ELSE intent[p]]
  BY DEF EditIntent, temporal, history
<1>2. intent' \in Content
  BY <1>1, Bounds DEF IInv, TypeOK, Content
<1>3. TypeOK' /\ file' # Truncated
  BY <1>1, <1>2 DEF IInv, TypeOK
<1>4. ThreadsAtWork' /\ NoneAhead' /\ OneThreadPerAttempt' /\ SeenIsWhole' /\ StagesFollow'
  BY <1>1 DEF IInv, ThreadsAtWork, NoneAhead, OneThreadPerAttempt, SeenIsWhole, StagesFollow
<1>5. FileIsTheirs' /\ SetCarriesPrepared' /\ PreparedBindsOneRead' /\ NoFalseMismatch'
  BY <1>1 DEF IInv, FileIsTheirs, Live, SetCarriesPrepared, PreparedBindsOneRead, NoFalseMismatch
<1>6. QED
  BY <1>3, <1>4, <1>5 DEF IInv

(* The invariant is preserved by every step of every thread, by Temporal's *)
(* timeouts, by the crash of the worker and by edits of the intent.        *)
LEMMA NextIInv == IInv /\ [Next]_vars => IInv'
<1> SUFFICES ASSUME IInv, [Next]_vars PROVE IInv'
  OBVIOUS
<1>1. ASSUME NEW th \in threads, ThreadStep(th) PROVE IInv'
  <2>1. CASE FetchDevice(th) \/ FetchInterfaces(th) \/ FetchFails(th)
    BY <2>1, FetchStep
  <2>2. CASE Write(th)
    BY <2>2, WriteStep
  <2>3. CASE Replace(th)
    BY <2>3, ReplaceRenderStep, ReplacePrepareStep
  <2>4. CASE Verify(th)
    BY <2>4, VerifyStep
  <2>5. CASE StorageFails(th)
    BY <2>5, StorageStep
  <2>6. CASE ReadArtifact(th) \/ VerifyTarget(th)
    BY <2>6, DeployStep
  <2>7. CASE SetConfirmed(th) \/ SetUnanswered(th) \/ SetLost(th) \/ SetRejected(th)
    BY <2>7, SetStep
  <2>8. CASE GetDevice(th) \/ GetInterfaces(th) \/ GetFails(th)
    BY <2>8, ValidateStep
  <2>9. QED
    BY <1>1, <2>1, <2>2, <2>3, <2>4, <2>5, <2>6, <2>7, <2>8 DEF ThreadStep
<1>2. ASSUME NEW parts \in SUBSET Part \ {{}}, EditIntent(parts) PROVE IInv'
  BY <1>2, EditStep
<1>3. ASSUME NEW x \in Execution, TimeOut(x) PROVE IInv'
  <2>1. /\ stage[x] \in Active /\ timeouts > 0 /\ timeouts' = timeouts - 1
        /\ FailAttempt(x, "internal_error", threads) /\ UNCHANGED <<shared, history>>
    BY <1>3 DEF TimeOut
  <2>2. timeouts' \in Nat
    BY <2>1 DEF IInv, TypeOK
  <2>3. Aside
    BY <2>1, NothingAside
  <2>4. QED
    BY <2>1, <2>2, <2>3, FailStep DEF Error
<1>4. ASSUME WorkerCrashes PROVE IInv'
  <2>1. threads' \subseteq threads /\ UNCHANGED temporal /\ Aside
    BY <1>4, NothingAside DEF WorkerCrashes
  <2>2. QED
    BY <2>1, DroppedStep
<1>5. ASSUME UNCHANGED vars PROVE IInv'
  <2>1. threads' \subseteq threads /\ UNCHANGED temporal /\ Aside
    BY <1>5, NothingAside DEF vars
  <2>2. QED
    BY <2>1, DroppedStep
<1>6. QED
  BY <1>1, <1>2, <1>3, <1>4, <1>5 DEF Next

(* Artifact, identity, Set and outcome of every execution stay in step; no *)
(* reader finds a half-written artifact (activities/deployment.py:252-427, *)
(* rendering/srlinux.py:117-148, devices/srlinux.py:84-169).               *)
THEOREM PipelineInvariant == Spec => []IInv
<1>1. QED
  BY InitIInv, NextIInv, PTL DEF Spec

(* Every Set an execution ever sends carries the one artifact its outcome  *)
(* names, whatever happens to the path meanwhile.                          *)
THEOREM EverySetCarriesPrepared == Spec => []SetCarriesPrepared
<1>1. IInv => SetCarriesPrepared
  BY DEF IInv
<1>2. QED
  BY <1>1, PipelineInvariant, PTL

(* The artifact deployed and the state validation expects are of one read  *)
(* of the intent.                                                          *)
THEOREM PreparationBindsOneRead == Spec => []PreparedBindsOneRead
<1>1. IInv => PreparedBindsOneRead
  BY DEF IInv
<1>2. QED
  BY <1>1, PipelineInvariant, PTL

(* A deployment that completed has put its own configuration on the device.*)
THEOREM CompletionMeansOwnSet == Spec => []CompletedMeansOwnSet
<1>1. IInv => CompletedMeansOwnSet
  BY DEF IInv, StagesFollow, CompletedMeansOwnSet, Execution
<1>2. QED
  BY <1>1, PipelineInvariant, PTL

(* An execution fails on its artifact only if storage failed or another    *)
(* thread really replaced the file.                                        *)
THEOREM MismatchIsReal == Spec => []NoFalseMismatch
<1>1. IInv => NoFalseMismatch
  BY DEF IInv
<1>2. QED
  BY <1>1, PipelineInvariant, PTL

(* No reader finds a half-written artifact, and everything stays within    *)
(* its type, the attempts within their maximum.                            *)
THEOREM ArtifactIsComplete == Spec => []ArtifactAlwaysComplete
<1>1. IInv => ArtifactAlwaysComplete
  BY DEF IInv, ArtifactAlwaysComplete
<1>2. QED
  BY <1>1, PipelineInvariant, PTL
=============================================================================
