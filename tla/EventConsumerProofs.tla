------------------------ MODULE EventConsumerProofs ------------------------
(***************************************************************************)
(* Proofs about EventConsumer, for every set of event ids and every bound: *)
(* IInv is inductive, the safety properties follow from it, and the        *)
(* consumer implements RequestIntake.  Of ConsumerLoop: the heartbeat is   *)
(* fresh while the broker answers, whatever the timeouts are, as long as   *)
(* one round of the loop fits into the window of the healthcheck.          *)
(***************************************************************************)
EXTENDS Bridge, SequenceTheorems, TLAPS

(* A record that is a request for its topic is a workflow id: Malformed is *)
(* a request on neither topic.                                             *)
LEMMA RequestIsWork ==
  ASSUME NEW t \in Topic, NEW r \in Record, IsRequest(t, r)
  PROVE  r \in WorkflowId
  BY DEF Topic, Record, IsRequest, WorkflowId, Intake!Topic, Intake!Record,
         Intake!IsRequest, Intake!WorkflowId, Intake!Malformed, Intake!TypeOf,
         Intake!RequestType

(* Publishing extends one log and keeps what the logs held.                *)
LEMMA LogExtends ==
  ASSUME TypeOK, NEW t \in Topic, NEW r \in Record, Publish(t, r)
  PROVE  /\ log' \in [Topic -> Seq(Record)]
         /\ Len(log'[t]) = Len(log[t]) + 1
         /\ log'[t][Len(log[t]) + 1] = r
         /\ \A u \in Topic : /\ Len(log[u]) <= Len(log'[u])
                             /\ \A i \in 1..Len(log[u]) : log'[u][i] = log[u][i]
  <1>1. log[t] \in Seq(Record)
    BY DEF TypeOK
  <1>2. log' = [log EXCEPT ![t] = Append(log[t], r)]
    BY DEF Publish
  <1>3. /\ Append(log[t], r) \in Seq(Record)
        /\ Len(Append(log[t], r)) = Len(log[t]) + 1
        /\ Append(log[t], r)[Len(log[t]) + 1] = r
        /\ \A i \in 1..Len(log[t]) : Append(log[t], r)[i] = log[t][i]
    BY <1>1
  <1>4. \A u \in Topic : log'[u] = IF u = t THEN Append(log[t], r) ELSE log[u]
    BY <1>2 DEF TypeOK
  <1>5. \A u \in Topic : Len(log[u]) \in Nat
    BY DEF TypeOK
  <1> QED
    BY <1>1, <1>2, <1>3, <1>4, <1>5 DEF TypeOK

(* What was requested stays requested.                                     *)
LEMMA RequestedGrows ==
  ASSUME TypeOK, NEW t \in Topic, NEW r \in Record, Publish(t, r),
         NEW w, Requested(w)
  PROVE  Requested(w)'
  <1>1. PICK u \in Topic : \E i \in 1..Len(log[u]) : IsRequest(u, log[u][i]) /\ log[u][i] = w
    BY DEF Requested, Intake!Requested, IsRequest, Topic
  <1>2. PICK i \in 1..Len(log[u]) : IsRequest(u, log[u][i]) /\ log[u][i] = w
    BY <1>1
  <1>3. i \in 1..Len(log'[u]) /\ log'[u][i] = log[u][i]
    <2>1. Len(log[u]) \in Nat /\ Len(log'[u]) \in Nat
      BY LogExtends DEF TypeOK
    <2> QED BY LogExtends, <2>1
  <1>4. IsRequest(u, log'[u][i]) /\ log'[u][i] = w
    BY <1>2, <1>3
  <1> QED
    BY <1>3, <1>4 DEF Requested, Intake!Requested, IsRequest, Topic

(* Requested depends on the logs alone.                                    *)
LEMMA RequestedStays ==
  ASSUME UNCHANGED log, NEW w
  PROVE  Requested(w)' = Requested(w)
  BY DEF Requested, Intake!Requested, Intake!IsRequest, Intake!TypeOf

-----------------------------------------------------------------------------
(* Type correctness.                                                       *)

LEMMA InitTypeOK == Init => TypeOK
  BY BoundsAreNat DEF Init, TypeOK

LEMMA NextTypeOK == ASSUME TypeOK, [Next]_vars PROVE TypeOK'
  <1> USE DEF kafkaVars, temporalVars
  <1>1. ASSUME NEW t \in Topic, NEW r \in Record, Publish(t, r) PROVE TypeOK'
    <2>1. log' \in [Topic -> Seq(Record)]
      BY <1>1, LogExtends
    <2> QED BY <1>1, <2>1 DEF Publish, TypeOK
  <1>2. ASSUME NEW w \in WorkflowId, ServeStart(w) PROVE TypeOK'
    <2>1. requests' \subseteq WorkflowId
      BY <1>2 DEF ServeStart, TypeOK
    <2>2. /\ execution' \in [WorkflowId -> {"absent", "running", "closed"}]
          /\ starts' \in [WorkflowId -> Nat]
      <3>1. CASE StartsExecution(w)
        <4>1. starts[w] + 1 \in Nat
          BY DEF TypeOK
        <4> QED BY <1>2, <3>1, <4>1 DEF ServeStart, TypeOK
      <3>2. CASE ~StartsExecution(w)
        BY <1>2, <3>2 DEF ServeStart, TypeOK
      <3> QED BY <3>1, <3>2
    <2>3. reply' \in {"none", "started", "already_started"}
      BY <1>2 DEF ServeStart, StartReply, TypeOK
    <2> QED BY <1>2, <2>1, <2>2, <2>3 DEF ServeStart, TypeOK
  <1>3. ASSUME NEW w \in WorkflowId, LoseRequest(w) PROVE TypeOK'
    BY <1>3 DEF LoseRequest, TypeOK
  <1>4. ASSUME NEW w \in WorkflowId, FinishExecution(w) PROVE TypeOK'
    BY <1>4 DEF FinishExecution, TypeOK
  <1>5. CASE Connect
    BY <1>5 DEF Connect, TypeOK
  <1>6. CASE Rejoin
    BY <1>6 DEF Rejoin, TypeOK
  <1>7. ASSUME NEW t \in Topic, PollRequest(t) PROVE TypeOK'
    <2>1. position[t] + 1 \in 1..Len(log[t]) /\ log[t] \in Seq(Record)
      BY <1>7 DEF PollRequest, Take, TypeOK
    <2>2. log[t][position[t] + 1] \in WorkflowId
      BY <1>7, <2>1, RequestIsWork DEF PollRequest
    <2> QED BY <1>7, <2>2 DEF PollRequest, Take, Holding, TypeOK
  <1>8. ASSUME NEW t \in Topic, PollPoison(t) PROVE TypeOK'
    BY <1>8 DEF PollPoison, Take, Holding, TypeOK
  <1>9. CASE StartAccepted
    BY <1>9 DEF StartAccepted, TypeOK
  <1>10. current.offset \in Nat /\ current.offset + 1 \in Nat
    <2>1. current.offset \in Nat
      BY DEF TypeOK, Holding, NoRecord
    <2> QED BY <2>1
  <1>11. CASE StartFails
    BY <1>10, <1>11 DEF StartFails, SeekCurrent, TypeOK
  <1>12. CASE CommitSucceeds
    <2>1. CommittedPast(current.topic, current.offset) \in [Topic -> Nat]
      BY <1>10 DEF CommittedPast, TypeOK
    <2> QED BY <1>12, <2>1 DEF CommitSucceeds, TypeOK
  <1>13. CASE CommitFails
    <2>1. CommittedPast(current.topic, current.offset) \in [Topic -> Nat]
      BY <1>10 DEF CommittedPast, TypeOK
    <2>2. position' \in [Topic -> Nat]
      BY <1>10, <1>13 DEF CommitFails, SeekCurrent, TypeOK
    <2> QED BY <1>13, <2>1, <2>2 DEF CommitFails, TypeOK
  <1>14. CASE Crash
    BY <1>14 DEF Crash, TypeOK
  <1>15. CASE UNCHANGED vars
    BY <1>15 DEF vars, TypeOK
  <1> QED
    BY <1>1, <1>2, <1>3, <1>4, <1>5, <1>6, <1>7, <1>8, <1>9, <1>11, <1>12, <1>13, <1>14,
       <1>15 DEF Next, Environment, Consumer

(* In every reachable state each variable has the type TypeOK gives it.    *)
THEOREM TypeCorrect == Spec => []TypeOK
  BY InitTypeOK, NextTypeOK, PTL DEF Spec

-----------------------------------------------------------------------------
(* The inductive invariant.                                                *)

(* A record in hand is a record of its topic's log.                        *)
LEMMA HandIsInLog ==
  ASSUME TypeOK, PositionsFollow, InHand
  PROVE  /\ current.topic \in Topic
         /\ current.offset \in Nat
         /\ current.offset + 1 \in 1..Len(log[current.topic])
         /\ CurrentRecord \in Record
  <1>1. /\ current.topic \in Topic
        /\ current.offset \in Nat
        /\ current.offset < Len(log[current.topic])
    BY DEF PositionsFollow, Holding
  <1>2. log[current.topic] \in Seq(Record) /\ Len(log[current.topic]) \in Nat
    BY <1>1 DEF TypeOK
  <1>3. current.offset + 1 \in 1..Len(log[current.topic])
    BY <1>1, <1>2
  <1>4. CurrentRecord \in Record
    BY <1>2, <1>3 DEF CurrentRecord
  <1> QED BY <1>1, <1>3, <1>4

LEMMA InitIInv == Init => IInv
  <1> SUFFICES ASSUME Init PROVE IInv
    OBVIOUS
  <1>1. TypeOK
    BY InitTypeOK
  <1>2. \A t \in Topic : log[t] = << >> /\ committed[t] = 0 /\ position[t] = 0
    BY DEF Init
  <1>3. WorkIsRequested
    BY DEF Init, WorkIsRequested
  <1>4. OffsetsInLog /\ NoRequestLost
    BY <1>2 DEF OffsetsInLog, NoRequestLost
  <1>5. PositionsFollow /\ CommitIsEarned
    BY DEF Init, PositionsFollow, CommitIsEarned, InHand
  <1> QED BY <1>1, <1>3, <1>4, <1>5 DEF IInv

LEMMA PublishKeepsIInv ==
  ASSUME IInv, NEW t \in Topic, NEW r \in Record, Publish(t, r)
  PROVE  IInv'
  <1> USE DEF kafkaVars, temporalVars
  <1>1. TypeOK /\ TypeOK'
    BY NextTypeOK DEF IInv, Next, Environment
  <1>2. /\ UNCHANGED <<committed, execution, starts, requests, position, current, pc, reply>>
        /\ \A u \in Topic : /\ Len(log[u]) \in Nat /\ Len(log'[u]) \in Nat
                            /\ Len(log[u]) <= Len(log'[u])
                            /\ \A i \in 1..Len(log[u]) : log'[u][i] = log[u][i]
    BY <1>1, LogExtends DEF Publish, TypeOK
  <1>3. WorkIsRequested'
    <2>1. \A w : Requested(w) => Requested(w)'
      BY <1>1, RequestedGrows
    <2> QED BY <1>2, <2>1 DEF IInv, WorkIsRequested
  <1>4. OffsetsInLog'
    BY <1>1, <1>2 DEF IInv, OffsetsInLog, TypeOK
  <1>5. PositionsFollow'
    <2>1. InHand => current.topic \in Topic /\ current.offset \in Nat
      BY <1>1, HandIsInLog DEF IInv
    <2> QED BY <1>2, <2>1 DEF IInv, PositionsFollow, InHand, AtCommitted
  <1>6. CommitIsEarned'
    <2>1. InHand => CurrentRecord' = CurrentRecord
      BY <1>1, <1>2, HandIsInLog DEF IInv, CurrentRecord
    <2> QED BY <1>2, <2>1 DEF IInv, CommitIsEarned, InHand, IsRequest, Intake!IsRequest
  <1>7. NoRequestLost'
    <2>1. \A u \in Topic : committed[u] \in Nat /\ committed[u] <= Len(log[u])
      BY <1>1 DEF IInv, OffsetsInLog, TypeOK
    <2> SUFFICES ASSUME NEW u \in Topic, NEW i \in 1..Len(log'[u]),
                        i <= committed[u], IsRequest(u, log'[u][i])
                 PROVE  execution[log'[u][i]] # "absent"
      BY <1>2 DEF NoRequestLost, IsRequest, Intake!IsRequest
    <2>2. i \in 1..Len(log[u]) /\ log'[u][i] = log[u][i]
      BY <1>2, <2>1
    <2> QED BY <2>2 DEF IInv, NoRequestLost
  <1> QED BY <1>1, <1>3, <1>4, <1>5, <1>6, <1>7 DEF IInv

(* What Temporal has never lost: no step makes an execution absent again.  *)
LEMMA ExecutionsStay ==
  ASSUME TypeOK, NEW w \in WorkflowId, ServeStart(w) \/ FinishExecution(w)
  PROVE  /\ \A v \in WorkflowId : execution[v] # "absent" => execution'[v] # "absent"
         /\ execution'[w] # "absent"
  BY DEF ServeStart, StartsExecution, FinishExecution, TypeOK, temporalVars

(* NoRequestLost survives a step that only adds executions.                *)
LEMMA SettledStays ==
  ASSUME TypeOK, NoRequestLost, UNCHANGED <<log, committed>>,
         \A v \in WorkflowId : execution[v] # "absent" => execution'[v] # "absent"
  PROVE  NoRequestLost'
  <1> SUFFICES ASSUME NEW u \in Topic, NEW i \in 1..Len(log[u]),
                      i <= committed[u], IsRequest(u, log[u][i])
               PROVE  execution'[log[u][i]] # "absent"
    BY DEF NoRequestLost, IsRequest, Intake!IsRequest
  <1>1. log[u][i] \in Record
    BY DEF TypeOK
  <1>2. log[u][i] \in WorkflowId
    BY <1>1, RequestIsWork
  <1> QED BY <1>2 DEF NoRequestLost

LEMMA ServeStartKeepsIInv ==
  ASSUME IInv, NEW w \in WorkflowId, ServeStart(w)
  PROVE  IInv'
  <1> USE DEF kafkaVars, temporalVars
  <1>1. TypeOK /\ TypeOK'
    BY NextTypeOK DEF IInv, Next, Environment
  <1>2. /\ UNCHANGED <<log, committed, position, current, pc>>
        /\ w \in requests /\ requests' \subseteq requests
    BY DEF ServeStart
  <1>3. \A v \in WorkflowId : execution[v] # "absent" => execution'[v] # "absent"
    BY <1>1, ExecutionsStay
  <1>4. execution'[w] # "absent"
    BY <1>1, ExecutionsStay
  <1>5. WorkIsRequested'
    <2>1. \A v : Requested(v)' = Requested(v)
      BY <1>2, RequestedStays
    <2>2. \A v \in WorkflowId : v # w => execution'[v] = execution[v] /\ starts'[v] = starts[v]
      BY <1>1 DEF ServeStart, TypeOK
    <2>3. starts'[w] = 1
      <3>1. CASE StartsExecution(w)
        <4>1. starts[w] = 0
          BY <3>1 DEF IInv, WorkIsRequested, StartsExecution
        <4> QED BY <1>1, <3>1, <4>1 DEF ServeStart, TypeOK
      <3>2. CASE ~StartsExecution(w)
        BY <1>1, <3>2 DEF ServeStart, IInv, WorkIsRequested, StartsExecution
      <3> QED BY <3>1, <3>2
    <2> QED BY <1>2, <1>4, <2>1, <2>2, <2>3 DEF IInv, WorkIsRequested
  <1>6. OffsetsInLog' /\ PositionsFollow'
    BY <1>2 DEF IInv, OffsetsInLog, PositionsFollow, InHand, AtCommitted
  <1>7. CommitIsEarned'
    <2>1. CurrentRecord' = CurrentRecord
      BY <1>2 DEF CurrentRecord
    <2>2. CASE pc = "starting"
      <3>1. CurrentRecord \in WorkflowId /\ IsRequest(current.topic, CurrentRecord)
        BY <1>1, <2>2, HandIsInLog, RequestIsWork DEF IInv, CommitIsEarned, InHand
      <3>2. reply' # "none" => execution'[CurrentRecord] # "absent"
        BY <1>3, <1>4, <2>2, <3>1 DEF ServeStart, IInv, CommitIsEarned
      <3> QED BY <1>2, <2>1, <2>2, <3>1, <3>2
              DEF CommitIsEarned, IsRequest, Intake!IsRequest
    <2>3. CASE pc = "committing"
      <3>1. IsRequest(current.topic, CurrentRecord) => CurrentRecord \in WorkflowId
        BY <1>1, <2>3, HandIsInLog, RequestIsWork DEF IInv, InHand
      <3> QED BY <1>2, <1>3, <2>1, <2>3, <3>1
              DEF IInv, CommitIsEarned, IsRequest, Intake!IsRequest
    <2> QED BY <1>2, <2>2, <2>3 DEF CommitIsEarned
  <1>8. NoRequestLost'
    BY <1>1, <1>2, <1>3, SettledStays DEF IInv
  <1> QED BY <1>1, <1>5, <1>6, <1>7, <1>8 DEF IInv

LEMMA FinishExecutionKeepsIInv ==
  ASSUME IInv, NEW w \in WorkflowId, FinishExecution(w)
  PROVE  IInv'
  <1> USE DEF kafkaVars, temporalVars
  <1>1. TypeOK /\ TypeOK'
    BY NextTypeOK DEF IInv, Next, Environment
  <1>2. UNCHANGED <<log, committed, starts, requests, position, current, pc, reply>>
    BY DEF FinishExecution
  <1>3. \A v \in WorkflowId : execution'[v] # "absent" <=> execution[v] # "absent"
    BY <1>1 DEF FinishExecution, TypeOK
  <1>4. WorkIsRequested'
    BY <1>2, <1>3, RequestedStays DEF IInv, WorkIsRequested
  <1>5. OffsetsInLog' /\ PositionsFollow'
    BY <1>2 DEF IInv, OffsetsInLog, PositionsFollow, InHand, AtCommitted
  <1>6. CommitIsEarned'
    <2>1. CurrentRecord' = CurrentRecord
      BY <1>2 DEF CurrentRecord
    <2>2. InHand /\ IsRequest(current.topic, CurrentRecord) => CurrentRecord \in WorkflowId
      BY <1>1, HandIsInLog, RequestIsWork DEF IInv
    <2> QED BY <1>2, <1>3, <2>1, <2>2
            DEF IInv, CommitIsEarned, InHand, IsRequest, Intake!IsRequest
  <1>7. NoRequestLost'
    BY <1>1, <1>2, <1>3, SettledStays DEF IInv
  <1> QED BY <1>1, <1>4, <1>5, <1>6, <1>7 DEF IInv

(* A step that touches neither Kafka nor the executions only has offsets   *)
(* and the record in hand to account for.                                  *)
LEMMA ConsumerStep ==
  ASSUME IInv, [Next]_vars, UNCHANGED <<log, committed, execution, starts>>
  PROVE  /\ TypeOK /\ TypeOK' /\ NoRequestLost'
         /\ requests' \subseteq requests => WorkIsRequested'
  <1>1. TypeOK /\ TypeOK'
    BY NextTypeOK DEF IInv
  <1>2. NoRequestLost'
    BY <1>1, SettledStays DEF IInv
  <1>3. ASSUME requests' \subseteq requests PROVE WorkIsRequested'
    BY <1>3, RequestedStays DEF IInv, WorkIsRequested
  <1> QED BY <1>1, <1>2, <1>3

LEMMA LoseRequestKeepsIInv ==
  ASSUME IInv, NEW w \in WorkflowId, LoseRequest(w)
  PROVE  IInv'
  <1>1. /\ UNCHANGED <<log, committed, execution, starts, position, current, pc, reply>>
        /\ requests' \subseteq requests
    BY DEF LoseRequest, kafkaVars, temporalVars
  <1>2. TypeOK' /\ WorkIsRequested' /\ NoRequestLost'
    BY <1>1, ConsumerStep DEF Next, Environment
  <1>3. OffsetsInLog' /\ PositionsFollow'
    BY <1>1 DEF IInv, OffsetsInLog, PositionsFollow, InHand, AtCommitted
  <1>4. CommitIsEarned'
    BY <1>1 DEF IInv, CommitIsEarned, CurrentRecord, IsRequest, Intake!IsRequest
  <1> QED BY <1>2, <1>3, <1>4 DEF IInv

LEMMA ConnectKeepsIInv ==
  ASSUME IInv, Connect \/ Rejoin
  PROVE  IInv'
  <1>1. /\ UNCHANGED <<log, committed, execution, starts, requests, current>>
        /\ position' = committed /\ pc' = "poll" /\ pc \in {"down", "poll"}
    BY DEF Connect, Rejoin, kafkaVars, temporalVars
  <1>2. TypeOK /\ TypeOK' /\ WorkIsRequested' /\ NoRequestLost'
    BY <1>1, ConsumerStep DEF Next, Consumer
  <1>3. OffsetsInLog'
    BY <1>1 DEF IInv, OffsetsInLog
  <1>4. PositionsFollow'
    <2>1. \A t \in Topic : AtCommitted(t)'
      BY <1>1, <1>2 DEF AtCommitted, TypeOK
    <2> QED BY <1>1, <2>1 DEF IInv, PositionsFollow, InHand
  <1>5. CommitIsEarned'
    BY <1>1 DEF CommitIsEarned
  <1> QED BY <1>2, <1>3, <1>4, <1>5 DEF IInv

(* poll() leaves the record it hands over in hand, its position one on.    *)
LEMMA TakeFollows ==
  ASSUME IInv, TypeOK', NEW t \in Topic, Take(t), pc' \in {"starting", "committing"},
         UNCHANGED <<log, committed>>
  PROVE  /\ OffsetsInLog' /\ PositionsFollow'
         /\ current'.topic = t /\ CurrentRecord' = log[t][position[t] + 1]
         /\ log[t][position[t] + 1] \in Record
  <1>1. /\ pc = "poll" /\ position[t] \in Nat /\ position[t] < Len(log[t])
        /\ current' = [topic |-> t, offset |-> position[t]]
        /\ position' = [position EXCEPT ![t] = position[t] + 1]
        /\ log[t] \in Seq(Record) /\ Len(log[t]) \in Nat
    BY DEF IInv, Take, TypeOK
  <1>2. \A u \in Topic : position'[u] = IF u = t THEN position[t] + 1 ELSE position[u]
    BY <1>1 DEF IInv, TypeOK
  <1>3. OffsetsInLog'
    BY <1>1, <1>2 DEF IInv, OffsetsInLog
  <1>4. \A u \in Topic : AtCommitted(u)
    BY <1>1 DEF IInv, PositionsFollow
  <1>5. committed[t] \in {position[t], position[t] + 1}
    BY <1>1, <1>4 DEF IInv, TypeOK, AtCommitted
  <1>6. PositionsFollow'
    BY <1>1, <1>2, <1>4, <1>5 DEF PositionsFollow, InHand, AtCommitted, Holding
  <1>7. CurrentRecord' = log[t][position[t] + 1]
    BY <1>1 DEF CurrentRecord
  <1>8. log[t][position[t] + 1] \in Record
    BY <1>1
  <1> QED BY <1>1, <1>3, <1>6, <1>7, <1>8

LEMMA PollRequestKeepsIInv ==
  ASSUME IInv, NEW t \in Topic, PollRequest(t)
  PROVE  IInv'
  <1> DEFINE record == log[t][position[t] + 1]
  <1>1. /\ UNCHANGED <<log, committed, execution, starts>>
        /\ Take(t) /\ pc' = "starting" /\ reply' = "none"
        /\ IsRequest(t, record) /\ requests' = requests \cup {record}
    BY DEF PollRequest, kafkaVars, temporalVars
  <1>2. TypeOK /\ TypeOK' /\ NoRequestLost'
    BY <1>1, ConsumerStep DEF Next, Consumer
  <1>3. /\ OffsetsInLog' /\ PositionsFollow'
        /\ current'.topic = t /\ CurrentRecord' = record /\ record \in Record
    BY <1>1, <1>2, TakeFollows
  <1>4. WorkIsRequested'
    <2>1. position[t] + 1 \in 1..Len(log[t])
      BY <1>1, <1>2 DEF Take, TypeOK
    <2>2. Requested(record)
      BY <1>1, <2>1 DEF Requested, Intake!Requested, IsRequest, Topic
    <2>3. \A w \in requests' : Requested(w)
      BY <1>1, <2>2 DEF IInv, WorkIsRequested
    <2>4. \A w : Requested(w)' = Requested(w)
      BY <1>1, RequestedStays
    <2> QED BY <1>1, <2>3, <2>4 DEF IInv, WorkIsRequested
  <1>5. CommitIsEarned'
    BY <1>1, <1>3 DEF CommitIsEarned, IsRequest, Intake!IsRequest
  <1> QED BY <1>2, <1>3, <1>4, <1>5 DEF IInv

LEMMA PollPoisonKeepsIInv ==
  ASSUME IInv, NEW t \in Topic, PollPoison(t)
  PROVE  IInv'
  <1>1. /\ UNCHANGED <<log, committed, execution, starts, requests>>
        /\ Take(t) /\ pc' = "committing"
        /\ ~IsRequest(t, log[t][position[t] + 1])
    BY DEF PollPoison, kafkaVars, temporalVars
  <1>2. TypeOK /\ TypeOK' /\ NoRequestLost' /\ WorkIsRequested'
    BY <1>1, ConsumerStep DEF Next, Consumer
  <1>3. /\ OffsetsInLog' /\ PositionsFollow'
        /\ current'.topic = t /\ CurrentRecord' = log[t][position[t] + 1]
    BY <1>1, <1>2, TakeFollows
  <1>4. CommitIsEarned'
    BY <1>1, <1>3 DEF CommitIsEarned, IsRequest, Intake!IsRequest
  <1> QED BY <1>2, <1>3, <1>4 DEF IInv

LEMMA StartAcceptedKeepsIInv ==
  ASSUME IInv, StartAccepted
  PROVE  IInv'
  <1>1. /\ UNCHANGED <<log, committed, execution, starts, requests, position, current>>
        /\ pc = "starting" /\ pc' = "committing" /\ reply # "none"
    BY DEF StartAccepted, kafkaVars, temporalVars
  <1>2. TypeOK' /\ WorkIsRequested' /\ NoRequestLost'
    BY <1>1, ConsumerStep DEF Next, Consumer
  <1>3. OffsetsInLog' /\ PositionsFollow'
    BY <1>1 DEF IInv, OffsetsInLog, PositionsFollow, InHand, AtCommitted
  <1>4. CommitIsEarned'
    BY <1>1 DEF IInv, CommitIsEarned, CurrentRecord
  <1> QED BY <1>2, <1>3, <1>4 DEF IInv

(* Seeking the record in hand puts its topic back at the committed offset, *)
(* or one behind it.                                                       *)
LEMMA SeekFollows ==
  ASSUME IInv, InHand, SeekCurrent, UNCHANGED log,
         committed' \in {committed, CommittedPast(current.topic, current.offset)}
  PROVE  /\ \A t \in Topic : AtCommitted(t)'
         /\ \A t \in Topic : committed'[t] <= Len(log[t]) /\ position'[t] <= Len(log[t])
  <1>1. /\ current.topic \in Topic
        /\ current.offset \in Nat
        /\ current.offset + 1 \in 1..Len(log[current.topic])
        /\ committed[current.topic] \in {current.offset, current.offset + 1}
        /\ \A t \in Topic \ {current.topic} : AtCommitted(t)
    BY HandIsInLog DEF IInv, PositionsFollow
  <1>2. \A t \in Topic : /\ committed[t] \in Nat /\ committed[t] <= Len(log[t])
                        /\ position[t] \in Nat /\ position[t] <= Len(log[t])
                        /\ Len(log[t]) \in Nat
    BY DEF IInv, OffsetsInLog, TypeOK
  <1>3. \A t \in Topic :
          /\ position'[t] = IF t = current.topic THEN current.offset ELSE position[t]
          /\ t # current.topic => committed'[t] = committed[t]
    BY DEF IInv, SeekCurrent, CommittedPast, TypeOK
  <1>4. committed'[current.topic] \in {current.offset, current.offset + 1}
    BY <1>1 DEF IInv, CommittedPast, TypeOK
  <1> QED BY <1>1, <1>2, <1>3, <1>4 DEF AtCommitted

(* A commit past the record in hand loses nothing: everything before it    *)
(* was committed, and it is settled itself.                                *)
LEMMA CommitLosesNothing ==
  ASSUME IInv, pc = "committing", UNCHANGED <<log, execution>>,
         committed' \in {committed, CommittedPast(current.topic, current.offset)}
  PROVE  /\ NoRequestLost'
         /\ \A t \in Topic : committed'[t] >= committed[t]
  <1>1. /\ current.topic \in Topic /\ current.offset \in Nat
        /\ committed[current.topic] \in {current.offset, current.offset + 1}
    BY HandIsInLog DEF IInv, PositionsFollow, InHand
  <1>2. \A t \in Topic : committed[t] \in Nat
    BY DEF IInv, TypeOK
  <1>3. \A t \in Topic : t # current.topic => committed'[t] = committed[t]
    BY DEF IInv, CommittedPast, TypeOK
  <1>4. committed'[current.topic] \in {committed[current.topic], current.offset + 1}
    BY <1>1 DEF IInv, CommittedPast, TypeOK
  <1>5. \A t \in Topic : committed'[t] >= committed[t]
    BY <1>1, <1>2, <1>3, <1>4
  <1>6. ASSUME NEW t \in Topic, NEW i \in 1..Len(log[t]),
               i <= committed'[t], IsRequest(t, log[t][i])
        PROVE  execution[log[t][i]] # "absent"
    <2>1. CASE i <= committed[t]
      BY <1>6, <2>1 DEF IInv, NoRequestLost
    <2>2. CASE ~(i <= committed[t])
      <3>1. t = current.topic /\ i = current.offset + 1
        BY <1>1, <1>2, <1>3, <1>4, <1>6, <2>2
      <3> QED BY <1>6, <3>1 DEF IInv, CommitIsEarned, CurrentRecord
    <2> QED BY <2>1, <2>2
  <1>7. NoRequestLost'
    BY <1>6 DEF NoRequestLost, IsRequest, Intake!IsRequest
  <1> QED BY <1>5, <1>7

LEMMA StartFailsKeepsIInv ==
  ASSUME IInv, StartFails
  PROVE  IInv'
  <1>1. /\ UNCHANGED <<log, committed, execution, starts, requests>>
        /\ pc = "starting" /\ pc' = "poll" /\ SeekCurrent /\ current' = NoRecord
    BY DEF StartFails, kafkaVars, temporalVars
  <1>2. TypeOK' /\ WorkIsRequested' /\ NoRequestLost'
    BY <1>1, ConsumerStep DEF Next, Consumer
  <1>3. /\ \A t \in Topic : AtCommitted(t)'
        /\ \A t \in Topic : committed'[t] <= Len(log[t]) /\ position'[t] <= Len(log[t])
    BY <1>1, SeekFollows DEF InHand
  <1>4. OffsetsInLog' /\ PositionsFollow' /\ CommitIsEarned'
    BY <1>1, <1>3 DEF OffsetsInLog, PositionsFollow, CommitIsEarned, InHand
  <1> QED BY <1>2, <1>4 DEF IInv

LEMMA CommitSucceedsKeepsIInv ==
  ASSUME IInv, CommitSucceeds
  PROVE  IInv'
  <1>1. /\ UNCHANGED <<log, execution, starts, requests, position>>
        /\ pc = "committing" /\ pc' = "poll" /\ current' = NoRecord
        /\ committed' = CommittedPast(current.topic, current.offset)
    BY DEF CommitSucceeds, temporalVars
  <1>2. TypeOK /\ TypeOK'
    BY NextTypeOK DEF IInv, Next, Consumer
  <1>3. WorkIsRequested'
    BY <1>1, RequestedStays DEF IInv, WorkIsRequested
  <1>4. NoRequestLost'
    BY <1>1, CommitLosesNothing
  <1>5. /\ current.topic \in Topic /\ current.offset \in Nat
        /\ current.offset + 1 <= Len(log[current.topic])
        /\ position[current.topic] = current.offset + 1
        /\ \A t \in Topic \ {current.topic} : AtCommitted(t)
    BY <1>1, <1>2, HandIsInLog DEF IInv, PositionsFollow, InHand
  <1>6. \A t \in Topic : committed'[t] = IF t = current.topic THEN current.offset + 1
                                                             ELSE committed[t]
    BY <1>1, <1>2 DEF CommittedPast, TypeOK
  <1>7. \A t \in Topic : AtCommitted(t)'
    BY <1>1, <1>5, <1>6 DEF AtCommitted
  <1>8. OffsetsInLog'
    BY <1>1, <1>5, <1>6 DEF IInv, OffsetsInLog
  <1>9. PositionsFollow' /\ CommitIsEarned'
    BY <1>1, <1>7 DEF PositionsFollow, CommitIsEarned, InHand
  <1> QED BY <1>2, <1>3, <1>4, <1>8, <1>9 DEF IInv

LEMMA CommitFailsKeepsIInv ==
  ASSUME IInv, CommitFails
  PROVE  IInv'
  <1>1. /\ UNCHANGED <<log, execution, starts, requests>>
        /\ pc = "committing" /\ pc' = "poll" /\ SeekCurrent /\ current' = NoRecord
        /\ committed' \in {committed, CommittedPast(current.topic, current.offset)}
    BY DEF CommitFails, temporalVars
  <1>2. TypeOK'
    BY NextTypeOK DEF IInv, Next, Consumer
  <1>3. WorkIsRequested'
    BY <1>1, RequestedStays DEF IInv, WorkIsRequested
  <1>4. NoRequestLost'
    BY <1>1, CommitLosesNothing
  <1>5. /\ \A t \in Topic : AtCommitted(t)'
        /\ \A t \in Topic : committed'[t] <= Len(log[t]) /\ position'[t] <= Len(log[t])
    BY <1>1, SeekFollows DEF InHand
  <1>6. OffsetsInLog' /\ PositionsFollow' /\ CommitIsEarned'
    BY <1>1, <1>5 DEF OffsetsInLog, PositionsFollow, CommitIsEarned, InHand
  <1> QED BY <1>2, <1>3, <1>4, <1>6 DEF IInv

LEMMA CrashKeepsIInv ==
  ASSUME IInv, Crash
  PROVE  IInv'
  <1>1. /\ UNCHANGED <<log, committed, execution, starts, requests, position>>
        /\ pc' = "down" /\ current' = NoRecord
    BY DEF Crash, kafkaVars, temporalVars
  <1>2. TypeOK' /\ WorkIsRequested' /\ NoRequestLost'
    BY <1>1, ConsumerStep DEF Next, Consumer
  <1>3. OffsetsInLog' /\ PositionsFollow' /\ CommitIsEarned'
    BY <1>1 DEF IInv, OffsetsInLog, PositionsFollow, CommitIsEarned, InHand
  <1> QED BY <1>2, <1>3 DEF IInv

LEMMA StutterKeepsIInv ==
  ASSUME IInv, UNCHANGED vars
  PROVE  IInv'
  <1>1. UNCHANGED <<log, committed, execution, starts, requests, position, current, pc, reply>>
    BY DEF vars, kafkaVars, temporalVars
  <1>2. TypeOK' /\ WorkIsRequested' /\ NoRequestLost'
    BY <1>1, ConsumerStep
  <1>3. OffsetsInLog' /\ PositionsFollow'
    BY <1>1 DEF IInv, OffsetsInLog, PositionsFollow, InHand, AtCommitted
  <1>4. CommitIsEarned'
    BY <1>1 DEF IInv, CommitIsEarned, CurrentRecord, IsRequest, Intake!IsRequest
  <1> QED BY <1>2, <1>3, <1>4 DEF IInv

LEMMA NextIInv == ASSUME IInv, [Next]_vars PROVE IInv'
  BY PublishKeepsIInv, ServeStartKeepsIInv, LoseRequestKeepsIInv, FinishExecutionKeepsIInv,
     ConnectKeepsIInv, PollRequestKeepsIInv, PollPoisonKeepsIInv, StartAcceptedKeepsIInv,
     StartFailsKeepsIInv, CommitSucceedsKeepsIInv, CommitFailsKeepsIInv, CrashKeepsIInv,
     StutterKeepsIInv
  DEF Next, Environment, Consumer

(* The conjunction of everything that ties the log, the offsets, the       *)
(* record in hand and the executions together is inductive.                *)
THEOREM Inductive == Spec => []IInv
  BY InitIInv, NextIInv, PTL DEF Spec

-----------------------------------------------------------------------------
(* The safety properties, for every set of events and every bound.         *)

(* No request at or below a committed offset is unknown to Temporal.       *)
THEOREM NothingIsLost == Spec => []NoRequestLost
  <1>1. IInv => NoRequestLost
    BY DEF IInv
  <1> QED BY <1>1, Inductive, PTL

(* A workflow id has at most one execution, and it was requested.          *)
THEOREM OneRequestedExecution == Spec => []AtMostOneExecution /\ []OnlyRequestedWork
  <1>1. IInv => AtMostOneExecution /\ OnlyRequestedWork
    BY DEF IInv, WorkIsRequested, AtMostOneExecution, OnlyRequestedWork
  <1> QED BY <1>1, Inductive, PTL

(* A process that is up is at most one record ahead of its commits.        *)
THEOREM StaysWithCommits == Spec => []NeverReadsAhead
  <1>1. ASSUME IInv, pc # "down", NEW t \in Topic
        PROVE  position[t] <= committed[t] + (IF current.topic = t THEN 1 ELSE 0)
    <2>1. committed[t] \in Nat /\ position[t] \in Nat
      BY <1>1 DEF IInv, TypeOK
    <2>2. CASE InHand /\ current.topic = t
      <3>1. /\ current.offset \in Nat /\ position[t] = current.offset + 1
            /\ committed[t] \in {current.offset, current.offset + 1}
        BY <1>1, <2>2, HandIsInLog DEF IInv, PositionsFollow
      <3> QED BY <2>1, <2>2, <3>1
    <2>3. CASE ~(InHand /\ current.topic = t)
      <3>1. AtCommitted(t)
        BY <1>1, <2>3 DEF IInv, TypeOK, PositionsFollow, InHand
      <3> QED BY <2>1, <3>1 DEF AtCommitted
    <2> QED BY <2>2, <2>3
  <1>2. IInv => NeverReadsAhead
    BY <1>1 DEF NeverReadsAhead
  <1> QED BY <1>2, Inductive, PTL

(* Only the two outcomes of a commit change a committed offset.            *)
LEMMA OnlyCommitsCommit ==
  ASSUME IInv, [Next]_vars
  PROVE  \/ UNCHANGED committed
         \/ /\ pc = "committing" /\ UNCHANGED <<log, execution>>
            /\ committed' = CommittedPast(current.topic, current.offset)
  BY DEF Next, Environment, Consumer, Publish, ServeStart, LoseRequest, FinishExecution,
         Connect, Rejoin, PollRequest, PollPoison, StartAccepted, StartFails, CommitSucceeds,
         CommitFails, Crash, vars, kafkaVars, temporalVars

(* No step moves a committed offset back.                                  *)
THEOREM CommitsAdvance == Spec => CommitsNeverRegress
  <1>1. ASSUME IInv, [Next]_vars
        PROVE  [\A t \in Topic : committed'[t] >= committed[t]]_vars
    <2>1. \A t \in Topic : committed[t] \in Nat
      BY <1>1 DEF IInv, TypeOK
    <2>2. CASE UNCHANGED committed
      BY <2>1, <2>2
    <2>3. CASE /\ pc = "committing" /\ UNCHANGED <<log, execution>>
               /\ committed' = CommittedPast(current.topic, current.offset)
      BY <1>1, <2>3, CommitLosesNothing
    <2> QED BY <1>1, <2>2, <2>3, OnlyCommitsCommit
  <1> QED BY <1>1, Inductive, PTL DEF Spec, CommitsNeverRegress

-----------------------------------------------------------------------------
(* Refinement: the consumer implements the abstract intake.                *)

LEMMA AcceptedIs ==
  ASSUME TypeOK
  PROVE  Accepted = {w \in WorkflowId : execution[w] # "absent"}
  BY DEF Accepted, TypeOK

LEMMA IntakeInit == Init => Intake!Init
  BY DEF Init, Intake!Init, Accepted, Topic, WorkflowId

(* Kafka, and which executions exist, alone are visible at the intake.     *)
LEMMA InvisibleStep ==
  ASSUME TypeOK, TypeOK', UNCHANGED <<log, committed>>,
         \A w \in WorkflowId : execution'[w] # "absent" <=> execution[w] # "absent"
  PROVE  UNCHANGED Intake!vars
  <1>1. Accepted' = Accepted
    BY AcceptedIs DEF Accepted, TypeOK
  <1> QED BY <1>1 DEF Intake!vars

LEMMA PublishIsPublish ==
  ASSUME IInv, NEW t \in Topic, NEW r \in Record, Publish(t, r)
  PROVE  Intake!Publish(t, r)
  BY DEF Publish, Intake!Publish, Accepted, temporalVars

(* Serving a request for an id Temporal does not know accepts the work;    *)
(* serving any other changes nothing that the intake shows.                *)
LEMMA ServeStartIsAccept ==
  ASSUME IInv, IInv', NEW w \in WorkflowId, ServeStart(w)
  PROVE  Intake!Accept(w) \/ UNCHANGED Intake!vars
  <1>1. TypeOK /\ TypeOK' /\ UNCHANGED <<log, committed>>
    BY DEF IInv, ServeStart, kafkaVars
  <1>2. CASE StartsExecution(w)
    <2>1. \A v \in WorkflowId : execution'[v] = IF v = w THEN "running" ELSE execution[v]
      BY <1>1, <1>2 DEF ServeStart, TypeOK
    <2>2. Accepted' = {v \in WorkflowId : execution'[v] # "absent"}
      BY <1>1 DEF Accepted, TypeOK
    <2>3. Accepted' = Accepted \cup {w}
      BY <1>1, <2>1, <2>2, AcceptedIs
    <2>4. w \notin Accepted
      BY <1>1, <1>2, AcceptedIs DEF StartsExecution
    <2>5. Requested(w)
      BY DEF IInv, WorkIsRequested, ServeStart
    <2> QED BY <1>1, <2>3, <2>4, <2>5 DEF Intake!Accept, Requested
  <1>3. CASE ~StartsExecution(w)
    BY <1>1, <1>3, InvisibleStep DEF ServeStart, temporalVars
  <1> QED BY <1>2, <1>3

(* A commit past the record in hand acknowledges that record, unless an    *)
(* earlier commit of it took effect unnoticed.                             *)
LEMMA CommitIsAcknowledge ==
  ASSUME IInv, IInv', pc = "committing", UNCHANGED <<log, execution>>,
         committed' = CommittedPast(current.topic, current.offset)
  PROVE  Intake!Acknowledge(current.topic) \/ UNCHANGED Intake!vars
  <1>1. /\ TypeOK /\ TypeOK'
        /\ current.topic \in Topic /\ current.offset \in Nat
        /\ current.offset + 1 \in 1..Len(log[current.topic])
        /\ CurrentRecord \in Record
        /\ committed[current.topic] \in {current.offset, current.offset + 1}
    BY HandIsInLog DEF IInv, PositionsFollow, InHand
  <1>2. CASE committed[current.topic] = current.offset
    <2>1. committed[current.topic] < Len(log[current.topic])
      BY <1>1, <1>2 DEF TypeOK
    <2>2. CurrentRecord = log[current.topic][committed[current.topic] + 1]
      BY <1>2 DEF CurrentRecord
    <2>3. IsRequest(current.topic, CurrentRecord) => CurrentRecord \in Accepted
      <3>1. ASSUME IsRequest(current.topic, CurrentRecord)
            PROVE  CurrentRecord \in WorkflowId /\ execution[CurrentRecord] # "absent"
        BY <1>1, <3>1, RequestIsWork DEF IInv, CommitIsEarned
      <3> QED BY <1>1, <3>1, AcceptedIs
    <2>4. committed' = [committed EXCEPT ![current.topic] = committed[current.topic] + 1]
      BY <1>2 DEF CommittedPast
    <2>5. Accepted' = Accepted
      BY DEF Accepted
    <2> QED BY <2>1, <2>2, <2>3, <2>4, <2>5 DEF Intake!Acknowledge, IsRequest
  <1>3. CASE committed[current.topic] = current.offset + 1
    <2>1. committed' = committed
      BY <1>1, <1>3 DEF CommittedPast, TypeOK
    <2> QED BY <1>1, <2>1, InvisibleStep
  <1> QED BY <1>1, <1>2, <1>3

(* Every step is a step of the intake or none at all.                      *)
LEMMA IntakeStep ==
  ASSUME IInv, IInv', [Next]_vars
  PROVE  [Intake!Next]_(Intake!vars)
  <1>1. TypeOK /\ TypeOK'
    BY DEF IInv
  <1>2. ASSUME NEW t \in Topic, NEW r \in Record, Publish(t, r)
        PROVE  Intake!Next
    BY <1>2, PublishIsPublish DEF Intake!Next, Topic, Record
  <1>3. ASSUME NEW w \in WorkflowId, ServeStart(w)
        PROVE  Intake!Next \/ UNCHANGED Intake!vars
    BY <1>3, ServeStartIsAccept DEF Intake!Next, WorkflowId
  <1>4. ASSUME NEW w \in WorkflowId, FinishExecution(w)
        PROVE  UNCHANGED Intake!vars
    <2>1. /\ UNCHANGED <<log, committed>>
          /\ \A v \in WorkflowId : execution'[v] # "absent" <=> execution[v] # "absent"
      BY <1>1, <1>4 DEF FinishExecution, kafkaVars, TypeOK
    <2> QED BY <1>1, <2>1, InvisibleStep
  <1>5. CASE CommitSucceeds \/ CommitFails
    <2>1. /\ pc = "committing" /\ UNCHANGED <<log, execution>>
          /\ committed' \in {committed, CommittedPast(current.topic, current.offset)}
      BY <1>5 DEF CommitSucceeds, CommitFails, temporalVars
    <2>2. current.topic \in Topic
      BY <1>1, <2>1, HandIsInLog DEF IInv, InHand
    <2>3. CASE committed' = committed
      BY <1>1, <2>1, <2>3, InvisibleStep
    <2>4. CASE committed' = CommittedPast(current.topic, current.offset)
      BY <2>1, <2>2, <2>4, CommitIsAcknowledge DEF Intake!Next, Topic
    <2> QED BY <2>1, <2>3, <2>4
  <1>6. CASE \/ \E w \in WorkflowId : LoseRequest(w)
             \/ Connect \/ Rejoin
             \/ \E t \in Topic : PollRequest(t) \/ PollPoison(t)
             \/ StartAccepted \/ StartFails \/ Crash
             \/ UNCHANGED vars
    <2>1. UNCHANGED <<log, committed, execution>>
      BY <1>6 DEF LoseRequest, Connect, Rejoin, PollRequest, PollPoison, StartAccepted,
                  StartFails, Crash, vars, kafkaVars, temporalVars
    <2> QED BY <1>1, <2>1, InvisibleStep
  <1> QED
    BY <1>2, <1>3, <1>4, <1>5, <1>6 DEF Next, Environment, Consumer

(* With its crashes, retries and lost commits the consumer does nothing    *)
(* that the abstract intake does not allow.                                *)
THEOREM Refinement == Spec => ImplementsIntake
  BY IntakeInit, IntakeStep, Inductive, PTL DEF Spec, ImplementsIntake, Intake!Spec
-----------------------------------------------------------------------------
(* The loop round the messages: ConsumerLoop's seconds pass in the same    *)
(* process, in variables of their own.                                     *)

(* The arithmetic of the loop.                                             *)
LEMMA Minus == \A a, b \in Nat : L!Less(a, b) \in Nat /\ L!Less(a, b) <= a /\ (a > b => L!Less(a, b) = a - b)
BY DEF L!Less

LEMMA Bounded == \A a, b \in Nat : L!Least(a, b) \in Nat /\ L!Least(a, b) <= a /\ L!Least(a, b) <= b
BY DEF L!Least

LEMMA Rounds ==
  ASSUME L!TimesAreNat
  PROVE  /\ L!LongestRound \in Nat /\ L!LongestRound >= 1
         /\ L!LongestRound >= StartTimeout + CommitTime
         /\ L!Less(HeartbeatInterval, 1) \in Nat
         /\ HeartbeatInterval > 0 => L!Less(HeartbeatInterval, 1) = HeartbeatInterval - 1
         /\ L!AgeCap \in Nat /\ ProbeTimeout \in Nat /\ HeartbeatInterval \in Nat
BY DEF L!TimesAreNat, L!LongestRound, L!Greatest, L!Less, L!AgeCap

(* Time passes for the heartbeat and for the next probe alike.             *)
LEMMA Passes ==
  ASSUME L!TimesAreNat, L!TypeOK, NEW s \in Nat, L!Elapse(s)
  PROVE  /\ age' \in 0..L!AgeCap /\ age' <= age + s
         /\ due' \in Nat /\ (due' > 0 => due' = due - s /\ due > 0)
         /\ due > 0 /\ age + due <= HeartbeatInterval /\ due' > 0 => age' + due' <= HeartbeatInterval
<1>1. age \in Nat /\ due \in Nat /\ L!AgeCap \in Nat
  BY Rounds DEF L!TypeOK
<1>2. age' = L!Least(age + s, L!AgeCap) /\ due' = L!Less(due, s)
  BY DEF L!Elapse
<1>3. age' \in Nat /\ age' <= age + s /\ age' <= L!AgeCap
  <2>1. age + s \in Nat
    BY <1>1
  <2>2. QED
    BY <1>1, <1>2, <2>1, Bounded
<1>4. due' \in Nat /\ (due' > 0 => due' = due - s /\ due > 0)
  BY <1>1, <1>2 DEF L!Less
<1>5. QED
  BY <1>1, <1>3, <1>4, Rounds

LEMMA InitHeartbeat == ASSUME L!TimesAreNat, L!Init PROVE L!HeartbeatInv
<1>1. call = "connect" /\ ~signalled /\ ~stop /\ ~ready /\ reachable /\ ~outage
  BY DEF L!Init
<1>2. due = 0 /\ age = 0 /\ outages = 0
  BY DEF L!Init
<1>3. due \in Nat /\ age \in 0..L!AgeCap /\ outages \in 0..MaxOutages
  BY <1>2, Rounds DEF L!TimesAreNat
<1>4. {signalled, stop, ready, reachable, outage} \subseteq BOOLEAN
  BY DEF L!Init
<1>5. L!TypeOK
  BY <1>1, <1>3, <1>4 DEF L!TypeOK, L!Suspending
<1>6. QED
  BY <1>1, <1>5 DEF L!HeartbeatInv

(* A call that only takes time leaves the heartbeat where the call may     *)
(* leave it.                                                               *)
LEMMA CallStep ==
  ASSUME L!TimesAreNat, L!HeartbeatInv, NEW s \in Nat, L!Elapse(s),
         UNCHANGED <<signalled, stop, ready, L!environment>>,
         call' \in {"head", "commit", "sleep"},
         call' = "sleep" => outage,
         ready /\ ~outage /\ call' = "head" =>
           age + s <= L!Less(HeartbeatInterval, 1) + L!LongestRound,
         ready /\ ~outage /\ call' = "commit" =>
           age + s <= L!Less(HeartbeatInterval, 1) + StartTimeout
  PROVE  L!HeartbeatInv'
<1>1. L!TypeOK /\ age \in Nat
  BY Rounds DEF L!HeartbeatInv, L!TypeOK
<1>2. /\ age' \in 0..L!AgeCap /\ age' \in Nat /\ age' <= age + s
      /\ due' \in Nat /\ (due' > 0 => due' = due - s /\ due > 0)
      /\ due > 0 /\ age + due <= HeartbeatInterval /\ due' > 0 => age' + due' <= HeartbeatInterval
  BY <1>1, Passes, Rounds
<1>3. L!TypeOK'
  <2>1. {signalled', stop', ready', reachable', outage'} \subseteq BOOLEAN
    BY <1>1 DEF L!TypeOK, L!environment
  <2>2. QED
    BY <1>1, <1>2, <2>1 DEF L!TypeOK, L!environment, L!Suspending, L!Blocking
<1>4. ASSUME ready', ~outage'
      PROVE  /\ due' > 0 => age' + due' <= HeartbeatInterval
             /\ call' = "commit" => age' <= L!Less(HeartbeatInterval, 1) + StartTimeout
             /\ age' <= L!Less(HeartbeatInterval, 1) + L!LongestRound
  <2>1. ready /\ ~outage
    BY <1>4 DEF L!environment
  <2>2. due > 0 => age + due <= HeartbeatInterval
    BY <2>1 DEF L!HeartbeatInv
  <2>3. StartTimeout \in Nat /\ StartTimeout <= L!LongestRound
    BY Rounds DEF L!TimesAreNat
  <2>4. QED
    BY <1>1, <1>2, <2>1, <2>2, <2>3, Rounds
<1>5. QED
  BY <1>3, <1>4 DEF L!HeartbeatInv, L!environment

(* A step that takes no time may change the process's course and what is   *)
(* known of the broker.                                                    *)
LEMMA InstantStep ==
  ASSUME L!TimesAreNat, L!HeartbeatInv, UNCHANGED <<ready, due, age>>,
         call' \in L!Suspending \cup L!Blocking \cup {"head"} \cup L!Ended,
         {signalled, stop, reachable, outage}' \subseteq BOOLEAN, outages' \in 0..MaxOutages,
         outage => outage', ~reachable' => outage',
         call' \notin {"connect", "sleep"} \/ call' = call,
         call' = "poll" => call = "poll" \/ (call = "head" /\ due > 0),
         call' \in {"start", "commit"} => call \in {"poll", call'}
  PROVE  L!HeartbeatInv'
<1>1. L!TypeOK'
  BY DEF L!HeartbeatInv, L!TypeOK
<1>2. ASSUME ready', ~outage'
      PROVE  /\ due' > 0 => age' + due' <= HeartbeatInterval
             /\ call' \in {"poll", "start"} => age' <= L!Less(HeartbeatInterval, 1)
             /\ call' = "commit" => age' <= L!Less(HeartbeatInterval, 1) + StartTimeout
             /\ age' <= L!Less(HeartbeatInterval, 1) + L!LongestRound
  <2>1. ready /\ ~outage
    BY <1>2
  <2>2. /\ due > 0 => age + due <= HeartbeatInterval
        /\ call \in {"poll", "start"} => age <= L!Less(HeartbeatInterval, 1)
        /\ call = "commit" => age <= L!Less(HeartbeatInterval, 1) + StartTimeout
        /\ age <= L!Less(HeartbeatInterval, 1) + L!LongestRound
    BY <2>1 DEF L!HeartbeatInv
  <2>3. age \in Nat /\ due \in Nat /\ StartTimeout \in Nat
    BY Rounds DEF L!HeartbeatInv, L!TypeOK, L!TimesAreNat
  <2>4. call = "head" /\ due > 0 => age <= L!Less(HeartbeatInterval, 1)
    BY <2>2, <2>3, Rounds
  <2>5. QED
    BY <2>2, <2>3, <2>4, Rounds
<1>3. QED
  BY <1>1, <1>2 DEF L!HeartbeatInv

(* A successful probe touches the heartbeat.                               *)
LEMMA ProbeStep ==
  ASSUME L!TimesAreNat, L!HeartbeatInv, NEW s \in 0..ProbeTimeout, L!ProbeSucceeds(s)
  PROVE  L!HeartbeatInv'
<1>1. /\ call' = "poll" /\ reachable /\ ready' = TRUE /\ age' = 0 /\ outage' = FALSE
      /\ due' = L!Less(HeartbeatInterval, s)
      /\ UNCHANGED <<signalled, stop, reachable, outages>>
  BY DEF L!ProbeSucceeds, L!Goto, L!NextProbe
<1>2. s \in Nat /\ due' \in Nat /\ due' <= HeartbeatInterval
  BY <1>1, Minus, Rounds
<1>3. L!TypeOK'
  <2>1. {signalled', stop', ready', reachable', outage'} \subseteq BOOLEAN
    BY <1>1 DEF L!HeartbeatInv, L!TypeOK
  <2>2. outages' \in 0..MaxOutages
    BY <1>1 DEF L!HeartbeatInv, L!TypeOK
  <2>3. age' \in 0..L!AgeCap
    BY <1>1, Rounds
  <2>4. QED
    BY <1>1, <1>2, <2>1, <2>2, <2>3 DEF L!TypeOK, L!Blocking
<1>4. QED
  BY <1>1, <1>2, <1>3, Rounds DEF L!HeartbeatInv

LEMMA NextHeartbeat == ASSUME L!TimesAreNat, L!HeartbeatInv, [L!Next]_L!vars PROVE L!HeartbeatInv'
<1>1. /\ age \in Nat /\ due \in Nat /\ StartTimeout \in Nat /\ CommitTime \in Nat
      /\ outages \in Nat /\ MaxOutages \in Nat /\ outages <= MaxOutages
      /\ {signalled, stop, ready, reachable, outage} \subseteq BOOLEAN
      /\ call \in L!Suspending \cup L!Blocking \cup {"head"} \cup L!Ended
  BY Rounds DEF L!HeartbeatInv, L!TypeOK, L!TimesAreNat
<1>2. ready /\ ~outage =>
        /\ due > 0 => age + due <= HeartbeatInterval
        /\ call \in {"poll", "start"} => age <= L!Less(HeartbeatInterval, 1)
        /\ call = "commit" => age <= L!Less(HeartbeatInterval, 1) + StartTimeout
  BY DEF L!HeartbeatInv
<1>3. CASE L!Connect \/ L!LoopHead \/ L!PollRecord \/ L!ConnectFails
  <2>1. UNCHANGED <<signalled, stop, ready, due, age, reachable, outages, outage>>
    BY <1>3 DEF L!Connect, L!LoopHead, L!PollRecord, L!ConnectFails, L!environment
  <2>2. /\ call' \in {"head", "closed", "probe", "poll", "commit", "start", "exited"}
        /\ call' = "poll" => call = "head" /\ due > 0
        /\ call' \in {"start", "commit"} => call = "poll"
    BY <1>1, <1>3 DEF L!Connect, L!LoopHead, L!PollRecord, L!ConnectFails, L!Goto
  <2>3. {signalled, stop, reachable, outage}' \subseteq BOOLEAN
    BY <1>1, <2>1
  <2>4. outages' \in 0..MaxOutages
    BY <1>1, <2>1
  <2>5. (outage => outage') /\ (~reachable' => outage')
    BY <2>1 DEF L!HeartbeatInv
  <2>6. call' \in L!Suspending \cup L!Blocking \cup {"head"} \cup L!Ended
    BY <2>2 DEF L!Suspending, L!Blocking, L!Ended
  <2>7. call' \notin {"connect", "sleep"}
    BY <2>2
  <2>8. /\ UNCHANGED <<ready, due, age>>
        /\ call' = "poll" => call = "poll" \/ (call = "head" /\ due > 0)
        /\ call' \in {"start", "commit"} => call \in {"poll", call'}
        /\ call' \notin {"connect", "sleep"} \/ call' = call
    BY <2>1, <2>2, <2>7
  <2>9. QED
    BY <2>3, <2>4, <2>5, <2>6, <2>8, InstantStep
<1>4. CASE L!Signal \/ L!HandleSignal \/ L!BrokerLost \/ L!BrokerBack \/ UNCHANGED L!vars
  <2>1. UNCHANGED <<call, ready, due, age>>
    BY <1>4 DEF L!Signal, L!HandleSignal, L!BrokerLost, L!BrokerBack, L!vars, L!environment
  <2>2. {signalled, stop, reachable, outage}' \subseteq BOOLEAN
    BY <1>1, <1>4 DEF L!Signal, L!HandleSignal, L!BrokerLost, L!BrokerBack, L!vars, L!environment
  <2>3. outages' \in 0..MaxOutages
    BY <1>1, <1>4 DEF L!Signal, L!HandleSignal, L!BrokerLost, L!BrokerBack, L!vars, L!environment
  <2>4. (outage => outage') /\ (~reachable' => outage')
    BY <1>4 DEF L!Signal, L!HandleSignal, L!BrokerLost, L!BrokerBack, L!vars, L!environment, L!HeartbeatInv
  <2>5. QED
    BY <1>1, <2>1, <2>2, <2>3, <2>4, InstantStep
<1>5. CASE \E s \in 0..ProbeTimeout : L!ProbeSucceeds(s)
  BY <1>5, ProbeStep
<1>6. CASE L!ProbeFails
  <2>1. outage /\ L!Elapse(ProbeTimeout) /\ call' = "sleep" /\ UNCHANGED <<signalled, stop, ready, L!environment>>
    BY <1>6 DEF L!ProbeFails, L!HeartbeatInv, L!Goto
  <2>2. QED
    BY <2>1, CallStep, Rounds
<1>7. CASE L!Sleep
  <2>1. outage /\ L!Elapse(1) /\ call' = "head" /\ UNCHANGED <<signalled, stop, ready, L!environment>>
    BY <1>7 DEF L!Sleep, L!HeartbeatInv, L!Goto
  <2>2. QED
    BY <2>1, CallStep
<1>8. ASSUME NEW s \in 0..1, L!PollNothing(s) PROVE L!HeartbeatInv'
  <2>1. /\ call = "poll" /\ L!Elapse(s) /\ call' = "head" /\ s \in Nat /\ s <= 1
        /\ UNCHANGED <<signalled, stop, ready, L!environment>>
    BY <1>8 DEF L!PollNothing, L!Goto
  <2>2. ready /\ ~outage => age + s <= L!Less(HeartbeatInterval, 1) + L!LongestRound
    BY <1>1, <1>2, <2>1, Rounds
  <2>3. QED
    BY <2>1, <2>2, CallStep
<1>9. ASSUME NEW s \in 0..StartTimeout, L!StartReturns(s) PROVE L!HeartbeatInv'
  <2>1. /\ call = "start" /\ L!Elapse(s) /\ call' \in {"commit", "head"} /\ s \in Nat /\ s <= StartTimeout
        /\ UNCHANGED <<signalled, stop, ready, L!environment>>
    BY <1>1, <1>9 DEF L!StartReturns
  <2>2. ready /\ ~outage => /\ age + s <= L!Less(HeartbeatInterval, 1) + StartTimeout
                            /\ age + s <= L!Less(HeartbeatInterval, 1) + L!LongestRound
    BY <1>1, <1>2, <2>1, Rounds
  <2>3. QED
    BY <2>1, <2>2, CallStep
<1>10. ASSUME NEW s \in 0..CommitTime, L!Commit(s) PROVE L!HeartbeatInv'
  <2>1. /\ call = "commit" /\ L!Elapse(s) /\ call' = "head" /\ s \in Nat /\ s <= CommitTime
        /\ UNCHANGED <<signalled, stop, ready, L!environment>>
    BY <1>1, <1>10 DEF L!Commit, L!Goto
  <2>2. ready /\ ~outage => age + s <= L!Less(HeartbeatInterval, 1) + L!LongestRound
    BY <1>1, <1>2, <2>1, Rounds
  <2>3. QED
    BY <2>1, <2>2, CallStep
<1>11. QED
  BY <1>3, <1>4, <1>5, <1>6, <1>7, <1>8, <1>9, <1>10 DEF L!Next, L!LoopStep

(* The healthcheck never finds a stale heartbeat while the broker answers, *)
(* for every choice of intervals and timeouts of which one round fits into *)
(* the window (events/consumer.py:215-240, compose.yaml's healthcheck).    *)
THEOREM HeartbeatIsFresh == L!Spec => []HealthyWhileBrokerAnswers
<1>1. L!Init => L!HeartbeatInv
  BY LoopTimes, InitHeartbeat
<1>2. L!HeartbeatInv /\ [L!Next]_L!vars => L!HeartbeatInv'
  BY LoopTimes, NextHeartbeat
<1>3. L!HeartbeatInv => HealthyWhileBrokerAnswers
  <2>1. ASSUME L!HeartbeatInv, ready, ~outage PROVE age + L!LastCall < HealthWindow
    <3>1. age <= L!Less(HeartbeatInterval, 1) + L!LongestRound /\ age \in Nat
      BY <2>1, LoopTimes, Rounds DEF L!HeartbeatInv, L!TypeOK
    <3>2. L!LastCall \in Nat /\ L!LastCall <= ProbeTimeout
      BY LoopTimes, Rounds DEF L!LastCall
    <3>3. QED
      BY <3>1, <3>2, LoopTimes, Rounds DEF L!RoundFitsWindow, L!TimesAreNat
  <2>2. QED
    BY <2>1 DEF HealthyWhileBrokerAnswers, L!HeartbeatInv, L!HealthyWhileBrokerAnswers
<1>4. QED
  BY <1>1, <1>2, <1>3, PTL DEF L!Spec
=============================================================================
