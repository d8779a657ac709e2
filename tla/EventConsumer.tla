--------------------------- MODULE EventConsumer ---------------------------
(***************************************************************************)
(* events/consumer.py: the process that polls the two Kafka request        *)
(* topics, asks Temporal to start one workflow per valid request, and      *)
(* commits the offset of a record only when that record is settled.        *)
(*                                                                         *)
(* Three parties act: the consumer process (volatile: position, current,   *)
(* pc, reply), the Kafka broker (log, committed), and the Temporal server  *)
(* with the network to it (execution, requests).  The process can die      *)
(* between any two steps, a start request can be lost, served late or      *)
(* served twice, and a commit can be refused or take effect without the    *)
(* consumer learning so.                                                   *)
(***************************************************************************)
EXTENDS Naturals, Sequences

CONSTANTS
  RenderTopic, DeploymentTopic, EventId,
  MaxLog,           \* bound: records published
  MaxCrash          \* bound: deaths of the consumer process

ASSUME TopicsAreDistinct == RenderTopic # DeploymentTopic
ASSUME BoundsAreNat == MaxLog \in Nat /\ MaxCrash \in Nat

VARIABLES
  log,         \* per topic, the records in Kafka
  committed,   \* per topic, the group's committed offset: the next one to read
  execution,   \* per workflow id, what Temporal retains of it
  starts,      \* history: how many executions each workflow id ever had
  requests,    \* start requests on their way to Temporal
  position,    \* per topic, the next offset poll() returns
  current,     \* the record in hand, or NoRecord
  pc,          \* what process_message is doing
  reply,       \* Temporal's answer to the request being awaited
  crashes      \* bounded count of process deaths

kafkaVars    == <<log, committed>>
temporalVars == <<execution, starts>>
vars == <<kafkaVars, temporalVars, requests, position, current, pc, reply, crashes>>

Accepted == {w \in DOMAIN execution : execution[w] # "absent"}

(* The promise this module implements; it also lends its vocabulary.       *)
Intake == INSTANCE RequestIntake WITH acknowledged <- committed, accepted <- Accepted

Topic        == Intake!Topic
WorkflowId   == Intake!WorkflowId
Record       == Intake!Record
Requested(w) == Intake!Requested(w)

(* Mutant: whatever parses is taken for a request of the topic it is on.   *)
AnyParsed(t, r) == r.type # "malformed"
IsRequest(t, r) == Intake!IsRequest(t, r)

NoRecord == [topic |-> "none", offset |-> 0]
Holding  == [topic : Topic, offset : Nat]
CurrentRecord == log[current.topic][current.offset + 1]

TypeOK ==
  /\ log \in [Topic -> Seq(Record)]
  /\ committed \in [Topic -> Nat]
  /\ execution \in [WorkflowId -> {"absent", "running", "closed"}]
  /\ starts \in [WorkflowId -> Nat]
  /\ requests \subseteq WorkflowId
  /\ position \in [Topic -> Nat]
  /\ current \in Holding \cup {NoRecord}
  /\ pc \in {"down", "poll", "starting", "committing"}
  /\ reply \in {"none", "started", "already_started"}
  /\ crashes \in Nat

Init ==
  /\ log = [t \in Topic |-> <<>>]
  /\ committed = [t \in Topic |-> 0]
  /\ execution = [w \in WorkflowId |-> "absent"]
  /\ starts = [w \in WorkflowId |-> 0]
  /\ requests = {}
  /\ position = [t \in Topic |-> 0]
  /\ current = NoRecord
  /\ pc = "down"
  /\ reply = "none"
  /\ crashes = 0

-----------------------------------------------------------------------------
(* Producers and the Temporal service.                                     *)

(* Anything may be appended to a request topic: the same event again, a    *)
(* payload that belongs on the other topic, bytes that do not parse.       *)
Publish(t, record) ==
  /\ Len(log[RenderTopic]) + Len(log[DeploymentTopic]) < MaxLog
  /\ log' = [log EXCEPT ![t] = Append(@, record)]
  /\ UNCHANGED <<committed, temporalVars, requests, position, current, pc, reply, crashes>>

(* USE_EXISTING answers a running id with the run it has; REJECT_DUPLICATE *)
(* refuses an id whose run is closed.                                      *)
StartReply(w) == IF execution[w] = "closed" THEN "already_started" ELSE "started"

(* Mutant: ALLOW_DUPLICATE, a closed id may run again.                     *)
StartsUnlessRunning(w) == execution[w] # "running"

(* Only an id Temporal has never seen gets an execution.                   *)
StartsExecution(w) == execution[w] = "absent"

(* Temporal serves a start request.  The client library may have sent it   *)
(* twice, so it can be served again; the answer goes to the consumer only  *)
(* if it still waits for this workflow.                                    *)
ServeStart(w) ==
  /\ w \in requests
  /\ \E again \in BOOLEAN : requests' = IF again THEN requests ELSE requests \ {w}
  /\ IF StartsExecution(w)
       THEN /\ execution' = [execution EXCEPT ![w] = "running"]
            /\ starts' = [starts EXCEPT ![w] = @ + 1]
       ELSE UNCHANGED temporalVars
  /\ reply' = IF pc = "starting" /\ CurrentRecord = w THEN StartReply(w) ELSE reply
  /\ UNCHANGED <<kafkaVars, position, current, pc, crashes>>

LoseRequest(w) ==
  /\ w \in requests
  /\ requests' = requests \ {w}
  /\ UNCHANGED <<kafkaVars, temporalVars, position, current, pc, reply, crashes>>

FinishExecution(w) ==
  /\ execution[w] = "running"
  /\ execution' = [execution EXCEPT ![w] = "closed"]
  /\ UNCHANGED <<kafkaVars, starts, requests, position, current, pc, reply, crashes>>

-----------------------------------------------------------------------------
(* The consumer process.                                                   *)

(* A process that starts, or a member that rejoins its group, reads from   *)
(* the committed offsets (auto.offset.reset=earliest when there are none). *)
Connect ==
  /\ pc = "down"
  /\ pc' = "poll"
  /\ position' = committed
  /\ UNCHANGED <<kafkaVars, temporalVars, requests, current, reply, crashes>>

Rejoin ==
  /\ pc = "poll"
  /\ position' = committed
  /\ UNCHANGED <<kafkaVars, temporalVars, requests, current, pc, reply, crashes>>

(* poll() hands over the next record of some topic and moves on.           *)
Take(t) ==
  /\ pc = "poll"
  /\ position[t] < Len(log[t])
  /\ current' = [topic |-> t, offset |-> position[t]]
  /\ position' = [position EXCEPT ![t] = @ + 1]

(* A valid request is sent to Temporal under the id derived from it.       *)
PollRequest(t) ==
  /\ Take(t)
  /\ LET record == log[t][position[t] + 1]
     IN  /\ IsRequest(t, record)
         /\ requests' = requests \cup {record}
  /\ pc' = "starting"
  /\ reply' = "none"
  /\ UNCHANGED <<kafkaVars, temporalVars, crashes>>

(* Mutant: poison is sought back like a failed start.                      *)
PoisonIsSought(t) ==
  /\ pc = "poll"
  /\ position[t] < Len(log[t])
  /\ ~IsRequest(t, log[t][position[t] + 1])
  /\ UNCHANGED vars

(* Poison is logged and goes straight to the commit.                       *)
PollPoison(t) ==
  /\ Take(t)
  /\ ~IsRequest(t, log[t][position[t] + 1])
  /\ pc' = "committing"
  /\ UNCHANGED <<kafkaVars, temporalVars, requests, reply, crashes>>

(* Started, or WorkflowAlreadyStartedError: either way it is Temporal's.   *)
StartAccepted ==
  /\ pc = "starting"
  /\ reply # "none"
  /\ pc' = "committing"
  /\ UNCHANGED <<kafkaVars, temporalVars, requests, position, current, reply, crashes>>

(* Mutants: no seek at all, and a seek to the beginning of the partition.  *)
NoSeek   == UNCHANGED position
SeekZero == position' = [position EXCEPT ![current.topic] = 0]

(* consumer.seek(_position(message)): the exact record comes back next.    *)
SeekCurrent == position' = [position EXCEPT ![current.topic] = current.offset]

(* Mutant: the except branch falls through to the commit.                  *)
FailureFallsThrough ==
  /\ pc = "starting"
  /\ pc' = "committing"
  /\ UNCHANGED <<kafkaVars, temporalVars, requests, position, current, reply, crashes>>

(* Any other exception, the 10 s rpc_timeout and a lost answer included.   *)
StartFails ==
  /\ pc = "starting"
  /\ SeekCurrent
  /\ current' = NoRecord
  /\ pc' = "poll"
  /\ UNCHANGED <<kafkaVars, temporalVars, requests, reply, crashes>>

CommittedPast(topic, offset) == [committed EXCEPT ![topic] = offset + 1]

CommitSucceeds ==
  /\ pc = "committing"
  /\ committed' = CommittedPast(current.topic, current.offset)
  /\ current' = NoRecord
  /\ pc' = "poll"
  /\ UNCHANGED <<log, temporalVars, requests, position, reply, crashes>>

(* The commit raised or a partition carried an error: the broker may or    *)
(* may not have stored the offset, and the record is read again.           *)
CommitFails ==
  /\ pc = "committing"
  /\ committed' \in {committed, CommittedPast(current.topic, current.offset)}
  /\ SeekCurrent
  /\ current' = NoRecord
  /\ pc' = "poll"
  /\ UNCHANGED <<log, temporalVars, requests, reply, crashes>>

(* The process ends: killed, an exception out of seek(), or a graceful     *)
(* close, which commits nothing (enable.auto.commit is off).  Docker       *)
(* restarts it, which is Connect.                                          *)
Crash ==
  /\ pc # "down"
  /\ crashes < MaxCrash
  /\ crashes' = crashes + 1
  /\ pc' = "down"
  /\ current' = NoRecord
  /\ UNCHANGED <<kafkaVars, temporalVars, requests, position, reply>>

-----------------------------------------------------------------------------
Environment ==
  \/ \E t \in Topic, record \in Record : Publish(t, record)
  \/ \E w \in WorkflowId : ServeStart(w) \/ LoseRequest(w) \/ FinishExecution(w)

Consumer ==
  \/ Connect
  \/ Rejoin
  \/ \E t \in Topic : PollRequest(t) \/ PollPoison(t)
  \/ StartAccepted
  \/ StartFails
  \/ CommitSucceeds
  \/ CommitFails
  \/ Crash

Next == Environment \/ Consumer

Spec == Init /\ [][Next]_vars

(* Temporal answers the request the consumer is waiting for.               *)
AnswerStart(w) == pc = "starting" /\ CurrentRecord = w /\ ServeStart(w)

(***************************************************************************)
(* Every failing alternative may repeat any finite number of times, but    *)
(* Docker restarts the process (restart: unless-stopped), the start call   *)
(* returns (rpc_timeout), librdkafka serves every topic with data, and     *)
(* Temporal and the broker accept a call that is repeated for ever.        *)
(***************************************************************************)
Fairness ==
  /\ WF_vars(Connect)
  /\ WF_vars(StartFails)
  /\ \A t \in Topic : SF_vars(PollRequest(t) \/ PollPoison(t))
  /\ \A w \in WorkflowId : SF_vars(AnswerStart(w))
  /\ SF_vars(StartAccepted)
  /\ SF_vars(CommitSucceeds)

FairSpec == Spec /\ Fairness

-----------------------------------------------------------------------------
(* Safety.                                                                 *)

(* A committed offset covers every record below it, so a request whose     *)
(* start failed must stop all commits after it on its topic: no request    *)
(* at or below the committed offset is unknown to Temporal, whatever was   *)
(* lost, refused or crashed (consumer.py:140-164, 52-73).                  *)
NoRequestLost ==
  \A t \in Topic : \A i \in 1..Len(log[t]) :
    i <= committed[t] /\ IsRequest(t, log[t][i]) => execution[log[t][i]] # "absent"

(* However often a request is published, retried, served twice or read     *)
(* again after a crash, its workflow id has one execution                  *)
(* (consumer.py:133-139).                                                  *)
AtMostOneExecution == \A w \in WorkflowId : starts[w] <= 1

(* Temporal runs only what a producer asked for on the topic of its type:  *)
(* poison and cross-topic payloads never start work (consumer.py:88-124).  *)
OnlyRequestedWork == \A w \in WorkflowId : starts[w] > 0 => Requested(w)

(* While the process is up, it never reads ahead of a record that is not   *)
(* settled: each topic's position is at most the committed offset, plus    *)
(* the one record in hand (consumer.py:58, 141).                           *)
NeverReadsAhead ==
  pc # "down" =>
    \A t \in Topic : position[t] <= committed[t] + (IF current.topic = t THEN 1 ELSE 0)

(* A committed offset never moves back, even when a record whose commit    *)
(* took effect unnoticed is processed and committed again                  *)
(* (consumer.py:54-58).                                                    *)
CommitsNeverRegress == [][\A t \in Topic : committed'[t] >= committed[t]]_vars

(* The consumer with its crashes and retries does nothing that the         *)
(* abstract intake does not allow.                                         *)
ImplementsIntake == Intake!Spec

-----------------------------------------------------------------------------
(***************************************************************************)
(* The inductive invariant behind the safety properties.                   *)
(***************************************************************************)

InHand == pc \in {"starting", "committing"}

(* Temporal and the network to it hold only requested work, and count it   *)
(* once.                                                                   *)
WorkIsRequested ==
  /\ \A w \in requests : Requested(w)
  /\ \A w \in WorkflowId : execution[w] # "absent" => Requested(w)
  /\ \A w \in WorkflowId : starts[w] = IF execution[w] = "absent" THEN 0 ELSE 1

OffsetsInLog ==
  \A t \in Topic : committed[t] <= Len(log[t]) /\ position[t] <= Len(log[t])

(* A position is the committed offset, or one behind it after a commit     *)
(* that took effect unnoticed.                                             *)
AtCommitted(t) == position[t] <= committed[t] /\ committed[t] <= position[t] + 1

PositionsFollow ==
  /\ pc \in {"down", "poll"} => current = NoRecord
  /\ pc = "poll" => \A t \in Topic : AtCommitted(t)
  /\ InHand => /\ current \in Holding
               /\ current.offset < Len(log[current.topic])
               /\ position[current.topic] = current.offset + 1
               /\ committed[current.topic] \in {current.offset, current.offset + 1}
               /\ \A t \in Topic \ {current.topic} : AtCommitted(t)

(* The record in hand is settled, or about to be, before its commit.       *)
CommitIsEarned ==
  /\ pc = "starting" => /\ IsRequest(current.topic, CurrentRecord)
                        /\ reply # "none" => execution[CurrentRecord] # "absent"
  /\ pc = "committing" =>
       (IsRequest(current.topic, CurrentRecord) => execution[CurrentRecord] # "absent")

IInv ==
  /\ TypeOK
  /\ WorkIsRequested
  /\ OffsetsInLog
  /\ PositionsFollow
  /\ CommitIsEarned
  /\ NoRequestLost

-----------------------------------------------------------------------------
(* Liveness.                                                               *)

(* Every published record, poison or not, is eventually committed past;    *)
(* with NoRequestLost, every valid request is eventually Temporal's.       *)
(* A poison record or a failing one never blocks its topic for ever        *)
(* (consumer.py:124, 141, 187).                                            *)
EveryRecordSettled ==
  \A t \in Topic : \A i \in 1..MaxLog : Len(log[t]) >= i ~> committed[t] >= i
=============================================================================
