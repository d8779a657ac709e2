------------------------------- MODULE Bridge -------------------------------
(* The bridge's messages, or its loop in seconds: EventConsumer and         *)
(* ConsumerLoop look at the same process and share no variable.             *)
EXTENDS EventConsumer

CONSTANTS HeartbeatInterval, ProbeTimeout, StartTimeout, CommitTime, HealthWindow, MaxOutages

VARIABLES view, call, signalled, stop, ready, due, age, reachable, outages, outage

L == INSTANCE ConsumerLoop WITH pc <- call

ASSUME LoopTimes == L!TimesAreNat /\ L!RoundFitsWindow

process == <<call, signalled, stop, ready, due, age, reachable, outages, outage>>
bridge == <<view, vars, process>>

Messages(A) == view = "messages" /\ A /\ UNCHANGED <<view, process>>
Seconds(A) == view = "loop" /\ A /\ UNCHANGED <<view, vars>>

BridgeInit == Init /\ L!Init /\ view \in {"messages", "loop"}

(* The fairness of the two specifications, of the one that takes steps.     *)
BridgeSpec ==
  /\ BridgeInit /\ [][Messages(Next) \/ Seconds(L!Next)]_bridge
  /\ WF_bridge(Messages(Connect)) /\ WF_bridge(Messages(StartFails))
  /\ \A t \in Topic : SF_bridge(Messages(PollRequest(t) \/ PollPoison(t)))
  /\ \A w \in WorkflowId : SF_bridge(Messages(AnswerStart(w)))
  /\ SF_bridge(Messages(StartAccepted)) /\ SF_bridge(Messages(CommitSucceeds))
  /\ WF_bridge(Seconds(L!LoopStep))
  /\ SF_bridge(Seconds(L!HandleSignal)) /\ SF_bridge(Seconds(L!QuietPoll))

(* The heartbeat is fresh while the broker answers, and the loop's times    *)
(* stay in their ranges (consumer.py:190-240).                              *)
HealthyWhileBrokerAnswers == L!HealthyWhileBrokerAnswers

(* It goes stale while the broker stays away (consumer.py:219-230).         *)
UnhealthyWhileBrokerAway == L!UnhealthyWhileBrokerAway

(* A signal closes a consumer that suspends (consumer.py:217, 254-267).     *)
StopsIfSuspended == L!StopsIfSuspended
=============================================================================
