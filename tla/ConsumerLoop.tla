---------------------------- MODULE ConsumerLoop ----------------------------
(***************************************************************************)
(* events/consumer.py, run_consumer and main: the loop around              *)
(* process_message, as seen by the asyncio scheduler, by Docker's          *)
(* healthcheck and by SIGTERM.  What the messages are is EventConsumer's   *)
(* matter; here each call only takes time and either suspends the          *)
(* coroutine (await) or blocks the whole event loop (list_topics, poll,    *)
(* commit are plain C calls).                                              *)
(*                                                                         *)
(* Time is counted in seconds inside the calls that take any.              *)
(***************************************************************************)
EXTENDS Naturals

CONSTANTS
  HeartbeatInterval,  \* HEARTBEAT_INTERVAL_SECONDS
  ProbeTimeout,       \* settings.probe_timeout_seconds, 1..10
  StartTimeout,       \* rpc_timeout of start_workflow
  CommitTime,         \* longest synchronous commit while the broker answers
  HealthWindow,       \* find -mmin -1 in compose.yaml
  MaxOutages          \* bound: times the broker goes away

Less(a, b) == IF a > b THEN a - b ELSE 0
Least(a, b) == IF a < b THEN a ELSE b
Greatest(a, b) == IF a > b THEN a ELSE b

(* What is assumed of the constants; the MC module has TLC evaluate it.    *)
TimesAreNat ==
  /\ {HeartbeatInterval, StartTimeout, CommitTime, HealthWindow, MaxOutages} \subseteq Nat
  /\ ProbeTimeout \in 1..10

(* The last message polled before a probe is due, and the probe itself, fit*)
(* into the window: 9 + 15 + 10 of 60 seconds.                             *)
LongestRound == Greatest(1, StartTimeout + CommitTime)
RoundFitsWindow == Less(HeartbeatInterval, 1) + LongestRound + ProbeTimeout < HealthWindow

VARIABLES
  pc,         \* which call of run_consumer the process is in
  signalled,  \* SIGTERM or SIGINT has reached the process
  stop,       \* stop_event
  ready,      \* the ready file exists
  due,        \* seconds until next_broker_probe
  age,        \* seconds since the heartbeat file was touched, capped
  reachable,  \* the broker answers
  outages,    \* bounded count of outages
  outage      \* history: the broker was away since the last heartbeat

environment == <<reachable, outages, outage>>
vars == <<pc, signalled, stop, ready, due, age, environment>>

(* The calls in which the coroutine has handed control to the event loop.  *)
Suspending == {"connect", "sleep", "start"}
Blocking   == {"probe", "poll", "commit"}
Ended      == {"closed", "exited"}
AgeCap     == HealthWindow + 1

TypeOK ==
  /\ pc \in Suspending \cup Blocking \cup {"head"} \cup Ended
  /\ {signalled, stop, ready, reachable, outage} \subseteq BOOLEAN
  /\ due \in Nat
  /\ age \in 0..AgeCap
  /\ outages \in 0..MaxOutages

Init ==
  /\ pc = "connect"
  /\ signalled = FALSE
  /\ stop = FALSE
  /\ ready = FALSE
  /\ due = 0
  /\ age = 0
  /\ reachable = TRUE
  /\ outages = 0
  /\ outage = FALSE

(* s seconds pass: the heartbeat ages and the next probe comes closer.     *)
Elapse(s) ==
  /\ age' = Least(age + s, AgeCap)
  /\ due' = Less(due, s)

Goto(from, to) == pc = from /\ pc' = to

-----------------------------------------------------------------------------
(* Client.connect, then the Consumer and its subscription.                 *)
Connect ==
  /\ Goto("connect", "head")
  /\ UNCHANGED <<signalled, stop, ready, due, age, environment>>

ConnectFails ==
  /\ Goto("connect", "exited")
  /\ UNCHANGED <<signalled, stop, ready, due, age, environment>>

(* Mutant: while True.                                                     *)
LoopForever ==
  /\ pc = "head"
  /\ pc' = IF due = 0 THEN "probe" ELSE "poll"
  /\ UNCHANGED <<signalled, stop, ready, due, age, environment>>

(* while not stop_event.is_set(): a stopping loop falls through to         *)
(* finally, otherwise it probes the broker when that is due, and polls.    *)
LoopHead ==
  /\ pc = "head"
  /\ pc' = IF stop THEN "closed" ELSE IF due = 0 THEN "probe" ELSE "poll"
  /\ UNCHANGED <<signalled, stop, ready, due, age, environment>>

(* The next probe is due an interval after the moment this one began.      *)
NextProbe(s) == Less(HeartbeatInterval, s)

(* Mutant: the heartbeat is touched once, with the ready file.             *)
ProbeTouchesOnce(s) ==
  /\ Goto("probe", "poll")
  /\ reachable
  /\ ready' = TRUE
  /\ age' = IF ready THEN Least(age + s, AgeCap) ELSE 0
  /\ outage' = FALSE
  /\ due' = NextProbe(s)
  /\ UNCHANGED <<signalled, stop, reachable, outages>>

ProbeSucceeds(s) ==
  /\ Goto("probe", "poll")
  /\ reachable
  /\ ready' = TRUE
  /\ age' = 0
  /\ outage' = FALSE
  /\ due' = NextProbe(s)
  /\ UNCHANGED <<signalled, stop, reachable, outages>>

(* Mutant: the heartbeat is touched whatever the probe found.              *)
ProbeFailsButTouches ==
  /\ Goto("probe", "sleep")
  /\ ~reachable
  /\ age' = 0
  /\ due' = Less(due, ProbeTimeout)
  /\ UNCHANGED <<signalled, stop, ready, environment>>

ProbeFails ==
  /\ Goto("probe", "sleep")
  /\ ~reachable
  /\ Elapse(ProbeTimeout)
  /\ UNCHANGED <<signalled, stop, ready, environment>>

Sleep ==
  /\ Goto("sleep", "head")
  /\ Elapse(1)
  /\ UNCHANGED <<signalled, stop, ready, environment>>

(* Nothing within a second, or an error event: back to the loop head.      *)
PollNothing(s) ==
  /\ Goto("poll", "head")
  /\ Elapse(s)
  /\ UNCHANGED <<signalled, stop, ready, environment>>

(* A poison record is committed at once, a request is first awaited.       *)
PollRecord ==
  /\ pc = "poll"
  /\ reachable
  /\ pc' \in {"commit", "start"}
  /\ UNCHANGED <<signalled, stop, ready, due, age, environment>>

(* An accepted request goes to the commit, a refused one is sought back.   *)
StartReturns(s) ==
  /\ pc = "start"
  /\ pc' \in {"commit", "head"}
  /\ Elapse(s)
  /\ UNCHANGED <<signalled, stop, ready, environment>>

Commit(s) ==
  /\ Goto("commit", "head")
  /\ Elapse(s)
  /\ UNCHANGED <<signalled, stop, ready, environment>>

-----------------------------------------------------------------------------
Signal ==
  /\ ~signalled
  /\ pc \notin Ended
  /\ signalled' = TRUE
  /\ UNCHANGED <<pc, stop, ready, due, age, environment>>

(* loop.add_signal_handler: the callback is run by the event loop, so only *)
(* while the coroutine is suspended.                                       *)
HandlerCanRun == pc \in Suspending

HandleSignal ==
  /\ signalled
  /\ ~stop
  /\ HandlerCanRun
  /\ stop' = TRUE
  /\ UNCHANGED <<pc, signalled, ready, due, age, environment>>

BrokerLost ==
  /\ reachable
  /\ outages < MaxOutages
  /\ reachable' = FALSE
  /\ outages' = outages + 1
  /\ outage' = TRUE
  /\ UNCHANGED <<pc, signalled, stop, ready, due, age>>

BrokerBack ==
  /\ ~reachable
  /\ reachable' = TRUE
  /\ UNCHANGED <<pc, signalled, stop, ready, due, age, outages, outage>>

-----------------------------------------------------------------------------
LoopStep ==
  \/ Connect
  \/ LoopHead
  \/ \E s \in 0..ProbeTimeout : ProbeSucceeds(s)
  \/ ProbeFails
  \/ Sleep
  \/ \E s \in 0..1 : PollNothing(s)
  \/ PollRecord
  \/ \E s \in 0..StartTimeout : StartReturns(s)
  \/ \E s \in 0..CommitTime : Commit(s)

Next == LoopStep \/ ConnectFails \/ Signal \/ HandleSignal \/ BrokerLost \/ BrokerBack

Spec == Init /\ [][Next]_vars

(* Without a broker there are only error events to poll, and librdkafka    *)
(* spaces them: poll() waits out its second again and again.               *)
QuietPoll == ~reachable /\ PollNothing(1)

(* The process runs, and the event loop, each time it gets control, looks  *)
(* at the wake-up descriptor a signal wrote to.                            *)
FairSpec ==
  /\ Spec
  /\ WF_vars(LoopStep)
  /\ SF_vars(HandleSignal)
  /\ SF_vars(QuietPoll)

-----------------------------------------------------------------------------
(* While the broker answers, the healthcheck of compose.yaml never finds a *)
(* stale heartbeat: a queue of requests whose starts all run into the RPC  *)
(* timeout, slow commits and a last slow probe included, and the times stay*)
(* in their ranges (consumer.py:215-240).                                  *)
LastCall == IF pc = "probe" THEN ProbeTimeout ELSE 0
HealthyWhileBrokerAnswers == TypeOK /\ (ready /\ ~outage => age + LastCall < HealthWindow)

(* Why: the broker has answered since, so the process is not in the branch *)
(* of a failed probe; while no probe is due, the heartbeat is as old as the*)
(* part of the interval that has passed, and once one is due only the      *)
(* message at hand comes before it.                                        *)
HeartbeatInv ==
  /\ TypeOK
  /\ ~reachable => outage
  /\ pc = "connect" => ~ready
  /\ pc = "sleep" => outage
  /\ ready /\ ~outage =>
       /\ due > 0 => age + due <= HeartbeatInterval
       /\ pc \in {"poll", "start"} => age <= Less(HeartbeatInterval, 1)
       /\ pc = "commit" => age <= Less(HeartbeatInterval, 1) + StartTimeout
       /\ age <= Less(HeartbeatInterval, 1) + LongestRound

(* A broker that stays away makes the container unhealthy: no path round   *)
(* the loop touches the heartbeat without a successful probe               *)
(* (consumer.py:219-230).                                                  *)
UnhealthyWhileBrokerAway == <>[](~reachable /\ pc \notin Ended) => <>[](age = AgeCap)

(* If the coroutine is suspended again and again, a signal closes the      *)
(* consumer (consumer.py:217, 254-255, 265-267).                           *)
StopsIfSuspended == []<>(HandlerCanRun \/ pc \in Ended) => (signalled ~> pc \in Ended)

(* specs/003-event-driven-execution/contracts/execution.md:93: "Graceful   *)
(* termination closes the Temporal worker or Kafka consumer".              *)
GracefulTermination == signalled ~> pc \in Ended
=============================================================================
