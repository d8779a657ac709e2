------------------------------ MODULE ReadApi -------------------------------
(***************************************************************************)
(* api/app.py: the requests the read API serves at the same time, the one  *)
(* Temporal client they share and the lock it is connected under, and the  *)
(* time limits inside one another.  Nautobot, Temporal, Kafka and devices  *)
(* answer, fail, or hang.                                                  *)
(*                                                                         *)
(* A request is the upstream calls it makes; which of them its answer      *)
(* shows as available is all that is kept of the answer.                   *)
(***************************************************************************)
EXTENDS Integers, Sequences, FiniteSets, SequencesExt

CONSTANTS
  Request,
  Scenarios,  \* bound: what is requested at the same time
  Probes,     \* bound: the health probes told apart, of the five
  Nobody,     \* holds no lock
  Probe,      \* api_probe_timeout_seconds, in ticks
  Overview,   \* api_overview_timeout_seconds
  Live        \* api_live_timeout_seconds

ASSUME RequestsAreFinite == IsFiniteSet(Request) /\ Nobody \notin Request

(* As the defaults have it; the settings allow a smaller overview.         *)
ASSUME LimitsLeaveRoom ==
  {Probe, Overview, Live} \subseteq Nat \ {0} /\ Overview > 2 * Probe

Kind == {"health", "devices", "topology", "device", "live", "workflows", "workflow", "overview"}
Unused == "unused"
ASSUME ScenariosAreOfKinds == Scenarios \subseteq [Request -> Kind \cup {Unused}]

-----------------------------------------------------------------------------
(* What a request of each kind calls.                                      *)
ASSUME ProbesAreProbes ==
  Probes \subseteq {"nautobot", "kafka", "temporal", "worker", "consumer"}
OfTemporal == {"temporal", "worker", "executions", "describe", "history"}
Call == Probes \cup OfTemporal \cup {"inventory", "interfaces", "intent", "device"}

Calls(kind) ==
  CASE kind = "health"    -> Probes
    [] kind = "devices"   -> {"inventory", "executions"}
    [] kind = "topology"  -> {"inventory", "interfaces", "executions"}
    [] kind = "device"    -> {"inventory", "intent", "executions"}
    [] kind = "live"      -> {"inventory", "intent", "executions", "device"}
    [] kind = "workflows" -> {"executions"}
    [] kind = "workflow"  -> {"describe", "history"}
    [] kind = "overview"  -> Probes \cup {"inventory", "interfaces", "executions"}
    [] kind = Unused      -> {}

(* The calls that have to have ended before.                               *)
Before(kind, c) ==
  CASE c = "executions" /\ kind = "topology" -> {"inventory", "interfaces"}
    [] c = "executions" /\ kind \in {"devices", "device", "live"} -> {"inventory"}
    [] c \in {"interfaces", "intent"} -> {"inventory"}
    [] c = "device" -> {"intent", "executions"}
    [] c = "history" -> {"describe"}
    [] OTHER -> {}

(* The calls without whose answer there is nothing to show, and those      *)
(* without whose answer another is not made.                               *)
Fatal(kind) ==
  CASE kind \in {"devices", "device", "live"} -> {"inventory"}
    [] kind = "topology" -> {"inventory", "interfaces"}
    [] kind = "workflow" -> {"describe"}
    [] OTHER -> {}

Requires(kind, c) ==
  CASE c = "interfaces" -> {"inventory"}
    [] c = "device" -> {"intent"}
    [] OTHER -> Before(kind, c) \cap Fatal(kind)

(* The limit of a call, and of the whole; Never: only the whole is limited.*)
Never == -1
Limit(kind, c) ==
  IF c \in Probes THEN Probe
  ELSE IF c = "device" THEN Live
  ELSE IF kind \in {"device", "live", "workflow"} THEN Overview ELSE Never

(* Mutant: the live budget has room for one read before the device's.      *)
LiveAndOne(kind) ==
  CASE kind = "live" -> Live + Overview + 1
    [] kind = "workflow" -> 2 * Overview + 1
    [] kind = "health" -> Never
    [] OTHER -> Overview
Outer(kind) ==
  CASE kind = "live" -> Live + 2 * Overview + 1
    [] kind = "workflow" -> 2 * Overview + 1
    [] kind = "health" -> Never
    [] OTHER -> Overview

(* Client.connect.  Mutant: the overview gives it all the time it has.     *)
Generous(kind) == IF kind = "overview" THEN Overview ELSE Probe
ConnectLimit(kind) == IF kind = "overview" /\ Overview < Probe THEN Overview ELSE Probe

-----------------------------------------------------------------------------
VARIABLES
  temporal,  \* application.state.temporal is a client
  holder,    \* of temporal_lock
  queue,     \* who waits for it
  kind,      \* of each request
  phase,     \* of each request
  client,    \* temporal_for returned a client
  result,    \* of each call of each request
  began,     \* per request and call: the request's age when it was made
  since,     \* per request: its age when the limit of the whole began to run
  age,       \* per request that is served: ticks since it arrived
  shown,     \* per request: the calls its answer shows as answered
  connects,  \* history: connections made
  ahead      \* history, per request: how many waited or connected when it arrived

sharing == <<temporal, holder, queue, connects>>
vars == <<sharing, kind, phase, client, result, began, since, age, shown, ahead>>

Phase == {"idle", "waiting", "connecting", "working", "answered", "timed_out"}
Result == {"none", "running", "ok", "failed", "skipped"}

Longest == (Cardinality(Request) + 2) * Probe + Live + 2 * Overview + 1
TypeOK ==
  /\ temporal \in BOOLEAN /\ connects \in 0 .. Cardinality(Request)
  /\ holder \in Request \cup {Nobody}
  /\ queue \in Seq(Request) /\ IsInjective(queue)
  /\ ToSet(queue) = {r \in Request : phase[r] = "waiting"}
  /\ holder # Nobody <=> \E r \in Request : phase[r] = "connecting"
  /\ kind \in Scenarios /\ phase \in [Request -> Phase]
  /\ client \in [Request -> BOOLEAN] /\ ahead \in [Request -> Nat]
  /\ DOMAIN result = Request /\ DOMAIN began = Request /\ DOMAIN shown = Request
  /\ \A r \in Request :
       result[r] \in [Calls(kind[r]) -> Result] /\ began[r] \in [Calls(kind[r]) -> 0 .. Longest]
  /\ age \in [Request -> 0 .. Longest] /\ since \in [Request -> 0 .. Longest]
  /\ \A r \in Request : shown[r] \subseteq Calls(kind[r])

(* lifespan connects once, and goes on without a client if it cannot.      *)
Init ==
  /\ temporal \in BOOLEAN /\ connects = 0
  /\ holder = Nobody /\ queue = <<>>
  /\ kind \in Scenarios
  /\ phase = [r \in Request |-> "idle"]
  /\ client = [r \in Request |-> FALSE]
  /\ result = [r \in Request |-> [c \in Calls(kind[r]) |-> "none"]]
  /\ began = [r \in Request |-> [c \in Calls(kind[r]) |-> 0]]
  /\ since = [r \in Request |-> 0] /\ age = [r \in Request |-> 0]
  /\ shown = [r \in Request |-> {}]
  /\ ahead = [r \in Request |-> 0]

-----------------------------------------------------------------------------
Ended(res, c) == res[c] \in {"ok", "failed", "skipped"}

(* The calls that can be made are made at once, or left out.               *)
Advance(r, res, hasClient) ==
  [c \in DOMAIN res |->
     IF res[c] # "none" \/ \E b \in Before(kind[r], c) : ~Ended(res, b) THEN res[c]
     ELSE IF \/ c \in OfTemporal /\ ~hasClient
             \/ \E b \in Requires(kind[r], c) : res[b] # "ok" THEN "skipped"
     ELSE "running"]

(* Calls that have ended, of which the fatal ones ended well.              *)
SetResult(r, res) ==
  /\ result' = [result EXCEPT ![r] = res]
  /\ began' = [began EXCEPT ![r] =
       [c \in DOMAIN res |-> IF result[r][c] = "none" THEN age[r] ELSE @[c]]]

(* temporal_for has returned: the limit of the whole starts to run, but for*)
(* the overview, whose deadline was set when it arrived.                   *)
Work(r, hasClient) ==
  /\ phase' = [phase EXCEPT ![r] = "working"]
  /\ client' = [client EXCEPT ![r] = hasClient]
  /\ since' = [since EXCEPT ![r] = IF kind[r] = "overview" THEN 0 ELSE age[r]]
  /\ SetResult(r, Advance(r, result[r], hasClient))

Arrive(r) ==
  /\ phase[r] = "idle" /\ kind[r] # Unused
  /\ ahead' = [ahead EXCEPT ![r] =
       Cardinality({q \in Request : phase[q] \in {"waiting", "connecting"}})]
  /\ IF temporal THEN Work(r, TRUE) /\ UNCHANGED <<holder, queue>>
     ELSE /\ IF holder = Nobody /\ queue = <<>>
               THEN /\ holder' = r /\ phase' = [phase EXCEPT ![r] = "connecting"]
                    /\ UNCHANGED queue
               ELSE /\ queue' = Append(queue, r) /\ phase' = [phase EXCEPT ![r] = "waiting"]
                    /\ UNCHANGED holder
          /\ since' = [since EXCEPT ![r] = age[r]]
          /\ UNCHANGED <<client, result, began>>
  /\ UNCHANGED <<temporal, kind, age, shown, connects>>

(* The lock is handed on; whoever gets it looks again.                     *)
(* Mutant: it does not.                                                    *)
LookOnce == FALSE
LookAgain == temporal

Acquire(r) ==
  /\ holder = Nobody /\ queue # <<>> /\ r = Head(queue)
  /\ queue' = Tail(queue)
  /\ IF LookAgain THEN Work(r, TRUE) /\ UNCHANGED holder
     ELSE /\ holder' = r
          /\ phase' = [phase EXCEPT ![r] = "connecting"]
          /\ since' = [since EXCEPT ![r] = age[r]]
          /\ UNCHANGED <<client, result, began>>
  /\ UNCHANGED <<temporal, kind, age, shown, connects, ahead>>

ConnectSucceeds(r) ==
  /\ phase[r] = "connecting"
  /\ temporal' = TRUE /\ connects' = connects + 1
  /\ holder' = Nobody
  /\ Work(r, TRUE)
  /\ UNCHANGED <<queue, kind, age, shown, ahead>>

(* Mutant: a failure leaves the lock held.                                 *)
StillHeld(r) == r
Released(r) == Nobody

ConnectFails(r) ==
  /\ phase[r] = "connecting"
  /\ holder' = Released(r)
  /\ Work(r, FALSE)
  /\ UNCHANGED <<temporal, connects, queue, kind, age, shown, ahead>>

ConnectDue(r) == phase[r] = "connecting" /\ age[r] - since[r] >= ConnectLimit(kind[r])
ConnectTimesOut(r) == ConnectDue(r) /\ ConnectFails(r)

-----------------------------------------------------------------------------
OuterDue(r) ==
  /\ phase[r] = "working" /\ Outer(kind[r]) # Never
  /\ age[r] - since[r] >= Outer(kind[r])
CallDue(r, c) ==
  /\ result[r][c] = "running" /\ Limit(kind[r], c) # Never
  /\ age[r] - began[r][c] >= Limit(kind[r], c)

End(r, c, res) ==
  /\ phase[r] = "working" /\ result[r][c] = "running"
  /\ SetResult(r, Advance(r, [result[r] EXCEPT ![c] = res], client[r]))
  /\ UNCHANGED <<sharing, kind, phase, client, since, age, shown, ahead>>

CallEnds(r, c, res) == End(r, c, res)

(* The limit of the whole was set first and fires first.                   *)
CallTimesOut(r, c) == c \in Calls(kind[r]) /\ CallDue(r, c) /\ ~OuterDue(r) /\ End(r, c, "failed")

Ok(r) == {c \in Calls(kind[r]) : result[r][c] = "ok"}

Answer(r, how, calls) ==
  /\ phase' = [phase EXCEPT ![r] = how]
  /\ shown' = [shown EXCEPT ![r] = calls]
  /\ age' = [age EXCEPT ![r] = 0] /\ since' = [since EXCEPT ![r] = 0]
  /\ began' = [began EXCEPT ![r] = [c \in Calls(kind[r]) |-> 0]]
  /\ UNCHANGED <<sharing, kind, client, result, ahead>>

(* A fatal call ended badly, or everything has ended.                      *)
FatalEnded(r) == \E c \in Fatal(kind[r]) : result[r][c] \in {"failed", "skipped"}

Complete(r) ==
  /\ phase[r] = "working"
  /\ \/ FatalEnded(r)
     \/ \A c \in Calls(kind[r]) : Ended(result[r], c)
  /\ Answer(r, "answered", IF FatalEnded(r) THEN {} ELSE Ok(r))

(* The limit of the whole; each of the overview's sections is shown only   *)
(* if all of it is there.  Mutant: the sections are awaited together.      *)
OneSection(c) == Calls("overview")
Section(c) == IF c \in Probes THEN Probes ELSE {c}
Sections(r) == {c \in Calls(kind[r]) : \A d \in Section(c) : Ended(result[r], d)} \cap Ok(r)

TimesOut(r) ==
  /\ OuterDue(r)
  /\ IF kind[r] = "overview" THEN Answer(r, "answered", Sections(r))
     ELSE Answer(r, "timed_out", {})

(* Time passes for the requests that are served, and not past a limit.     *)
Served(r) == phase[r] \in {"waiting", "connecting", "working"}
Due(r) ==
  \/ ConnectDue(r)
  \/ OuterDue(r)
  \/ phase[r] = "working" /\ \E c \in Calls(kind[r]) : CallDue(r, c)
  \/ phase[r] = "waiting" /\ holder = Nobody
  \/ phase[r] = "working" /\ (FatalEnded(r) \/ \A c \in Calls(kind[r]) : Ended(result[r], c))

Older(n) == IF n <= Longest THEN n + 1 ELSE n   \* bound: older is alike

Tick ==
  /\ \A r \in Request : ~Due(r)
  /\ age' = [r \in Request |-> IF Served(r) THEN Older(age[r]) ELSE age[r]]
  /\ UNCHANGED <<sharing, kind, phase, client, result, began, since, shown, ahead>>

Next ==
  \/ \E r \in Request :
       \/ Arrive(r)
       \/ Acquire(r)
       \/ ConnectSucceeds(r)
       \/ ConnectFails(r)
       \/ \E c \in Calls(kind[r]), res \in {"ok", "failed"} : CallEnds(r, c, res)
       \/ \E c \in Calls(kind[r]) : CallTimesOut(r, c)
       \/ Complete(r)
       \/ TimesOut(r)
  \/ Tick

Spec == Init /\ [][Next]_vars

(* The event loop runs, and its timers fire; no upstream need ever answer. *)
Fairness ==
  /\ WF_vars(Tick)
  /\ \A r \in Request :
       /\ WF_vars(Acquire(r)) /\ WF_vars(ConnectTimesOut(r))
       /\ WF_vars(Complete(r)) /\ WF_vars(TimesOut(r))
       /\ \A c \in Call : WF_vars(CallTimesOut(r, c))
-----------------------------------------------------------------------------
Answered(r) == phase[r] \in {"answered", "timed_out"}
Longer(m, n) == IF m > n THEN m ELSE n

(* No answer waits for an upstream: a request is answered within its limits*)
(* and one attempt to connect, its own, after one for each that queued for *)
(* the client before it; the overview's deadline includes its attempt and  *)
(* nobody else's (app.py:68-89, 146-211, 353-483).                         *)
AnsweredInTime ==
  \A r \in Request :
    age[r] <= IF kind[r] = "overview" THEN Longer(Overview, (ahead[r] + 1) * Probe)
              ELSE (ahead[r] + 1) * Probe
                     + (IF kind[r] = "health" THEN Probe ELSE Outer(kind[r]))

(* However many requests find no client, one is made; lock, queue and the  *)
(* phases of the requests stay in step (app.py:68-89).                     *)
OneConnection ==
  /\ TypeOK
  /\ connects <= 1
  /\ \A r \in Request : client[r] => temporal

(* contracts/read-api.md:56-57 of feature 006: "A live timeout degrades    *)
(* only `live_state`".  So the answer with the device's state shows what   *)
(* else was read, however late the device or Temporal are                  *)
(* (app.py:188-203, devices.py:235-466).                                   *)
LiveDegradesAlone ==
  \A r \in Request : kind[r] = "live" /\ Answered(r) =>
    /\ phase[r] = "answered"
    /\ result[r]["inventory"] = "ok" => shown[r] = Ok(r)

(* Where the limits leave room for each other, what has answered is shown: *)
(* no source is called unavailable for another's failure, except that an   *)
(* overview that queued may have no time left (app.py:140-144, 243-307,    *)
(* 353-436).                                                               *)
OthersShown ==
  \A r \in Request :
    phase[r] = "answered" /\ kind[r] \in {"health", "workflows", "workflow", "overview"} =>
      \/ shown[r] = Ok(r)
      \/ kind[r] = "overview" /\ ahead[r] > 0

(* Together: whoever hangs, what did answer is shown (app.py:140-483).     *)
AnsweredIsShown == LiveDegradesAlone /\ OthersShown

(* Why these hold.  The lock is held by the one who connects, for which    *)
(* there is no client yet.                                                 *)
LockIsHeld ==
  /\ \A r \in Request : phase[r] = "connecting" <=> holder = r
  /\ holder # Nobody => ~temporal
  /\ ~temporal => connects = 0

(* A turn of the queue takes one attempt to connect, and there are no more *)
(* turns before a request's own than were taken when it came.              *)
TurnsAreShort ==
  \A i \in 1 .. Len(queue) :
    LET r == queue[i]
    IN  IF holder = Nobody THEN age[r] + (i - 1) * Probe <= ahead[r] * Probe
        ELSE age[r] + i * Probe <= ahead[r] * Probe + (age[holder] - since[holder])

(* The limit of the whole, or what stands for it where there is none.      *)
Whole(k) == IF k = "health" THEN Probe ELSE Outer(k)

InTime(r) ==
  /\ ahead[r] + 1 <= Cardinality(Request) /\ since[r] <= age[r]
  /\ ~Served(r) => age[r] = 0
  /\ phase[r] = "connecting" => since[r] <= ahead[r] * Probe /\ age[r] <= since[r] + Probe
  /\ phase[r] = "working" =>
       IF kind[r] = "overview"
         THEN since[r] = 0 /\ age[r] <= Longer(Overview, (ahead[r] + 1) * Probe)
         ELSE since[r] <= (ahead[r] + 1) * Probe /\ age[r] <= since[r] + Whole(kind[r])

(* No call is made before a request has asked for its client; those that   *)
(* wait for no other begin then, and none outlives its limit.              *)
CallsBegin(r) ==
  IF phase[r] \in {"idle", "waiting", "connecting"}
    THEN \A c \in Calls(kind[r]) : result[r][c] = "none"
    ELSE \A c \in Calls(kind[r]) : Before(kind[r], c) = {} => result[r][c] # "none"

CallsInTime(r) ==
  phase[r] = "working" => \A c \in Calls(kind[r]) : result[r][c] = "running" =>
    /\ began[r][c] <= age[r]
    /\ Limit(kind[r], c) # Never => age[r] <= began[r][c] + Limit(kind[r], c)
    /\ Before(kind[r], c) = {} =>
         began[r][c] <= IF kind[r] = "overview" THEN (ahead[r] + 1) * Probe ELSE since[r]

(* The two rounds of a live detail and the read of the device after them.  *)
LiveRounds(r) ==
  kind[r] = "live" /\ phase[r] = "working" =>
    LET res == result[r]
    IN  /\ age[r] <= since[r] + 2 * Overview + Live
        /\ res["inventory"] = "running" =>
             \A c \in {"intent", "executions", "device"} : res[c] = "none"
        /\ res["inventory"] = "ok" =>
             /\ \A c \in {"intent", "executions"} :
                  /\ res[c] # "none"
                  /\ res[c] = "running" => began[r][c] <= since[r] + Overview
             /\ res["device"] = "none" => "running" \in {res["intent"], res["executions"]}
             /\ res["device"] = "running" => began[r]["device"] <= since[r] + 2 * Overview

HistoryFollows(r) ==
  kind[r] = "workflow" /\ result[r]["describe"] # "ok" =>
    result[r]["history"] \in {"none", "skipped"}

IInv ==
  /\ OneConnection /\ LockIsHeld /\ TurnsAreShort
  /\ \A r \in Request :
       /\ InTime(r) /\ CallsBegin(r) /\ CallsInTime(r)
       /\ LiveRounds(r) /\ HistoryFollows(r)
  /\ AnsweredIsShown

(* Every request is answered, whoever hangs (app.py:68-483).               *)
EveryRequestAnswered ==
  \A r \in Request : Served(r) ~> Answered(r)

(* FR-009 of feature 006 (spec.md:187-188): "Failure of one upstream read  *)
(* MUST NOT prevent successful independent reads from appearing in the same*)
(* aggregate response."  The inventory does not depend on Temporal.        *)
FailureStaysLocal ==
  \A r \in Request :
    Answered(r) /\ kind[r] \in {"devices", "device"} /\ result[r]["inventory"] = "ok" =>
      "inventory" \in shown[r]
=============================================================================
