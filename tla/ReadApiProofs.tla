--------------------------- MODULE ReadApiProofs ---------------------------
(***************************************************************************)
(* The safety properties of ReadApi hold for any number of requests of any *)
(* kinds at the same time, and any limits that leave each other room.      *)
(***************************************************************************)
EXTENDS ReadApi, FiniteSetTheorems, SequenceTheorems, TLAPS

(* Facts about the constants.                                              *)
LEMMA Times ==
  /\ Probe \in Nat /\ Probe > 0 /\ Overview \in Nat /\ Overview > 2 * Probe
  /\ Live \in Nat /\ Live > 0 /\ Cardinality(Request) \in Nat
BY LimitsLeaveRoom, RequestsAreFinite, FS_CardinalityType

(* Who waits and who holds the lock grow older together.                   *)
LEMMA BothOlder ==
  ASSUME NEW a \in Nat, NEW t \in Nat, NEW u \in Nat, NEW b \in Nat, NEW c \in Nat,
         a + t <= u + (b - c)
  PROVE  (a + 1) + t <= u + ((b + 1) - c)
OBVIOUS

(* A turn that took no longer than a probe is one turn less to wait for.   *)
LEMMA TurnIsOver ==
  ASSUME NEW a \in Nat, NEW b \in Nat, NEW u \in Nat, NEW d \in Int,
         a + (b + Probe) <= u + d, d <= Probe
  PROVE  a + b <= u
BY Times

LEMMA Turns ==
  /\ \A n \in Nat : n * Probe \in Nat /\ (n + 1) * Probe = n * Probe + Probe
  /\ \A m, n \in Nat : m <= n => m * Probe <= n * Probe
<1>1. \A n \in Nat : n * Probe \in Nat /\ (n + 1) * Probe = n * Probe + Probe
  BY Times
<1>2. ASSUME NEW m \in Nat, NEW n \in Nat, m <= n PROVE m * Probe <= n * Probe
  <2>1. /\ n - m \in Nat /\ n = m + (n - m)
    BY <1>2
  <2>2. (n - m) * Probe \in Nat
    BY <1>1, <2>1
  <2>3. n * Probe = m * Probe + (n - m) * Probe
    BY <2>1, Times
  <2>4. m * Probe \in Nat
    BY <1>1
  <2>5. QED
    BY <2>2, <2>3, <2>4
<1>3. QED
  BY <1>1, <1>2

LEMMA LongestIsLong ==
  /\ Longest \in Nat
  /\ \A n \in Nat : n + 1 <= Cardinality(Request) =>
       (n + 1) * Probe + Live + 2 * Overview + 1 <= Longest
<1>1. Longest \in Nat
  <2>1. (Cardinality(Request) + 2) * Probe \in Nat
    BY Times, Turns
  <2>2. QED
    BY <2>1, Times DEF Longest
<1>2. ASSUME NEW n \in Nat, n + 1 <= Cardinality(Request)
      PROVE  (n + 1) * Probe + Live + 2 * Overview + 1 <= Longest
  <2>1. (n + 1) * Probe <= (Cardinality(Request) + 2) * Probe
    <3>1. n + 1 \in Nat /\ Cardinality(Request) + 2 \in Nat /\ n + 1 <= Cardinality(Request) + 2
      BY <1>2, Times
    <3>2. QED
      BY <3>1, Turns
  <2>2. (n + 1) * Probe \in Nat /\ (Cardinality(Request) + 2) * Probe \in Nat
    BY Times, Turns
  <2>3. QED
    BY <2>1, <2>2, Times DEF Longest
<1>3. QED
  BY <1>1, <1>2

(* Every attempt to connect has the probe's limit; only health has no limit*)
(* of the whole.                                                           *)
LEMMA Limits ==
  ASSUME NEW k \in Kind \cup {Unused}
  PROVE  /\ ConnectLimit(k) = Probe
         /\ k # "health" => Outer(k) = Whole(k) /\ Outer(k) # Never
         /\ k = "health" => Outer(k) = Never /\ Whole(k) = Probe
         /\ k = "live" => Whole(k) = Live + 2 * Overview + 1
         /\ k = "overview" => Whole(k) = Overview
         /\ Whole(k) \in Nat /\ 0 < Whole(k) /\ Whole(k) <= Live + 2 * Overview + 1
<1>1. ConnectLimit(k) = Probe
  BY Times DEF ConnectLimit
<1>2. CASE k = "health"
  BY <1>1, <1>2, Times DEF Outer, Whole, Never
<1>3. CASE k = "live"
  BY <1>1, <1>3, Times DEF Outer, Whole, Never
<1>4. CASE k = "workflow"
  BY <1>1, <1>4, Times DEF Outer, Whole, Never
<1>5. CASE k \notin {"health", "live", "workflow"}
  BY <1>1, <1>5, Times DEF Outer, Whole, Never
<1>6. QED
  BY <1>2, <1>3, <1>4, <1>5

-----------------------------------------------------------------------------
(* The calls of the kinds that the properties tell apart.                  *)
LEMMA ProbeCalls ==
  /\ Calls("health") = Probes /\ Probes \subseteq Calls("overview")
  /\ \A k \in Kind, c \in Probes : Before(k, c) = {} /\ Limit(k, c) = Probe
  /\ \A k \in {"health", "workflows", "overview"} : Fatal(k) = {}
<1>1. Calls("health") = Probes /\ Probes \subseteq Calls("overview")
  BY DEF Calls, Unused
<1>2. ASSUME NEW k \in Kind, NEW c \in Probes PROVE Before(k, c) = {} /\ Limit(k, c) = Probe
  <2>1. c \in {"nautobot", "kafka", "temporal", "worker", "consumer"}
    BY ProbesAreProbes
  <2>2. Before(k, c) = {}
    BY <2>1 DEF Before
  <2>3. Limit(k, c) = Probe
    BY <2>1 DEF Limit
  <2>4. QED
    BY <2>2, <2>3
<1>3. \A k \in {"health", "workflows", "overview"} : Fatal(k) = {}
  BY DEF Fatal
<1>4. QED
  BY <1>1, <1>2, <1>3

LEMMA LiveCalls ==
  /\ Calls("live") = {"inventory", "intent", "executions", "device"}
  /\ Before("live", "inventory") = {} /\ Before("live", "intent") = {"inventory"}
  /\ Before("live", "executions") = {"inventory"}
  /\ Before("live", "device") = {"intent", "executions"}
  /\ Fatal("live") = {"inventory"} /\ Requires("live", "intent") = {"inventory"}
  /\ "intent" \notin OfTemporal
  /\ "inventory" \in Requires("live", "executions")
  /\ \A c \in {"inventory", "intent", "executions"} : Limit("live", c) = Overview
  /\ Limit("live", "device") = Live
<1>1. /\ Calls("live") = {"inventory", "intent", "executions", "device"}
      /\ Fatal("live") = {"inventory"}
  BY DEF Calls, Fatal, Unused
<1>2. /\ Before("live", "inventory") = {} /\ Before("live", "intent") = {"inventory"}
      /\ Before("live", "executions") = {"inventory"}
      /\ Before("live", "device") = {"intent", "executions"}
  BY DEF Before
<1>3. /\ Requires("live", "intent") = {"inventory"} /\ "intent" \notin OfTemporal
      /\ "inventory" \in Requires("live", "executions")
  BY <1>1, <1>2 DEF Requires, OfTemporal
<1>4. \A c \in {"inventory", "intent", "executions", "device"} : c \notin Probes
  BY ProbesAreProbes
<1>5. /\ \A c \in {"inventory", "intent", "executions"} : Limit("live", c) = Overview
      /\ Limit("live", "device") = Live
  <2>1. Limit("live", "inventory") = Overview
    BY <1>4 DEF Limit
  <2>2. Limit("live", "intent") = Overview
    BY <1>4 DEF Limit
  <2>3. Limit("live", "executions") = Overview
    BY <1>4 DEF Limit
  <2>4. Limit("live", "device") = Live
    BY <1>4 DEF Limit
  <2>5. QED
    BY <2>1, <2>2, <2>3, <2>4
<1>6. QED
  BY <1>1, <1>2, <1>3, <1>5

LEMMA WorkflowCalls ==
  /\ Calls("workflow") = {"describe", "history"} /\ Fatal("workflow") = {"describe"}
  /\ Before("workflow", "history") = {"describe"}
  /\ "describe" \in Requires("workflow", "history")
<1>1. Calls("workflow") = {"describe", "history"} /\ Fatal("workflow") = {"describe"}
  BY DEF Calls, Fatal, Unused
<1>2. Before("workflow", "history") = {"describe"}
  BY DEF Before
<1>3. QED
  BY <1>1, <1>2 DEF Requires

(* Advance makes the calls that can be made and leaves the others alone.   *)
LEMMA Advances ==
  ASSUME NEW r \in Request, NEW res \in [Calls(kind[r]) -> Result], NEW hasClient \in BOOLEAN
  PROVE  /\ Advance(r, res, hasClient) \in [Calls(kind[r]) -> Result]
         /\ \A c \in Calls(kind[r]) :
              LET next == Advance(r, res, hasClient)[c]
              IN  /\ res[c] # "none" => next = res[c]
                  /\ res[c] = "none" => next \in {"none", "running", "skipped"}
                  /\ res[c] = "none" =>
                       (next # "none" <=> \A b \in Before(kind[r], c) : Ended(res, b))
                  /\ res[c] = "none" /\ next = "running" =>
                       \A b \in Requires(kind[r], c) : res[b] = "ok"
                  /\ res[c] = "none" /\ next = "skipped" =>
                       \/ c \in OfTemporal /\ ~hasClient
                       \/ \E b \in Requires(kind[r], c) : res[b] # "ok"
<1>1. \A c \in Calls(kind[r]) :
        Advance(r, res, hasClient)[c] =
          IF res[c] # "none" \/ \E b \in Before(kind[r], c) : ~Ended(res, b) THEN res[c]
          ELSE IF \/ c \in OfTemporal /\ ~hasClient
                  \/ \E b \in Requires(kind[r], c) : res[b] # "ok" THEN "skipped"
          ELSE "running"
  BY DEF Advance
<1>2. \A c \in Calls(kind[r]) : res[c] \in Result
  OBVIOUS
<1>3. Advance(r, res, hasClient) = [c \in Calls(kind[r]) |-> Advance(r, res, hasClient)[c]]
  BY DEF Advance
<1>4. \A c \in Calls(kind[r]) : Advance(r, res, hasClient)[c] \in Result
  BY <1>1, <1>2 DEF Result
<1>5. Advance(r, res, hasClient) \in [Calls(kind[r]) -> Result]
  BY <1>3, <1>4
<1>6. ASSUME NEW c \in Calls(kind[r])
      PROVE  /\ res[c] # "none" => Advance(r, res, hasClient)[c] = res[c]
             /\ res[c] = "none" => Advance(r, res, hasClient)[c] \in {"none", "running", "skipped"}
             /\ res[c] = "none" =>
                  (Advance(r, res, hasClient)[c] # "none"
                     <=> \A b \in Before(kind[r], c) : Ended(res, b))
             /\ res[c] = "none" /\ Advance(r, res, hasClient)[c] = "running" =>
                  \A b \in Requires(kind[r], c) : res[b] = "ok"
             /\ res[c] = "none" /\ Advance(r, res, hasClient)[c] = "skipped" =>
                  \/ c \in OfTemporal /\ ~hasClient
                  \/ \E b \in Requires(kind[r], c) : res[b] # "ok"
  BY <1>1
<1>7. QED
  BY <1>5, <1>6

LEMMA ResultIsSet ==
  ASSUME TypeOK, NEW r \in Request, NEW res \in [Calls(kind[r]) -> Result], SetResult(r, res)
  PROVE  /\ DOMAIN result' = Request /\ DOMAIN began' = Request /\ result'[r] = res
         /\ \A q \in Request \ {r} : result'[q] = result[q] /\ began'[q] = began[q]
         /\ began'[r] \in [Calls(kind[r]) -> 0 .. Longest]
         /\ \A c \in Calls(kind[r]) :
              began'[r][c] = IF result[r][c] = "none" THEN age[r] ELSE began[r][c]
<1>1. DOMAIN res = Calls(kind[r]) /\ DOMAIN result = Request /\ DOMAIN began = Request
  BY DEF TypeOK
<1>2. /\ DOMAIN result' = Request /\ DOMAIN began' = Request /\ result'[r] = res
      /\ \A q \in Request \ {r} : result'[q] = result[q] /\ began'[q] = began[q]
      /\ began'[r] = [c \in Calls(kind[r]) |-> IF result[r][c] = "none" THEN age[r] ELSE began[r][c]]
  BY <1>1 DEF SetResult
<1>3. age[r] \in 0 .. Longest /\ \A c \in Calls(kind[r]) : began[r][c] \in 0 .. Longest
  BY DEF TypeOK
<1>4. QED
  BY <1>2, <1>3

-----------------------------------------------------------------------------
(* The invariant, request by request, and what requests share.             *)
Kept(r) ==
  /\ phase[r] \in Phase /\ client[r] \in BOOLEAN /\ ahead[r] \in Nat
  /\ age[r] \in 0 .. Longest /\ since[r] \in 0 .. Longest
  /\ result[r] \in [Calls(kind[r]) -> Result] /\ began[r] \in [Calls(kind[r]) -> 0 .. Longest]
  /\ shown[r] \subseteq Calls(kind[r])

Shows(r) ==
  /\ kind[r] = "live" /\ Answered(r) =>
       /\ phase[r] = "answered"
       /\ result[r]["inventory"] = "ok" => shown[r] = Ok(r)
  /\ phase[r] = "answered" /\ kind[r] \in {"health", "workflows", "workflow", "overview"} =>
       \/ shown[r] = Ok(r)
       \/ kind[r] = "overview" /\ ahead[r] > 0

Right(r) ==
  /\ Kept(r) /\ InTime(r) /\ CallsBegin(r) /\ CallsInTime(r)
  /\ LiveRounds(r) /\ HistoryFollows(r) /\ Shows(r)

OfRequests ==
  /\ kind \in Scenarios
  /\ phase \in [Request -> Phase] /\ client \in [Request -> BOOLEAN] /\ ahead \in [Request -> Nat]
  /\ age \in [Request -> Nat] /\ since \in [Request -> Nat]
  /\ DOMAIN result = Request /\ DOMAIN began = Request /\ DOMAIN shown = Request

(* Who waits and who holds the lock.                                       *)
Sharing ==
  /\ temporal \in BOOLEAN /\ connects \in {0, 1} /\ connects <= Cardinality(Request)
  /\ holder \in Request \cup {Nobody}
  /\ queue \in Seq(Request) /\ IsInjective(queue)
  /\ ToSet(queue) = {r \in Request : phase[r] = "waiting"}
  /\ LockIsHeld
  /\ \A r \in Request : client[r] => temporal

AllRight == OfRequests /\ Sharing /\ TurnsAreShort /\ \A r \in Request : Right(r)

LEMMA Kinds == ASSUME OfRequests, NEW r \in Request PROVE kind[r] \in Kind \cup {Unused}
BY ScenariosAreOfKinds DEF OfRequests

LEMMA IInvIsRight == IInv => AllRight
<1> SUFFICES ASSUME IInv PROVE AllRight
  OBVIOUS
<1>1. TypeOK /\ connects <= 1 /\ \A r \in Request : client[r] => temporal
  BY DEF IInv, OneConnection
<1>2. Longest \in Nat /\ 0 .. Longest \subseteq Nat
  BY LongestIsLong
<1>3. OfRequests
  <2>1. age \in [Request -> Nat] /\ since \in [Request -> Nat]
    BY <1>1, <1>2 DEF TypeOK
  <2>2. QED
    BY <1>1, <2>1 DEF TypeOK, OfRequests
<1>4. Sharing
  BY <1>1, Times DEF IInv, TypeOK, Sharing
<1>5. ASSUME NEW r \in Request PROVE Right(r)
  <2>1. Kept(r)
    BY <1>1 DEF TypeOK, Kept
  <2>2. Shows(r)
    BY DEF IInv, AnsweredIsShown, LiveDegradesAlone, OthersShown, Shows
  <2>3. QED
    BY <2>1, <2>2 DEF IInv, Right
<1>6. QED
  BY <1>3, <1>4, <1>5 DEF AllRight, IInv

LEMMA RightIsIInv == AllRight => IInv
<1> SUFFICES ASSUME AllRight PROVE IInv
  OBVIOUS
<1>1. OfRequests /\ Sharing /\ \A r \in Request : Right(r)
  BY DEF AllRight
<1>2. TypeOK
  <2>1. holder # Nobody <=> \E r \in Request : phase[r] = "connecting"
    BY <1>1, RequestsAreFinite DEF Sharing, LockIsHeld
  <2>2. connects \in 0 .. Cardinality(Request)
    BY <1>1, Times DEF Sharing
  <2>3. age \in [Request -> 0 .. Longest] /\ since \in [Request -> 0 .. Longest]
    BY <1>1 DEF OfRequests, Right, Kept
  <2>4. QED
    BY <1>1, <2>1, <2>2, <2>3 DEF TypeOK, OfRequests, Sharing, Right, Kept
<1>3. AnsweredIsShown
  BY <1>1 DEF Right, Shows, AnsweredIsShown, LiveDegradesAlone, OthersShown
<1>4. OneConnection
  BY <1>1, <1>2 DEF OneConnection, Sharing
<1>5. QED
  BY <1>1, <1>3, <1>4 DEF IInv, AllRight, Sharing, Right

(* A request that a step does not concern stays right.                     *)
LEMMA Untouched ==
  ASSUME NEW r \in Request, Right(r), kind'[r] = kind[r], phase'[r] = phase[r],
         client'[r] = client[r], result'[r] = result[r], began'[r] = began[r],
         since'[r] = since[r], age'[r] = age[r], shown'[r] = shown[r], ahead'[r] = ahead[r]
  PROVE  Right(r)'
<1>1. Kept(r)' /\ InTime(r)'
  BY DEF Right, Kept, InTime, Served
<1>2. CallsBegin(r)'
  BY DEF Right, CallsBegin
<1>3. CallsInTime(r)'
  BY DEF Right, CallsInTime
<1>4. LiveRounds(r)' /\ HistoryFollows(r)'
  BY DEF Right, LiveRounds, HistoryFollows
<1>5. Shows(r)'
  BY DEF Right, Shows, Answered, Ok
<1>6. QED
  BY <1>1, <1>2, <1>3, <1>4, <1>5 DEF Right

(* A request begins its calls.                                             *)
LEMMA WorkIsRight ==
  ASSUME AllRight, NEW r \in Request, NEW hasClient \in BOOLEAN, Work(r, hasClient),
         phase[r] \in {"idle", "waiting", "connecting"}, UNCHANGED <<kind, age, shown>>,
         ahead' \in [Request -> Nat], \A q \in Request \ {r} : ahead'[q] = ahead[q],
         ahead'[r] + 1 <= Cardinality(Request), age[r] <= (ahead'[r] + 1) * Probe
  PROVE  /\ OfRequests' /\ \A q \in Request : Right(q)'
         /\ phase' = [phase EXCEPT ![r] = "working"] /\ client' = [client EXCEPT ![r] = hasClient]
         /\ \A q \in Request \ {r} : since'[q] = since[q]
<1>1. OfRequests /\ TypeOK /\ \A q \in Request : Right(q)
  BY RightIsIInv DEF AllRight, IInv, OneConnection
<1>2. result[r] \in [Calls(kind[r]) -> Result] /\ age[r] \in 0 .. Longest /\ age[r] \in Nat
      /\ shown[r] \subseteq Calls(kind[r]) /\ Longest \in Nat
  BY <1>1, LongestIsLong DEF Right, Kept
<1> DEFINE res == Advance(r, result[r], hasClient)
<1>3. \A c \in Calls(kind[r]) : result[r][c] = "none"
  BY <1>1 DEF Right, CallsBegin
<1>4. /\ res \in [Calls(kind[r]) -> Result]
      /\ \A c \in Calls(kind[r]) :
           /\ res[c] \in {"none", "running", "skipped"}
           /\ res[c] # "none" <=> \A b \in Before(kind[r], c) : Ended(result[r], b)
  BY <1>2, <1>3, Advances
<1>5. SetResult(r, res)
  BY DEF Work
<1>6. /\ DOMAIN result' = Request /\ DOMAIN began' = Request /\ result'[r] = res
      /\ \A q \in Request \ {r} : result'[q] = result[q] /\ began'[q] = began[q]
      /\ began'[r] \in [Calls(kind[r]) -> 0 .. Longest]
      /\ \A c \in Calls(kind[r]) : began'[r][c] = age[r]
  BY <1>1, <1>3, <1>4, <1>5, ResultIsSet
<1>7. /\ phase' = [phase EXCEPT ![r] = "working"] /\ client' = [client EXCEPT ![r] = hasClient]
      /\ since' = [since EXCEPT ![r] = IF kind[r] = "overview" THEN 0 ELSE age[r]]
  BY DEF Work
<1>8. OfRequests'
  BY <1>1, <1>2, <1>6, <1>7 DEF OfRequests, Phase
<1>9. /\ phase'[r] = "working" /\ client'[r] = hasClient /\ kind'[r] = kind[r] /\ age'[r] = age[r]
      /\ shown'[r] = shown[r] /\ ahead'[r] \in Nat
      /\ since'[r] = IF kind[r] = "overview" THEN 0 ELSE age[r]
  BY <1>1, <1>7 DEF OfRequests
<1>10. Kept(r)'
  BY <1>2, <1>4, <1>6, <1>9 DEF Kept, Phase
<1>11. InTime(r)'
  <2>1. (ahead'[r] + 1) * Probe \in Nat
    BY <1>9, Turns
  <2>2. Whole(kind[r]) \in Nat
    BY <1>1, Kinds, Limits
  <2>3. QED
    BY <1>2, <1>9, <2>1, <2>2, Times DEF InTime, Served, Longer
<1>12. CallsBegin(r)'
  BY <1>4, <1>6, <1>9 DEF CallsBegin
<1>13. CallsInTime(r)'
  <2>1. \A c \in Calls(kind[r]) : Limit(kind[r], c) # Never => Limit(kind[r], c) \in Nat
    BY Times DEF Limit
  <2>2. QED
    BY <1>2, <1>6, <1>9, <2>1 DEF CallsInTime
<1>14. LiveRounds(r)'
  <2>1. SUFFICES ASSUME kind[r] = "live" PROVE LiveRounds(r)'
    BY <1>9 DEF LiveRounds
  <2>2. /\ {"inventory", "intent", "executions", "device"} = Calls(kind[r])
        /\ ~Ended(result[r], "inventory") /\ ~Ended(result[r], "intent")
    BY <1>3, <2>1, LiveCalls DEF Ended
  <2>3. /\ res["intent"] = "none" /\ res["executions"] = "none" /\ res["device"] = "none"
        /\ res["inventory"] # "ok"
    BY <1>4, <2>1, <2>2, LiveCalls
  <2>4. QED
    BY <1>2, <1>6, <1>9, <2>1, <2>3, Times DEF LiveRounds
<1>15. HistoryFollows(r)'
  <2>1. ASSUME kind[r] = "workflow" PROVE res["history"] = "none"
    BY <1>3, <1>4, <2>1, WorkflowCalls DEF Ended
  <2>2. QED
    BY <1>6, <1>9, <2>1 DEF HistoryFollows
<1>16. Shows(r)'
  BY <1>9 DEF Shows, Answered
<1>17. ASSUME NEW q \in Request \ {r} PROVE Right(q)' /\ since'[q] = since[q]
  <2>1. /\ kind'[q] = kind[q] /\ phase'[q] = phase[q] /\ client'[q] = client[q]
        /\ since'[q] = since[q] /\ age'[q] = age[q] /\ shown'[q] = shown[q]
    BY <1>1, <1>7 DEF OfRequests
  <2>2. QED
    BY <1>1, <1>6, <2>1, Untouched
<1>18. QED
  BY <1>7, <1>8, <1>10, <1>11, <1>12, <1>13, <1>14, <1>15, <1>16, <1>17 DEF Right

(* A call ends and others begin.                                           *)
LEMMA EndIsRight ==
  ASSUME AllRight, NEW r \in Request, NEW c \in Calls(kind[r]), NEW v \in {"ok", "failed"},
         End(r, c, v)
  PROVE  AllRight'
<1>1. OfRequests /\ TypeOK /\ Sharing /\ TurnsAreShort /\ \A q \in Request : Right(q)
  BY RightIsIInv DEF AllRight, IInv, OneConnection
<1> DEFINE now == [result[r] EXCEPT ![c] = v]
<1> DEFINE next == Advance(r, now, client[r])
<1>2. /\ result[r] \in [Calls(kind[r]) -> Result] /\ client[r] \in BOOLEAN
      /\ age[r] \in Nat /\ since[r] \in Nat
      /\ \A d \in Calls(kind[r]) : began[r][d] \in Nat
  BY <1>1, LongestIsLong DEF Right, Kept
<1>3. /\ now \in [Calls(kind[r]) -> Result] /\ now[c] = v
      /\ \A d \in Calls(kind[r]) \ {c} : now[d] = result[r][d]
  BY <1>2 DEF Result
<1> HIDE DEF now
<1>4. /\ next \in [Calls(kind[r]) -> Result] /\ next[c] = v
      /\ \A d \in Calls(kind[r]) \ {c} :
           /\ result[r][d] # "none" => next[d] = result[r][d]
           /\ result[r][d] = "none" => next[d] \in {"none", "running", "skipped"}
           /\ result[r][d] = "none" =>
                (next[d] # "none" <=> \A b \in Before(kind[r], d) : Ended(now, b))
           /\ result[r][d] = "none" /\ next[d] = "running" =>
                \A b \in Requires(kind[r], d) : now[b] = "ok"
           /\ result[r][d] = "none" /\ next[d] = "skipped" =>
                \/ d \in OfTemporal /\ ~client[r]
                \/ \E b \in Requires(kind[r], d) : now[b] # "ok"
  BY <1>2, <1>3, Advances
<1>5. /\ phase[r] = "working" /\ result[r][c] = "running" /\ SetResult(r, next)
      /\ UNCHANGED <<sharing, kind, phase, client, since, age, shown, ahead>>
  BY DEF End, now
<1> HIDE DEF next
<1>6. /\ DOMAIN result' = Request /\ DOMAIN began' = Request /\ result'[r] = next
      /\ \A q \in Request \ {r} : result'[q] = result[q] /\ began'[q] = began[q]
      /\ began'[r] \in [Calls(kind[r]) -> 0 .. Longest]
      /\ \A d \in Calls(kind[r]) :
           began'[r][d] = IF result[r][d] = "none" THEN age[r] ELSE began[r][d]
  BY <1>1, <1>4, <1>5, ResultIsSet
<1>7. OfRequests' /\ Sharing' /\ TurnsAreShort'
  BY <1>1, <1>5, <1>6 DEF OfRequests, Sharing, sharing, LockIsHeld, TurnsAreShort
<1>8. \A q \in Request \ {r} : Right(q)'
  BY <1>1, <1>5, <1>6, Untouched
<1>9. Kept(r)' /\ InTime(r)'
  BY <1>1, <1>4, <1>5, <1>6 DEF Right, Kept, InTime, Served
<1>10. CallsBegin(r)'
  <2>1. \A d \in Calls(kind[r]) : Before(kind[r], d) = {} => result[r][d] # "none"
    BY <1>1, <1>5 DEF Right, CallsBegin
  <2>2. \A d \in Calls(kind[r]) : Before(kind[r], d) = {} => next[d] # "none"
    BY <1>4, <2>1
  <2>3. QED
    BY <1>5, <1>6, <2>2 DEF CallsBegin
<1>11. CallsInTime(r)'
  <2>1. SUFFICES ASSUME NEW d \in Calls(kind[r]), next[d] = "running"
                 PROVE  /\ began'[r][d] <= age[r]
                        /\ Limit(kind[r], d) # Never => age[r] <= began'[r][d] + Limit(kind[r], d)
                        /\ Before(kind[r], d) = {} =>
                             began'[r][d] <= IF kind[r] = "overview" THEN (ahead[r] + 1) * Probe
                                             ELSE since[r]
    BY <1>5, <1>6 DEF CallsInTime
  <2>2. d # c
    BY <1>4, <2>1
  <2>3. CASE result[r][d] = "none"
    <3>1. began'[r][d] = age[r] /\ Before(kind[r], d) # {}
      BY <1>1, <1>5, <1>6, <2>3 DEF Right, CallsBegin
    <3>2. Limit(kind[r], d) # Never => Limit(kind[r], d) \in Nat
      BY Times DEF Limit
    <3>3. QED
      BY <1>2, <3>1, <3>2
  <2>4. CASE result[r][d] # "none"
    <3>1. began'[r][d] = began[r][d] /\ result[r][d] = "running"
      BY <1>4, <1>6, <2>1, <2>2, <2>4
    <3>2. QED
      BY <1>1, <1>5, <3>1 DEF Right, CallsInTime
  <2>5. QED
    BY <2>3, <2>4
<1>12. LiveRounds(r)'
  <2>1. SUFFICES ASSUME kind[r] = "live" PROVE LiveRounds(r)'
    BY <1>5 DEF LiveRounds
  <2>2. Calls(kind[r]) = {"inventory", "intent", "executions", "device"}
    BY <2>1, LiveCalls
  <2>3. /\ age[r] <= since[r] + 2 * Overview + Live
        /\ result[r]["inventory"] = "running" =>
             \A d \in {"intent", "executions", "device"} : result[r][d] = "none"
        /\ result[r]["inventory"] = "ok" =>
             /\ \A d \in {"intent", "executions"} :
                  /\ result[r][d] # "none"
                  /\ result[r][d] = "running" => began[r][d] <= since[r] + Overview
             /\ result[r]["device"] = "none" =>
                  "running" \in {result[r]["intent"], result[r]["executions"]}
             /\ result[r]["device"] = "running" => began[r]["device"] <= since[r] + 2 * Overview
    BY <1>1, <1>5, <2>1 DEF Right, LiveRounds
  <2>4. result[r]["inventory"] # "none"
    BY <1>1, <1>5, <2>1, <2>2, LiveCalls DEF Right, CallsBegin
  <2>5. Overview \in Nat /\ Live \in Nat /\ Overview # Never
    BY Times DEF Never
  <2>6. c # "device" => age[r] <= began[r][c] + Overview
    BY <1>1, <1>5, <2>1, <2>2, <2>5, LiveCalls DEF Right, CallsInTime
  <2>7. c = "inventory" => began[r][c] <= since[r]
    BY <1>1, <1>5, <2>1, LiveCalls DEF Right, CallsInTime
  <2> DEFINE P ==
        /\ next["inventory"] = "running" =>
             \A d \in {"intent", "executions", "device"} : next[d] = "none"
        /\ next["inventory"] = "ok" =>
             /\ \A d \in {"intent", "executions"} :
                  /\ next[d] # "none"
                  /\ next[d] = "running" => began'[r][d] <= since[r] + Overview
             /\ next["device"] = "none" => "running" \in {next["intent"], next["executions"]}
             /\ next["device"] = "running" => began'[r]["device"] <= since[r] + 2 * Overview
  <2>8. SUFFICES P
    BY <1>5, <1>6, <2>3 DEF LiveRounds
  <2>9. CASE result[r]["inventory"] = "running"
    <3>1. c = "inventory" /\ age[r] <= since[r] + Overview
      BY <1>2, <1>5, <2>2, <2>3, <2>5, <2>6, <2>7, <2>9
    <3>2. CASE v = "failed"
      BY <1>4, <3>1, <3>2
    <3>3. CASE v = "ok"
      <4>1. /\ result[r]["intent"] = "none" /\ result[r]["executions"] = "none"
            /\ result[r]["device"] = "none"
        BY <2>3, <2>9
      <4>2. /\ now["inventory"] = "ok" /\ now["intent"] = "none" /\ next["inventory"] = "ok"
        BY <1>3, <1>4, <2>2, <3>1, <3>3, <4>1
      <4>3. Ended(now, "inventory") /\ ~Ended(now, "intent")
        BY <4>2 DEF Ended
      <4>4. next["intent"] # "none" /\ next["executions"] # "none"
        BY <1>4, <2>1, <2>2, <3>1, <4>1, <4>3, LiveCalls
      <4>5. next["device"] = "none"
        BY <1>4, <2>1, <2>2, <3>1, <4>1, <4>3, LiveCalls
      <4>6. next["intent"] = "running"
        BY <1>4, <2>1, <2>2, <3>1, <4>1, <4>2, <4>4, LiveCalls
      <4>7. began'[r]["intent"] = age[r] /\ began'[r]["executions"] = age[r]
        BY <1>6, <2>2, <4>1
      <4>8. QED
        BY <3>1, <4>2, <4>4, <4>5, <4>6, <4>7
    <3>4. QED
      BY <3>2, <3>3
  <2>10. CASE result[r]["inventory"] = "ok"
    <3>1. c # "inventory" /\ next["inventory"] = "ok"
      BY <1>4, <1>5, <2>2, <2>10
    <3>2. ASSUME NEW d \in {"intent", "executions"}
          PROVE  /\ next[d] # "none" /\ now[d] # "none"
                 /\ next[d] = "running" => began'[r][d] <= since[r] + Overview
                 /\ ~Ended(now, d) => next[d] = "running"
      <4>1. result[r][d] # "none" /\ began'[r][d] = began[r][d]
        BY <1>6, <2>2, <2>3, <2>10
      <4>2. next[d] = now[d] /\ next[d] # "none"
        BY <1>3, <1>4, <2>2, <4>1
      <4>3. next[d] = "running" => result[r][d] = "running"
        BY <1>4, <2>2, <4>1
      <4>4. ~Ended(now, d) => next[d] = "running"
        BY <1>4, <2>2, <4>2 DEF Ended, Result
      <4>5. QED
        BY <2>3, <2>10, <4>1, <4>2, <4>3, <4>4
    <3>3. CASE result[r]["device"] = "none"
      <4>1. c \in {"intent", "executions"}
        BY <1>5, <2>2, <3>1, <3>3
      <4>2. age[r] <= since[r] + 2 * Overview
        BY <1>2, <1>5, <2>2, <2>3, <2>5, <2>6, <2>10, <4>1
      <4>3. began'[r]["device"] = age[r] /\ c # "device"
        BY <1>6, <2>2, <3>3, <4>1
      <4>4. next["device"] = "none" => ~Ended(now, "intent") \/ ~Ended(now, "executions")
        BY <1>4, <2>1, <2>2, <3>3, <4>1, LiveCalls
      <4>5. QED
        BY <3>1, <3>2, <4>2, <4>3, <4>4
    <3>4. CASE result[r]["device"] # "none"
      <4>1. next["device"] # "none" /\ began'[r]["device"] = began[r]["device"]
        BY <1>4, <1>6, <2>2, <3>4
      <4>2. next["device"] = "running" => result[r]["device"] = "running"
        BY <1>4, <2>2, <3>4
      <4>3. QED
        BY <2>3, <2>10, <3>1, <3>2, <4>1, <4>2
    <3>5. QED
      BY <3>3, <3>4
  <2>11. CASE result[r]["inventory"] \notin {"none", "running", "ok"}
    BY <1>4, <1>5, <2>2, <2>11
  <2>12. QED
    BY <2>4, <2>9, <2>10, <2>11
<1>13. HistoryFollows(r)'
  <2>1. SUFFICES ASSUME kind[r] = "workflow", next["describe"] # "ok"
                 PROVE  next["history"] \in {"none", "skipped"}
    BY <1>5, <1>6 DEF HistoryFollows
  <2>2. Calls(kind[r]) = {"describe", "history"} /\ "describe" \in Requires(kind[r], "history")
    BY <2>1, WorkflowCalls
  <2>3. result[r]["describe"] # "ok"
    BY <1>4, <1>5, <2>1, <2>2
  <2>4. result[r]["history"] \in {"none", "skipped"}
    BY <1>1, <2>1, <2>3 DEF Right, HistoryFollows
  <2>5. c = "describe"
    BY <1>5, <2>2, <2>4
  <2>6. now["describe"] # "ok"
    BY <1>3, <1>4, <2>1, <2>5
  <2>7. QED
    BY <1>4, <2>2, <2>4, <2>5, <2>6
<1>14. Shows(r)'
  BY <1>5 DEF Shows, Answered
<1>15. QED
  BY <1>7, <1>8, <1>9, <1>10, <1>11, <1>12, <1>13, <1>14 DEF Right, AllRight

-----------------------------------------------------------------------------
(* Requests that neither wait nor connect do not touch the lock.           *)
LEMMA SharingStays ==
  ASSUME OfRequests, Sharing, TurnsAreShort, UNCHANGED sharing,
         \A q \in Request : client'[q] => client[q] \/ temporal,
         \A q \in Request :
           /\ phase[q] \in {"waiting", "connecting"} =>
                /\ phase'[q] = phase[q] /\ age'[q] = age[q] /\ since'[q] = since[q]
                /\ ahead'[q] = ahead[q]
           /\ phase'[q] \in {"waiting", "connecting"} => phase'[q] = phase[q]
  PROVE  Sharing' /\ TurnsAreShort'
<1>1. UNCHANGED <<temporal, holder, queue, connects>>
  BY DEF sharing
<1>2. /\ \A q \in Request : phase'[q] = "waiting" <=> phase[q] = "waiting"
      /\ \A q \in Request : phase'[q] = "connecting" <=> phase[q] = "connecting"
  OBVIOUS
<1>3. {q \in Request : phase'[q] = "waiting"} = {q \in Request : phase[q] = "waiting"}
  BY <1>2
<1>4. Sharing'
  BY <1>1, <1>2, <1>3 DEF Sharing, LockIsHeld
<1>5. ASSUME NEW i \in 1 .. Len(queue)
      PROVE  /\ queue[i] \in Request /\ phase[queue[i]] = "waiting"
             /\ holder # Nobody => holder \in Request /\ phase[holder] = "connecting"
  <2>1. queue \in Seq(Request) /\ queue[i] \in ToSet(queue)
    BY DEF Sharing, ToSet
  <2>2. QED
    BY <2>1 DEF Sharing, LockIsHeld
<1>6. TurnsAreShort'
  BY <1>1, <1>5 DEF TurnsAreShort
<1>7. QED
  BY <1>4, <1>6

LEMMA AnswerIsRight ==
  ASSUME AllRight, NEW r \in Request, NEW how \in {"answered", "timed_out"},
         NEW calls \in SUBSET Calls(kind[r]), phase[r] = "working", Answer(r, how, calls),
         kind[r] = "live" =>
           how = "answered" /\ (result[r]["inventory"] = "ok" => calls = Ok(r)),
         how = "answered" /\ kind[r] \in {"health", "workflows", "workflow", "overview"} =>
           calls = Ok(r) \/ (kind[r] = "overview" /\ ahead[r] > 0)
  PROVE  AllRight'
<1>1. OfRequests /\ Sharing /\ TurnsAreShort /\ \A q \in Request : Right(q)
  BY DEF AllRight
<1>2. /\ phase' = [phase EXCEPT ![r] = how] /\ shown' = [shown EXCEPT ![r] = calls]
      /\ age' = [age EXCEPT ![r] = 0] /\ since' = [since EXCEPT ![r] = 0]
      /\ began' = [began EXCEPT ![r] = [c \in Calls(kind[r]) |-> 0]]
      /\ UNCHANGED <<sharing, kind, client, result, ahead>>
  BY DEF Answer
<1>3. /\ phase'[r] = how /\ shown'[r] = calls /\ age'[r] = 0 /\ since'[r] = 0
      /\ began'[r] = [c \in Calls(kind[r]) |-> 0]
      /\ \A q \in Request \ {r} : /\ phase'[q] = phase[q] /\ shown'[q] = shown[q]
                                  /\ age'[q] = age[q] /\ since'[q] = since[q]
                                  /\ began'[q] = began[q]
  BY <1>1, <1>2 DEF OfRequests
<1>4. OfRequests'
  BY <1>1, <1>2 DEF OfRequests, Phase
<1>5. Sharing' /\ TurnsAreShort'
  BY <1>1, <1>2, <1>3, SharingStays
<1>6. \A q \in Request \ {r} : Right(q)'
  BY <1>1, <1>2, <1>3, Untouched
<1>7. Kept(r)' /\ InTime(r)'
  <2>1. 0 \in 0 .. Longest
    BY LongestIsLong
  <2>2. Kept(r)'
    BY <1>1, <1>2, <1>3, <2>1 DEF Right, Kept, Phase
  <2>3. InTime(r)'
    BY <1>1, <1>2, <1>3 DEF Right, InTime, Served
  <2>4. QED
    BY <2>2, <2>3
<1>8. CallsBegin(r)' /\ CallsInTime(r)' /\ LiveRounds(r)' /\ HistoryFollows(r)'
  BY <1>1, <1>2, <1>3 DEF Right, CallsBegin, CallsInTime, LiveRounds, HistoryFollows
<1>9. Shows(r)'
  BY <1>2, <1>3 DEF Shows, Answered, Ok
<1>10. QED
  BY <1>4, <1>5, <1>6, <1>7, <1>8, <1>9 DEF Right, AllRight

(* Nothing fatal has ended badly, or nothing has been read that could be   *)
(* shown.                                                                  *)
LEMMA CompleteIsRight == ASSUME AllRight, NEW r \in Request, Complete(r) PROVE AllRight'
<1>1. phase[r] = "working" /\ Answer(r, "answered", IF FatalEnded(r) THEN {} ELSE Ok(r))
  BY DEF Complete
<1>2. Ok(r) \subseteq Calls(kind[r])
  BY DEF Ok
<1>3. FatalEnded(r) => \E c \in Fatal(kind[r]) : result[r][c] \in {"failed", "skipped"}
  BY DEF FatalEnded
<1>4. kind[r] = "live" /\ result[r]["inventory"] = "ok" => ~FatalEnded(r)
  BY <1>3, LiveCalls
<1>5. kind[r] \in {"health", "workflows", "overview"} => ~FatalEnded(r)
  BY <1>3, ProbeCalls
<1>6. kind[r] = "workflow" /\ FatalEnded(r) => Ok(r) = {}
  <2>1. SUFFICES ASSUME kind[r] = "workflow", FatalEnded(r) PROVE Ok(r) = {}
    OBVIOUS
  <2>2. result[r]["describe"] \in {"failed", "skipped"}
    BY <1>3, <2>1, WorkflowCalls
  <2>3. result[r]["history"] \in {"none", "skipped"}
    BY <2>1, <2>2 DEF AllRight, Right, HistoryFollows
  <2>4. QED
    BY <2>1, <2>2, <2>3, WorkflowCalls DEF Ok
<1>7. QED
  BY <1>1, <1>2, <1>4, <1>5, <1>6, AnswerIsRight

(* Only an overview, and what is not to be shown, runs out of time.        *)
LEMMA TimesOutIsRight == ASSUME AllRight, NEW r \in Request, TimesOut(r) PROVE AllRight'
<1>1. /\ phase[r] = "working" /\ Outer(kind[r]) # Never /\ age[r] - since[r] >= Outer(kind[r])
      /\ Right(r) /\ kind[r] \in Kind \cup {Unused} /\ age[r] \in Nat /\ since[r] \in Nat
  BY Kinds DEF TimesOut, OuterDue, AllRight, OfRequests
<1>2. kind[r] # "live"
  <2>1. SUFFICES ASSUME kind[r] = "live" PROVE FALSE
    OBVIOUS
  <2>2. age[r] <= since[r] + 2 * Overview + Live
    BY <1>1, <2>1 DEF Right, LiveRounds
  <2>3. Outer(kind[r]) = Live + 2 * Overview + 1
    BY <2>1, <1>1, Limits
  <2>4. QED
    BY <1>1, <2>2, <2>3, Times
<1>3. CASE kind[r] = "overview"
  <2>1. Answer(r, "answered", Sections(r))
    BY <1>3 DEF TimesOut
  <2>2. Sections(r) \subseteq Calls(kind[r])
    BY DEF Sections, Ok
  <2>3. ASSUME ahead[r] = 0 PROVE Sections(r) = Ok(r)
    <3>1. since[r] = 0 /\ Outer(kind[r]) = Overview
      BY <1>1, <1>3, Limits DEF Right, InTime
    <3>2. ASSUME NEW d \in Probes PROVE Ended(result[r], d)
      <4>1. /\ d \in Calls(kind[r]) /\ Before(kind[r], d) = {} /\ Limit(kind[r], d) = Probe
            /\ Probe # Never
        BY <1>3, ProbeCalls, Times DEF Kind, Never
      <4>2. result[r][d] # "none" /\ result[r][d] \in Result
        BY <1>1, <4>1 DEF Right, CallsBegin, Kept
      <4>3. result[r][d] # "running"
        <5>1. SUFFICES ASSUME result[r][d] = "running" PROVE FALSE
          OBVIOUS
        <5>2. /\ age[r] <= began[r][d] + Probe /\ began[r][d] <= (0 + 1) * Probe
          BY <1>1, <1>3, <2>3, <4>1, <5>1 DEF Right, CallsInTime
        <5>3. began[r][d] \in Nat
          BY <1>1, <4>1, LongestIsLong DEF Right, Kept
        <5>4. QED
          BY <1>1, <3>1, <5>2, <5>3, Times
      <4>4. QED
        BY <4>2, <4>3 DEF Result, Ended
    <3>3. \A c \in Ok(r) : \A d \in Section(c) : Ended(result[r], d)
      BY <3>2 DEF Section, Ok, Ended
    <3>4. QED
      BY <3>3 DEF Sections, Ok
  <2>4. ahead[r] \in Nat
    BY <1>1 DEF Right, Kept
  <2>5. QED
    BY <1>1, <1>3, <2>1, <2>2, <2>3, <2>4, AnswerIsRight
<1>4. CASE kind[r] # "overview"
  <2>1. Answer(r, "timed_out", {})
    BY <1>4 DEF TimesOut
  <2>2. QED
    BY <1>1, <1>2, <2>1, AnswerIsRight
<1>5. QED
  BY <1>3, <1>4

-----------------------------------------------------------------------------
(* Those who wait are the queue, and those who connect hold the lock.      *)
LEMMA Waiters ==
  ASSUME Sharing, NEW r \in Request, phase[r] = "idle"
  PROVE  LET n == Cardinality({q \in Request : phase[q] \in {"waiting", "connecting"}})
         IN  /\ n \in Nat /\ n + 1 <= Cardinality(Request)
             /\ n = IF holder = Nobody THEN Len(queue) ELSE Len(queue) + 1
<1> DEFINE W == {q \in Request : phase[q] = "waiting"}
<1> DEFINE B == {q \in Request : phase[q] \in {"waiting", "connecting"}}
<1>1. /\ queue \in Seq(Request) /\ Len(queue) \in Nat /\ DOMAIN queue = 1 .. Len(queue)
      /\ ToSet(queue) = W /\ IsInjective(queue)
  BY LenProperties DEF Sharing
<1>2. queue \in Bijection(1 .. Len(queue), W)
  <2>1. W = {queue[i] : i \in 1 .. Len(queue)}
    BY <1>1 DEF ToSet
  <2>2. queue \in [1 .. Len(queue) -> Request]
    BY <1>1, LenProperties
  <2>3. queue \in [1 .. Len(queue) -> W]
    BY <2>1, <2>2
  <2>4. QED
    BY <1>1, <2>1, <2>3 DEF Bijection, Injection, Surjection
<1>3. IsFiniteSet(1 .. Len(queue)) /\ Cardinality(1 .. Len(queue)) = Len(queue)
  <2>1. IsFiniteSet(1 .. Len(queue))
    BY <1>1, FS_Interval
  <2>2. Cardinality(1 .. Len(queue)) = IF 1 > Len(queue) THEN 0 ELSE Len(queue) - 1 + 1
    BY <1>1, FS_Interval
  <2>3. QED
    BY <1>1, <2>1, <2>2
<1>4. IsFiniteSet(W) /\ Cardinality(W) = Len(queue)
  <2>1. ExistsBijection(1 .. Len(queue), W)
    BY <1>2 DEF ExistsBijection
  <2>2. QED
    BY <1>3, <2>1, FS_Bijection
<1>5. /\ \A q \in Request : phase[q] = "connecting" <=> holder = q
      /\ holder \in Request \cup {Nobody} /\ Nobody \notin Request
  BY RequestsAreFinite DEF Sharing, LockIsHeld
<1>6. IsFiniteSet(B) /\ Cardinality(B) = IF holder = Nobody THEN Len(queue) ELSE Len(queue) + 1
  <2>1. CASE holder = Nobody
    <3>1. B = W
      BY <1>5, <2>1
    <3>2. QED
      BY <1>4, <2>1, <3>1
  <2>2. CASE holder # Nobody
    <3>1. B = W \cup {holder} /\ holder \notin W
      BY <1>5, <2>2
    <3>2. IsFiniteSet(W \cup {holder}) /\ Cardinality(W \cup {holder}) = Cardinality(W) + 1
      BY <1>4, <3>1, FS_AddElement
    <3>3. QED
      BY <1>4, <2>2, <3>1, <3>2
  <2>3. QED
    BY <2>1, <2>2
<1>7. Cardinality(B) + 1 <= Cardinality(Request)
  <2>1. r \notin B /\ B \cup {r} \subseteq Request
    OBVIOUS
  <2>2. Cardinality(B \cup {r}) = Cardinality(B) + 1
    BY <1>6, <2>1, FS_AddElement
  <2>3. Cardinality(B \cup {r}) <= Cardinality(Request)
    BY <2>1, FS_Subset, RequestsAreFinite
  <2>4. QED
    BY <2>2, <2>3
<1>8. QED
  BY <1>1, <1>6, <1>7

(* A request queues, or takes the lock to connect.                         *)
LEMMA AsksIsRight ==
  ASSUME AllRight, NEW r \in Request, NEW p \in {"waiting", "connecting"},
         phase[r] \in {"idle", "waiting"}, phase' = [phase EXCEPT ![r] = p],
         since' = [since EXCEPT ![r] = age[r]],
         UNCHANGED <<kind, age, shown, client, result, began>>,
         ahead' \in [Request -> Nat], \A q \in Request \ {r} : ahead'[q] = ahead[q],
         ahead'[r] + 1 <= Cardinality(Request),
         p = "connecting" => age[r] <= ahead'[r] * Probe
  PROVE  OfRequests' /\ \A q \in Request : Right(q)'
<1>1. OfRequests /\ \A q \in Request : Right(q)
  BY DEF AllRight
<1>2. OfRequests'
  BY <1>1 DEF OfRequests, Phase
<1>3. /\ phase'[r] = p /\ since'[r] = age[r] /\ age[r] \in Nat /\ ahead'[r] \in Nat
      /\ \A q \in Request \ {r} : phase'[q] = phase[q] /\ since'[q] = since[q]
  BY <1>1 DEF OfRequests
<1>4. \A q \in Request \ {r} : Right(q)'
  BY <1>1, <1>3, Untouched
<1>5. Kept(r)'
  BY <1>1, <1>3 DEF Right, Kept, Phase
<1>6. InTime(r)'
  BY <1>1, <1>3, Times DEF InTime, Served
<1>7. CallsBegin(r)' /\ CallsInTime(r)' /\ LiveRounds(r)' /\ HistoryFollows(r)' /\ Shows(r)'
  BY <1>1, <1>3 DEF Right, CallsBegin, CallsInTime, LiveRounds, HistoryFollows, Shows, Answered
<1>8. QED
  BY <1>2, <1>4, <1>5, <1>6, <1>7 DEF Right

LEMMA ArriveIsRight == ASSUME AllRight, NEW r \in Request, Arrive(r) PROVE AllRight'
<1>1. OfRequests /\ Sharing /\ TurnsAreShort /\ \A q \in Request : Right(q)
  BY DEF AllRight
<1> DEFINE n == Cardinality({q \in Request : phase[q] \in {"waiting", "connecting"}})
<1>2. /\ phase[r] = "idle" /\ ahead' = [ahead EXCEPT ![r] = n]
      /\ UNCHANGED <<temporal, kind, age, shown, connects>>
  BY DEF Arrive
<1>3. /\ n \in Nat /\ n + 1 <= Cardinality(Request)
      /\ n = IF holder = Nobody THEN Len(queue) ELSE Len(queue) + 1
  BY <1>1, <1>2, Waiters
<1> HIDE DEF n
<1>4. /\ ahead' \in [Request -> Nat] /\ ahead'[r] = n
      /\ \A q \in Request \ {r} : ahead'[q] = ahead[q]
  BY <1>1, <1>2, <1>3 DEF OfRequests
<1>5. age[r] = 0
  BY <1>1, <1>2 DEF Right, InTime, Served
<1>6. n * Probe \in Nat /\ age[r] <= ahead'[r] * Probe /\ age[r] <= (ahead'[r] + 1) * Probe
  <2>1. n * Probe \in Nat /\ (n + 1) * Probe \in Nat
    BY <1>3, Turns
  <2>2. QED
    BY <1>4, <1>5, <2>1
<1>7. CASE temporal
  <2>1. Work(r, TRUE) /\ UNCHANGED <<holder, queue>>
    BY <1>7 DEF Arrive
  <2>2. /\ OfRequests' /\ \A q \in Request : Right(q)'
        /\ phase' = [phase EXCEPT ![r] = "working"] /\ client' = [client EXCEPT ![r] = TRUE]
        /\ \A q \in Request \ {r} : since'[q] = since[q]
    BY <1>2, <1>3, <1>4, <1>5, <1>6, <2>1, WorkIsRight
  <2>3. /\ phase'[r] = "working"
        /\ \A q \in Request \ {r} : phase'[q] = phase[q] /\ since'[q] = since[q] /\ ahead'[q] = ahead[q]
    BY <1>1, <1>4, <2>2 DEF OfRequests
  <2>4. Sharing' /\ TurnsAreShort'
    BY <1>1, <1>2, <1>7, <2>1, <2>3, SharingStays DEF sharing
  <2>5. QED
    BY <2>2, <2>4 DEF AllRight
<1>8. CASE ~temporal /\ holder = Nobody /\ queue = <<>>
  <2>1. /\ holder' = r /\ phase' = [phase EXCEPT ![r] = "connecting"] /\ UNCHANGED queue
        /\ since' = [since EXCEPT ![r] = age[r]] /\ UNCHANGED <<client, result, began>>
    BY <1>8 DEF Arrive
  <2>2. OfRequests' /\ \A q \in Request : Right(q)'
    BY <1>2, <1>3, <1>4, <1>5, <1>6, <2>1, AsksIsRight
  <2>3. \A q \in Request : phase'[q] = IF q = r THEN "connecting" ELSE phase[q]
    BY <1>1, <2>1 DEF OfRequests
  <2>4. {q \in Request : phase'[q] = "waiting"} = {q \in Request : phase[q] = "waiting"}
    BY <1>2, <2>3
  <2>5. LockIsHeld'
    BY <1>1, <1>2, <1>8, <2>1, <2>3, RequestsAreFinite DEF Sharing, LockIsHeld
  <2>6. Sharing'
    BY <1>1, <1>2, <2>1, <2>4, <2>5 DEF Sharing
  <2>7. TurnsAreShort'
    BY <1>8, <2>1, EmptySeq DEF TurnsAreShort
  <2>8. QED
    BY <2>2, <2>6, <2>7 DEF AllRight
<1>9. CASE ~temporal /\ ~(holder = Nobody /\ queue = <<>>)
  <2>1. /\ queue' = Append(queue, r) /\ phase' = [phase EXCEPT ![r] = "waiting"]
        /\ UNCHANGED holder /\ since' = [since EXCEPT ![r] = age[r]]
        /\ UNCHANGED <<client, result, began>>
    BY <1>9 DEF Arrive
  <2>2. OfRequests' /\ \A q \in Request : Right(q)'
    BY <1>2, <1>3, <1>4, <1>5, <1>6, <2>1, AsksIsRight
  <2>3. \A q \in Request : phase'[q] = IF q = r THEN "waiting" ELSE phase[q]
    BY <1>1, <2>1 DEF OfRequests
  <2>4. /\ queue \in Seq(Request) /\ Len(queue) \in Nat /\ DOMAIN queue = 1 .. Len(queue)
        /\ queue' \in Seq(Request) /\ Len(queue') = Len(queue) + 1
        /\ DOMAIN queue' = 1 .. Len(queue) + 1
        /\ \A i \in 1 .. Len(queue) : queue'[i] = queue[i]
        /\ queue'[Len(queue) + 1] = r
    <3>1. queue \in Seq(Request) /\ queue' \in Seq(Request)
      BY <1>1, <2>1, AppendProperties DEF Sharing
    <3>2. QED
      BY <2>1, <3>1, AppendProperties, LenProperties
  <2>5. \A i \in 1 .. Len(queue) : queue[i] \in Request \ {r} /\ phase[queue[i]] = "waiting"
    <3>1. \A i \in 1 .. Len(queue) : queue[i] \in ToSet(queue)
      BY <2>4 DEF ToSet
    <3>2. QED
      BY <1>1, <1>2, <3>1 DEF Sharing
  <2>6. IsInjective(queue')
    <3>1. \A i, j \in 1 .. Len(queue) : queue[i] = queue[j] => i = j
      BY <1>1, <2>4 DEF Sharing, IsInjective
    <3>2. QED
      BY <2>4, <2>5, <3>1 DEF IsInjective
  <2>7. ToSet(queue') = {q \in Request : phase'[q] = "waiting"}
    <3>1. ToSet(queue) = {queue[i] : i \in 1 .. Len(queue)}
      BY <2>4 DEF ToSet
    <3>2. ToSet(queue') = {queue'[i] : i \in 1 .. Len(queue) + 1}
      BY <2>4 DEF ToSet
    <3>3. ToSet(queue') = ToSet(queue) \cup {r}
      BY <2>4, <3>1, <3>2
    <3>4. QED
      BY <1>1, <2>3, <3>3 DEF Sharing
  <2>8. LockIsHeld'
    BY <1>1, <1>2, <2>1, <2>3 DEF Sharing, LockIsHeld
  <2>9. Sharing'
    BY <1>1, <1>2, <2>1, <2>4, <2>6, <2>7, <2>8 DEF Sharing
  <2>10. \A i \in 1 .. Len(queue) : ahead'[queue[i]] = ahead[queue[i]]
    BY <1>4, <2>5
  <2>11. holder # Nobody => /\ holder \in Request \ {r} /\ since'[holder] = since[holder]
                            /\ age[holder] \in Nat /\ since[holder] \in Nat
                            /\ since[holder] <= age[holder]
    <3>1. holder # Nobody => holder \in Request /\ phase[holder] = "connecting"
      BY <1>1 DEF Sharing, LockIsHeld
    <3>2. QED
      BY <1>1, <1>2, <2>1, <3>1 DEF OfRequests, Right, InTime
  <2>12. ASSUME NEW i \in 1 .. Len(queue')
         PROVE  IF holder = Nobody
                  THEN age[queue'[i]] + (i - 1) * Probe <= ahead'[queue'[i]] * Probe
                  ELSE age[queue'[i]] + i * Probe
                         <= ahead'[queue'[i]] * Probe + (age[holder] - since'[holder])
    <3>1. CASE i \in 1 .. Len(queue)
      BY <1>1, <2>4, <2>10, <2>11, <3>1 DEF TurnsAreShort
    <3>2. CASE i = Len(queue) + 1
      <4>1. queue'[i] = r /\ ahead'[r] = n /\ age[r] = 0
        BY <1>4, <1>5, <2>4, <3>2
      <4>2. IF holder = Nobody THEN i - 1 = n ELSE i = n
        <5>1. Len(queue) \in Nat /\ i = Len(queue) + 1
          BY <2>4, <3>2
        <5>2. CASE holder = Nobody
          BY <1>3, <5>1, <5>2
        <5>3. CASE holder # Nobody
          BY <1>3, <5>1, <5>3
        <5>4. QED
          BY <5>2, <5>3
      <4>3. QED
        BY <1>6, <2>11, <4>1, <4>2
    <3>3. QED
      BY <2>4, <3>1, <3>2
  <2>13. TurnsAreShort'
    BY <1>2, <2>1, <2>12 DEF TurnsAreShort
  <2>14. QED
    BY <2>2, <2>9, <2>13 DEF AllRight
<1>10. QED
  BY <1>7, <1>8, <1>9
LEMMA AcquireIsRight == ASSUME AllRight, NEW r \in Request, Acquire(r) PROVE AllRight'
<1>1. OfRequests /\ Sharing /\ TurnsAreShort /\ \A q \in Request : Right(q)
  BY DEF AllRight
<1>2. /\ holder = Nobody /\ queue # <<>> /\ r = Head(queue) /\ queue' = Tail(queue)
      /\ UNCHANGED <<temporal, kind, age, shown, connects, ahead>>
  BY DEF Acquire
<1>3. /\ queue \in Seq(Request) /\ Len(queue) \in Nat /\ DOMAIN queue = 1 .. Len(queue)
      /\ queue' \in Seq(Request) /\ Len(queue') = Len(queue) - 1 /\ Len(queue') \in Nat
      /\ DOMAIN queue' = 1 .. Len(queue') /\ r = queue[1] /\ Len(queue) >= 1
      /\ \A i \in 1 .. Len(queue') : queue'[i] = queue[i + 1] /\ i + 1 \in 1 .. Len(queue)
  <2>1. queue \in Seq(Request)
    BY <1>1 DEF Sharing
  <2>2. queue' \in Seq(Request) /\ Len(queue') = Len(queue) - 1
    BY <1>2, <2>1, HeadTailProperties
  <2>3. \A i \in 1 .. Len(queue') : queue'[i] = queue[i + 1]
    BY <1>2, <2>1, HeadTailProperties
  <2>4. Len(queue) \in Nat /\ Len(queue') \in Nat
    BY <2>1, <2>2, LenProperties
  <2>5. r = queue[1]
    BY <1>2, <2>1
  <2>6. QED
    BY <2>1, <2>2, <2>3, <2>4, <2>5, LenProperties
<1>4. \A i, j \in 1 .. Len(queue) : queue[i] = queue[j] => i = j
  BY <1>1, <1>3 DEF Sharing, IsInjective
<1>5. \A i \in 1 .. Len(queue) : queue[i] \in Request /\ phase[queue[i]] = "waiting"
  <2>1. \A i \in 1 .. Len(queue) : queue[i] \in ToSet(queue)
    BY <1>3 DEF ToSet
  <2>2. QED
    BY <1>1, <2>1 DEF Sharing
<1>6. phase[r] = "waiting"
  BY <1>3, <1>5
<1>7. \A i \in 1 .. Len(queue') : queue'[i] # r
  BY <1>3, <1>4
<1>8. IsInjective(queue')
  BY <1>3, <1>4 DEF IsInjective
<1>9. ToSet(queue') = ToSet(queue) \ {r}
  <2>1. /\ ToSet(queue) = {queue[i] : i \in 1 .. Len(queue)}
        /\ ToSet(queue') = {queue'[i] : i \in 1 .. Len(queue')}
    BY <1>3 DEF ToSet
  <2>2. ToSet(queue') \subseteq ToSet(queue) \ {r}
    BY <1>3, <1>7, <2>1
  <2>3. ASSUME NEW i \in 1 .. Len(queue), queue[i] # r PROVE queue[i] \in ToSet(queue')
    <3>1. i - 1 \in 1 .. Len(queue') /\ i - 1 + 1 = i
      BY <1>3, <2>3
    <3>2. queue'[i - 1] = queue[i]
      BY <1>3, <3>1
    <3>3. QED
      BY <2>1, <3>1, <3>2
  <2>4. QED
    BY <2>1, <2>2, <2>3
<1>10. ASSUME NEW p \in {"connecting", "working"}, phase' = [phase EXCEPT ![r] = p]
       PROVE  ToSet(queue') = {q \in Request : phase'[q] = "waiting"}
  <2>1. \A q \in Request : phase'[q] = IF q = r THEN p ELSE phase[q]
    BY <1>1, <1>10 DEF OfRequests
  <2>2. QED
    BY <1>1, <1>9, <2>1 DEF Sharing
(* What the wait for the lock has taken so far.                            *)
<1>11. age[r] <= ahead[r] * Probe
  <2>1. age[r] + (1 - 1) * Probe <= ahead[r] * Probe
    BY <1>1, <1>2, <1>3 DEF TurnsAreShort
  <2>2. QED
    BY <1>1, <2>1, Times DEF OfRequests
<1>12. ASSUME NEW i \in 1 .. Len(queue')
       PROVE  age[queue'[i]] + i * Probe <= ahead[queue'[i]] * Probe
  <2>1. i + 1 \in 1 .. Len(queue) /\ i + 1 - 1 = i /\ queue'[i] = queue[i + 1]
    BY <1>3
  <2>2. age[queue[i + 1]] + (i + 1 - 1) * Probe <= ahead[queue[i + 1]] * Probe
    BY <1>1, <1>2, <2>1 DEF TurnsAreShort
  <2>3. QED
    BY <2>1, <2>2
<1>13. ahead[r] \in Nat /\ ahead[r] + 1 <= Cardinality(Request) /\ age[r] \in Nat
  BY <1>1 DEF OfRequests, Right, InTime
<1>14. CASE temporal
  <2>1. Work(r, TRUE) /\ UNCHANGED holder
    BY <1>14 DEF Acquire, LookAgain
  <2>2. age[r] <= (ahead[r] + 1) * Probe
    <3>1. (ahead[r] + 1) * Probe = ahead[r] * Probe + Probe /\ ahead[r] * Probe \in Nat
      BY <1>13, Turns
    <3>2. QED
      BY <1>11, <1>13, <3>1, Times
  <2>3. /\ OfRequests' /\ \A q \in Request : Right(q)'
        /\ phase' = [phase EXCEPT ![r] = "working"] /\ client' = [client EXCEPT ![r] = TRUE]
    <3>1. /\ ahead' \in [Request -> Nat] /\ \A q \in Request \ {r} : ahead'[q] = ahead[q]
          /\ ahead'[r] + 1 <= Cardinality(Request) /\ age[r] <= (ahead'[r] + 1) * Probe
      BY <1>1, <1>2, <1>13, <2>2 DEF OfRequests
    <3>2. QED
      BY <1>2, <1>6, <2>1, <3>1, WorkIsRight
  <2>4. \A q \in Request : phase'[q] = IF q = r THEN "working" ELSE phase[q]
    BY <1>1, <2>3 DEF OfRequests
  <2>5. LockIsHeld'
    BY <1>1, <1>2, <1>6, <2>1, <2>4 DEF Sharing, LockIsHeld
  <2>6. Sharing'
    BY <1>1, <1>2, <1>3, <1>8, <1>10, <1>14, <2>1, <2>3, <2>5 DEF Sharing
  <2>7. TurnsAreShort'
    <3>1. SUFFICES ASSUME NEW i \in 1 .. Len(queue')
                   PROVE  age[queue'[i]] + (i - 1) * Probe <= ahead[queue'[i]] * Probe
      BY <1>2, <2>1 DEF TurnsAreShort
    <3>2. queue'[i] \in Request /\ ahead[queue'[i]] \in Nat
      BY <1>1, <1>3, <1>5 DEF OfRequests
    <3>3. age[queue'[i]] + i * Probe <= ahead[queue'[i]] * Probe
      BY <1>12
    <3>4. i * Probe = (i - 1) * Probe + Probe /\ (i - 1) * Probe \in Nat
      <4>1. i - 1 \in Nat /\ i - 1 + 1 = i
        BY <1>3
      <4>2. QED
        BY <4>1, Turns
    <3>5. ahead[queue'[i]] * Probe \in Nat /\ age[queue'[i]] \in Nat
      BY <1>1, <3>2, Turns DEF OfRequests
    <3> DEFINE before == (i - 1) * Probe
               turn == i * Probe
               all == ahead[queue'[i]] * Probe
    <3>6. /\ age[queue'[i]] + turn <= all /\ turn = before + Probe
          /\ before \in Nat /\ all \in Nat /\ age[queue'[i]] \in Nat
      BY <3>3, <3>4, <3>5
    <3> HIDE DEF before, turn, all
    <3>7. age[queue'[i]] + before <= all
      BY <3>6, Times
    <3>8. QED
      BY <3>7 DEF before, all
  <2>8. QED
    BY <2>3, <2>6, <2>7 DEF AllRight
<1>15. CASE ~temporal
  <2>1. /\ holder' = r /\ phase' = [phase EXCEPT ![r] = "connecting"]
        /\ since' = [since EXCEPT ![r] = age[r]] /\ UNCHANGED <<client, result, began>>
    BY <1>15 DEF Acquire, LookAgain
  <2>2. OfRequests' /\ \A q \in Request : Right(q)'
    <3>1. /\ ahead' \in [Request -> Nat] /\ \A q \in Request \ {r} : ahead'[q] = ahead[q]
          /\ ahead'[r] + 1 <= Cardinality(Request) /\ age[r] <= ahead'[r] * Probe
      BY <1>1, <1>2, <1>11, <1>13 DEF OfRequests
    <3>2. QED
      BY <1>2, <1>6, <2>1, <3>1, AsksIsRight
  <2>3. \A q \in Request : phase'[q] = IF q = r THEN "connecting" ELSE phase[q]
    BY <1>1, <2>1 DEF OfRequests
  <2>4. LockIsHeld'
    BY <1>1, <1>2, <1>15, <2>1, <2>3, RequestsAreFinite DEF Sharing, LockIsHeld
  <2>5. Sharing'
    BY <1>1, <1>2, <1>3, <1>8, <1>10, <2>1, <2>4 DEF Sharing
  <2>6. since'[r] = age[r] /\ r # Nobody /\ age[r] - age[r] = 0
    BY <1>1, <1>13, <2>1, RequestsAreFinite DEF OfRequests
  <2>7. TurnsAreShort'
    <3>1. SUFFICES ASSUME NEW i \in 1 .. Len(queue')
                   PROVE  age[queue'[i]] + i * Probe <= ahead[queue'[i]] * Probe + 0
      BY <1>2, <2>1, <2>6 DEF TurnsAreShort
    <3>2. queue'[i] \in Request /\ ahead[queue'[i]] \in Nat
      BY <1>1, <1>3, <1>5 DEF OfRequests
    <3>3. ahead[queue'[i]] * Probe \in Nat
      BY <3>2, Turns
    <3>4. QED
      BY <1>12, <3>3
  <2>8. QED
    BY <2>2, <2>5, <2>7 DEF AllRight
<1>16. QED
  BY <1>14, <1>15

(* Whoever connects gives the lock back, with a client or without.         *)
LEMMA ReleaseIsRight ==
  ASSUME AllRight, NEW r \in Request, NEW hasClient \in BOOLEAN, phase[r] = "connecting",
         Work(r, hasClient), holder' = Nobody, UNCHANGED <<queue, kind, age, shown, ahead>>,
         temporal' = (temporal \/ hasClient), connects' = IF hasClient THEN connects + 1 ELSE connects
  PROVE  AllRight'
<1>1. OfRequests /\ Sharing /\ TurnsAreShort /\ \A q \in Request : Right(q)
  BY DEF AllRight
<1>2. /\ age[r] \in Nat /\ since[r] \in Nat /\ ahead[r] \in Nat
      /\ ahead[r] + 1 <= Cardinality(Request)
      /\ since[r] <= ahead[r] * Probe /\ age[r] <= since[r] + Probe
  BY <1>1 DEF OfRequests, Right, InTime
<1>3. age[r] <= (ahead[r] + 1) * Probe
  <2>1. (ahead[r] + 1) * Probe = ahead[r] * Probe + Probe /\ ahead[r] * Probe \in Nat
    BY <1>2, Turns
  <2>2. QED
    BY <1>2, <2>1, Times
<1>4. /\ OfRequests' /\ \A q \in Request : Right(q)'
      /\ phase' = [phase EXCEPT ![r] = "working"] /\ client' = [client EXCEPT ![r] = hasClient]
  <2>1. /\ ahead' \in [Request -> Nat] /\ \A q \in Request \ {r} : ahead'[q] = ahead[q]
        /\ ahead'[r] + 1 <= Cardinality(Request) /\ age[r] <= (ahead'[r] + 1) * Probe
    BY <1>1, <1>2, <1>3 DEF OfRequests
  <2>2. QED
    BY <2>1, WorkIsRight
<1>5. /\ \A q \in Request : phase'[q] = IF q = r THEN "working" ELSE phase[q]
      /\ \A q \in Request : client'[q] = IF q = r THEN hasClient ELSE client[q]
  BY <1>1, <1>4 DEF OfRequests
<1>6. holder = r /\ r # Nobody /\ ~temporal /\ connects = 0
  BY <1>1, RequestsAreFinite DEF Sharing, LockIsHeld
<1>7. {q \in Request : phase'[q] = "waiting"} = {q \in Request : phase[q] = "waiting"}
  BY <1>5
<1>8. LockIsHeld'
  BY <1>1, <1>5, <1>6, RequestsAreFinite DEF Sharing, LockIsHeld
<1>9. connects' \in {0, 1} /\ connects' <= Cardinality(Request)
  BY <1>2, <1>6, Times
<1>10. Sharing'
  BY <1>1, <1>5, <1>6, <1>7, <1>8, <1>9 DEF Sharing
<1>11. TurnsAreShort'
  <2>1. SUFFICES ASSUME NEW i \in 1 .. Len(queue)
                 PROVE  age[queue[i]] + (i - 1) * Probe <= ahead[queue[i]] * Probe
    BY DEF TurnsAreShort
  <2>2. age[queue[i]] + i * Probe <= ahead[queue[i]] * Probe + (age[r] - since[r])
    BY <1>1, <1>6 DEF TurnsAreShort
  <2>3. queue \in Seq(Request) /\ queue[i] \in Request
    BY <1>1, ElementOfSeq DEF Sharing
  <2>4. ahead[queue[i]] \in Nat /\ age[queue[i]] \in Nat
    BY <1>1, <2>3 DEF OfRequests
  <2>5. ahead[queue[i]] * Probe \in Nat
    BY <2>4, Turns
  <2>6. i * Probe = (i - 1) * Probe + Probe /\ (i - 1) * Probe \in Nat
    <3>1. i - 1 \in Nat /\ i - 1 + 1 = i
      BY <2>3, LenProperties
    <3>2. QED
      BY <3>1, Turns
  <2> DEFINE before == (i - 1) * Probe
  <2> DEFINE turn == i * Probe
  <2> DEFINE all == ahead[queue[i]] * Probe
  <2>7. /\ before \in Nat /\ turn = before + Probe /\ all \in Nat
        /\ age[queue[i]] + turn <= all + (age[r] - since[r])
    BY <2>2, <2>5, <2>6
  <2> HIDE DEF before, turn, all
  <2>8. age[queue[i]] + before <= all
    <3>1. age[r] - since[r] <= Probe /\ age[r] - since[r] \in Int
      BY <1>2, Times
    <3>2. age[queue[i]] + (before + Probe) <= all + (age[r] - since[r])
      BY <2>7
    <3>3. QED
      BY <2>4, <2>7, <3>1, <3>2, TurnIsOver
  <2>9. QED
    BY <2>8 DEF before, all
<1>12. QED
  BY <1>4, <1>10, <1>11 DEF AllRight
-----------------------------------------------------------------------------
(* Time passes, and nothing is due: what a request that is served may have *)
(* taken by now.                                                           *)
LEMMA TimeIsLeft ==
  ASSUME AllRight, NEW r \in Request, ~Due(r), \A q \in Request : ~Due(q), Served(r)
  PROVE  /\ age[r] + 1 <= Longest
         /\ phase[r] = "waiting" => holder # Nobody
         /\ phase[r] = "connecting" => age[r] + 1 <= since[r] + Probe
         /\ phase[r] = "working" /\ kind[r] = "overview" => age[r] + 1 <= Overview
         /\ phase[r] = "working" /\ kind[r] # "overview" => age[r] + 1 <= since[r] + Whole(kind[r])
<1>1. OfRequests /\ Sharing /\ TurnsAreShort /\ \A q \in Request : Right(q)
  BY DEF AllRight
<1>2. /\ age[r] \in Nat /\ since[r] \in Nat /\ ahead[r] \in Nat /\ kind[r] \in Kind \cup {Unused}
      /\ ahead[r] + 1 <= Cardinality(Request)
  BY <1>1, Kinds DEF OfRequests, Right, InTime
<1> DEFINE turns == ahead[r] * Probe
<1>3. turns \in Nat /\ turns + Probe + Live + 2 * Overview + 1 <= Longest
  <2>1. (ahead[r] + 1) * Probe = ahead[r] * Probe + Probe /\ ahead[r] * Probe \in Nat
    BY <1>2, Turns
  <2>2. (ahead[r] + 1) * Probe + Live + 2 * Overview + 1 <= Longest
    BY <1>2, LongestIsLong
  <2>3. QED
    BY <2>1, <2>2
<1>4. Longest \in Nat
  BY LongestIsLong
<1>5. CASE phase[r] = "waiting"
  <2>1. holder # Nobody
    BY <1>5 DEF Due
  <2>2. /\ holder \in Request /\ phase[holder] = "connecting" /\ ~Due(holder)
        /\ age[holder] \in Nat /\ since[holder] \in Nat
    BY <1>1, <2>1 DEF Sharing, LockIsHeld, OfRequests
  <2>3. age[holder] - since[holder] < Probe
    <3>1. ConnectLimit(kind[holder]) = Probe
      BY <1>1, <2>2, Kinds, Limits
    <3>2. QED
      BY <2>2, <3>1, Times DEF Due, ConnectDue
  <2>4. PICK i \in DOMAIN queue : queue[i] = r
    BY <1>1, <1>5 DEF Sharing, ToSet
  <2>5. i \in 1 .. Len(queue) /\ i \in Nat /\ 1 <= i
    BY <1>1, LenProperties DEF Sharing
  <2> DEFINE turn == i * Probe
  <2>6. age[r] + turn <= turns + (age[holder] - since[holder])
    BY <1>1, <2>1, <2>4, <2>5 DEF TurnsAreShort
  <2>7. turn \in Nat /\ Probe <= turn
    <3>1. 1 * Probe <= i * Probe /\ i * Probe \in Nat
      BY <2>5, Turns
    <3>2. 1 * Probe = Probe
      BY Times
    <3>3. QED
      BY <3>1, <3>2
  <2> HIDE DEF turn, turns
  <2>8. age[r] + 1 <= turns
    BY <1>2, <1>3, <2>2, <2>3, <2>6, <2>7, Times
  <2>9. age[r] + 1 <= Longest
    BY <1>2, <1>3, <1>4, <2>8, Times
  <2>10. QED
    BY <1>5, <2>1, <2>9
<1>6. CASE phase[r] = "connecting"
  <2>1. since[r] <= turns
    BY <1>1, <1>6 DEF Right, InTime
  <2>2. ConnectLimit(kind[r]) = Probe
    BY <1>2, Limits
  <2> HIDE DEF turns
  <2>3. age[r] + 1 <= since[r] + Probe
    BY <1>2, <1>6, <2>2, Times DEF Due, ConnectDue
  <2>4. age[r] + 1 <= Longest
    BY <1>2, <1>3, <1>4, <2>1, <2>3, Times
  <2>5. QED
    BY <1>6, <2>3, <2>4
<1>7. CASE phase[r] = "working" /\ kind[r] = "overview"
  <2>1. since[r] = 0 /\ Outer(kind[r]) = Overview /\ Outer(kind[r]) # Never
    BY <1>1, <1>2, <1>7, Limits DEF Right, InTime
  <2>2. age[r] + 1 <= Overview
    BY <1>2, <1>7, <2>1, Times DEF Due, OuterDue
  <2> HIDE DEF turns
  <2>3. age[r] + 1 <= Longest
    BY <1>2, <1>3, <1>4, <2>2, Times
  <2>4. QED
    BY <1>7, <2>2, <2>3
<1>8. CASE phase[r] = "working" /\ kind[r] # "overview"
  <2>1. since[r] <= turns + Probe
    <3>1. since[r] <= (ahead[r] + 1) * Probe
      BY <1>1, <1>8 DEF Right, InTime
    <3>2. (ahead[r] + 1) * Probe = ahead[r] * Probe + Probe
      BY <1>2, Turns
    <3>3. QED
      BY <3>1, <3>2
  <2>2. Whole(kind[r]) \in Nat /\ Whole(kind[r]) <= Live + 2 * Overview + 1
    BY <1>2, Limits
  <2>3. age[r] + 1 <= since[r] + Whole(kind[r])
    <3>1. CASE kind[r] = "health"
      <4>1. Calls(kind[r]) = Probes /\ Whole(kind[r]) = Probe
        BY <1>2, <3>1, ProbeCalls, Limits
      <4>2. PICK c \in Probes : ~Ended(result[r], c)
        BY <1>8, <4>1 DEF Due
      <4>3. Before(kind[r], c) = {} /\ Limit(kind[r], c) = Probe /\ Probe # Never
        BY <3>1, ProbeCalls, Times DEF Kind, Never
      <4>4. result[r][c] = "running"
        BY <1>1, <1>8, <4>1, <4>2, <4>3 DEF Right, CallsBegin, Kept, Ended, Result
      <4>5. began[r][c] <= since[r] /\ began[r][c] \in Nat
        BY <1>1, <1>4, <1>8, <3>1, <4>1, <4>3, <4>4 DEF Right, CallsInTime, Kept
      <4>6. age[r] - began[r][c] < Probe
        BY <1>2, <1>8, <4>1, <4>3, <4>4, <4>5, Times DEF Due, CallDue
      <4>7. QED
        BY <1>2, <4>1, <4>5, <4>6, Times
    <3>2. CASE kind[r] # "health"
      <4>1. Outer(kind[r]) = Whole(kind[r]) /\ Outer(kind[r]) # Never
        BY <1>2, <3>2, Limits
      <4>2. QED
        BY <1>2, <1>8, <2>2, <4>1 DEF Due, OuterDue
    <3>3. QED
      BY <3>1, <3>2
  <2> HIDE DEF turns
  <2>4. age[r] + 1 <= Longest
    BY <1>2, <1>3, <1>4, <2>1, <2>2, <2>3, Times
  <2>5. QED
    BY <1>8, <2>3, <2>4
<1>9. QED
  BY <1>5, <1>6, <1>7, <1>8 DEF Served

(* Some call of a live detail runs until it is complete, and has not been  *)
(* running for long.                                                       *)
LEMMA LiveTimeIsLeft ==
  ASSUME AllRight, NEW r \in Request, ~Due(r), phase[r] = "working", kind[r] = "live"
  PROVE  age[r] + 1 <= since[r] + 2 * Overview + Live
<1>1. /\ OfRequests /\ Right(r) /\ age[r] \in Nat /\ since[r] \in Nat
      /\ Overview \in Nat /\ Live \in Nat /\ Overview # Never /\ Live # Never
  BY Times DEF AllRight, OfRequests, Never
<1>2. /\ Calls(kind[r]) = {"inventory", "intent", "executions", "device"}
      /\ Fatal(kind[r]) = {"inventory"} /\ Before(kind[r], "inventory") = {}
      /\ \A c \in {"inventory", "intent", "executions"} : Limit(kind[r], c) = Overview
      /\ Limit(kind[r], "device") = Live
  BY LiveCalls
<1>3. /\ \A c \in Calls(kind[r]) : began[r][c] \in Nat /\ result[r][c] \in Result
      /\ result[r]["inventory"] # "none"
  BY <1>1, <1>2, LongestIsLong DEF Right, Kept, CallsBegin
<1>4. \A c \in Calls(kind[r]) :
        result[r][c] = "running" => age[r] + 1 <= began[r][c] + Limit(kind[r], c)
  <2>1. SUFFICES ASSUME NEW c \in Calls(kind[r]), result[r][c] = "running"
                 PROVE  age[r] + 1 <= began[r][c] + Limit(kind[r], c)
    OBVIOUS
  <2>2. Limit(kind[r], c) \in Nat /\ Limit(kind[r], c) # Never
    BY <1>1, <1>2
  <2>3. age[r] - began[r][c] < Limit(kind[r], c)
    BY <1>1, <1>3, <2>1, <2>2 DEF Due, CallDue
  <2>4. QED
    BY <1>1, <1>3, <2>2, <2>3
<1>5. /\ result[r]["inventory"] \notin {"failed", "skipped"}
      /\ \E c \in Calls(kind[r]) : ~Ended(result[r], c)
  BY <1>2 DEF Due, FatalEnded
<1>6. CASE result[r]["inventory"] = "running"
  <2>1. began[r]["inventory"] <= since[r]
    BY <1>1, <1>2, <1>6 DEF Right, CallsInTime
  <2>2. age[r] + 1 <= began[r]["inventory"] + Overview
    BY <1>2, <1>4, <1>6
  <2>3. QED
    BY <1>1, <1>2, <1>3, <2>1, <2>2
<1>7. CASE result[r]["inventory"] = "ok"
  <2>1. /\ \A c \in {"intent", "executions"} :
             /\ result[r][c] # "none"
             /\ result[r][c] = "running" => began[r][c] <= since[r] + Overview
        /\ result[r]["device"] = "none" => "running" \in {result[r]["intent"], result[r]["executions"]}
        /\ result[r]["device"] = "running" => began[r]["device"] <= since[r] + 2 * Overview
    BY <1>1, <1>7 DEF Right, LiveRounds
  <2>2. CASE \E c \in {"intent", "executions"} : result[r][c] = "running"
    <3>1. PICK c \in {"intent", "executions"} : result[r][c] = "running"
      BY <2>2
    <3>2. c \in Calls(kind[r]) /\ began[r][c] <= since[r] + Overview /\ began[r][c] \in Nat
      BY <1>2, <1>3, <2>1, <3>1
    <3>3. age[r] + 1 <= began[r][c] + Overview
      BY <1>2, <1>4, <3>1, <3>2
    <3>4. QED
      BY <1>1, <3>2, <3>3
  <2>3. CASE \A c \in {"intent", "executions"} : result[r][c] # "running"
    <3>1. \A c \in {"inventory", "intent", "executions"} : Ended(result[r], c)
      BY <1>2, <1>3, <1>7, <2>1, <2>3 DEF Ended, Result
    <3>2. result[r]["device"] = "running"
      BY <1>2, <1>3, <1>5, <2>1, <2>3, <3>1 DEF Ended, Result
    <3>3. age[r] + 1 <= began[r]["device"] + Live
      BY <1>2, <1>4, <3>2
    <3>4. QED
      BY <1>1, <1>2, <1>3, <2>1, <3>2, <3>3
  <2>4. QED
    BY <2>2, <2>3
<1>8. QED
  BY <1>2, <1>3, <1>5, <1>6, <1>7 DEF Result

LEMMA TickIsRight == ASSUME AllRight, Tick PROVE AllRight'
<1>1. OfRequests /\ Sharing /\ TurnsAreShort /\ \A q \in Request : Right(q)
  BY DEF AllRight
<1>2. /\ \A q \in Request : ~Due(q)
      /\ age' = [q \in Request |-> IF Served(q) THEN Older(age[q]) ELSE age[q]]
      /\ UNCHANGED <<temporal, holder, queue, connects>>
      /\ UNCHANGED <<kind, phase, client, result, began, since, shown, ahead>>
  BY DEF Tick, sharing
<1>3. ASSUME NEW q \in Request
      PROVE  /\ age[q] \in 0 .. Longest /\ age[q] \in Nat
             /\ Served(q) => age'[q] = age[q] + 1 /\ age[q] + 1 <= Longest
             /\ ~Served(q) => age'[q] = age[q]
             /\ age'[q] \in 0 .. Longest /\ age'[q] \in Nat
  <2>1. age[q] \in 0 .. Longest /\ age[q] \in Nat /\ Longest \in Nat
    BY <1>1, LongestIsLong DEF Right, Kept
  <2>2. Served(q) => age[q] + 1 <= Longest
    BY <1>2, TimeIsLeft
  <2>3. Served(q) => age'[q] = age[q] + 1
    BY <1>2, <2>1 DEF Older
  <2>4. ~Served(q) => age'[q] = age[q]
    BY <1>2
  <2>5. QED
    BY <2>1, <2>2, <2>3, <2>4
<1>4. OfRequests'
  BY <1>1, <1>2, <1>3 DEF OfRequests
<1>5. Sharing'
  BY <1>1, <1>2 DEF Sharing, LockIsHeld
<1>6. TurnsAreShort'
  <2>1. SUFFICES ASSUME NEW i \in 1 .. Len(queue)
                 PROVE  IF holder = Nobody
                          THEN age'[queue[i]] + (i - 1) * Probe <= ahead[queue[i]] * Probe
                          ELSE age'[queue[i]] + i * Probe
                                 <= ahead[queue[i]] * Probe + (age'[holder] - since[holder])
    BY <1>2 DEF TurnsAreShort
  <2>2. /\ queue \in Seq(Request) /\ queue[i] \in Request /\ phase[queue[i]] = "waiting"
        /\ i \in Nat
    <3>1. queue \in Seq(Request) /\ DOMAIN queue = 1 .. Len(queue)
      BY <1>1, LenProperties DEF Sharing
    <3>2. queue[i] \in ToSet(queue)
      BY <3>1 DEF ToSet
    <3>3. QED
      BY <1>1, <3>1, <3>2 DEF Sharing
  <2>3. holder # Nobody
    BY <1>2, <2>2 DEF Due
  <2>4. holder \in Request /\ phase[holder] = "connecting"
    BY <1>1, <2>3 DEF Sharing, LockIsHeld
  <2>5. Served(queue[i]) /\ Served(holder)
    BY <2>2, <2>4 DEF Served
  <2>6. /\ age'[queue[i]] = age[queue[i]] + 1 /\ age'[holder] = age[holder] + 1
        /\ age[queue[i]] \in Nat /\ age[holder] \in Nat /\ since[holder] \in Nat
        /\ ahead[queue[i]] \in Nat
    BY <1>1, <1>3, <2>2, <2>4, <2>5 DEF OfRequests
  <2> DEFINE turn == i * Probe
  <2> DEFINE turns == ahead[queue[i]] * Probe
  <2>7. /\ turn \in Nat /\ turns \in Nat
        /\ age[queue[i]] + turn <= turns + (age[holder] - since[holder])
    BY <1>1, <2>2, <2>3, <2>6, Turns DEF TurnsAreShort
  <2> HIDE DEF turn, turns
  <2>8. age'[queue[i]] + turn <= turns + (age'[holder] - since[holder])
    <3>1. (age[queue[i]] + 1) + turn <= turns + ((age[holder] + 1) - since[holder])
      BY <2>6, <2>7, BothOlder
    <3>2. QED
      BY <2>6, <3>1, Zenon
  <2>9. QED
    BY <2>3, <2>8 DEF turn, turns
<1>7. ASSUME NEW r \in Request PROVE Right(r)'
  <2>1. /\ Right(r) /\ ~Due(r) /\ kind'[r] = kind[r] /\ phase'[r] = phase[r]
        /\ client'[r] = client[r] /\ result'[r] = result[r] /\ began'[r] = began[r]
        /\ since'[r] = since[r] /\ shown'[r] = shown[r] /\ ahead'[r] = ahead[r]
    BY <1>1, <1>2
  <2>2. CASE ~Served(r)
    BY <1>3, <2>1, <2>2, Untouched
  <2>3. CASE Served(r)
    <3>1. /\ age'[r] = age[r] + 1 /\ age[r] \in Nat /\ since[r] \in Nat /\ ahead[r] \in Nat
          /\ since[r] <= age[r] /\ kind[r] \in Kind \cup {Unused}
      BY <1>1, <1>3, <2>1, <2>3, Kinds DEF OfRequests, Right, InTime
    <3>2. Kept(r)'
      BY <1>3, <2>1 DEF Right, Kept
    <3>3. InTime(r)'
      <4>1. Served(r)' /\ ahead'[r] + 1 <= Cardinality(Request) /\ since'[r] <= age'[r]
        BY <2>1, <2>3, <3>1, Times DEF Right, InTime, Served
      <4>2. phase'[r] = "connecting" =>
              since'[r] <= ahead'[r] * Probe /\ age'[r] <= since'[r] + Probe
        BY <1>2, <2>1, <2>3, <3>1, TimeIsLeft DEF Right, InTime
      <4>3. phase'[r] = "working" /\ kind'[r] = "overview" =>
              since'[r] = 0 /\ age'[r] <= Longer(Overview, (ahead'[r] + 1) * Probe)
        <5>1. SUFFICES ASSUME phase[r] = "working", kind[r] = "overview"
                       PROVE  since[r] = 0 /\ age'[r] <= Longer(Overview, (ahead[r] + 1) * Probe)
          BY <2>1
        <5>2. age'[r] <= Overview
          BY <1>2, <2>3, <3>1, <5>1, TimeIsLeft
        <5>3. (ahead[r] + 1) * Probe \in Nat
          <6>1. ahead[r] + 1 \in Nat
            BY <3>1
          <6>2. QED
            BY <6>1, Turns, Zenon
        <5>4. Overview <= Longer(Overview, (ahead[r] + 1) * Probe)
              /\ Longer(Overview, (ahead[r] + 1) * Probe) \in Nat
          BY <5>3, Times DEF Longer
        <5>5. since[r] = 0
          BY <2>1, <5>1 DEF Right, InTime
        <5>6. age'[r] \in Nat
          BY <3>1
        <5>7. QED
          BY <5>2, <5>4, <5>5, <5>6, Times
      <4>4. phase'[r] = "working" /\ kind'[r] # "overview" =>
              since'[r] <= (ahead'[r] + 1) * Probe /\ age'[r] <= since'[r] + Whole(kind'[r])
        BY <1>2, <2>1, <2>3, <3>1, TimeIsLeft DEF Right, InTime
      <4>5. QED
        BY <4>1, <4>2, <4>3, <4>4 DEF InTime
    <3>4. CallsBegin(r)' /\ HistoryFollows(r)' /\ Shows(r)'
      BY <2>1, <2>3 DEF Right, CallsBegin, HistoryFollows, Shows, Answered, Ok
    <3>5. CallsInTime(r)'
      <4>1. SUFFICES ASSUME phase[r] = "working", NEW c \in Calls(kind[r]), result[r][c] = "running"
                     PROVE  /\ began[r][c] <= age[r] + 1
                            /\ Limit(kind[r], c) # Never => age[r] + 1 <= began[r][c] + Limit(kind[r], c)
                            /\ Before(kind[r], c) = {} =>
                                 began[r][c] <= IF kind[r] = "overview" THEN (ahead[r] + 1) * Probe
                                                ELSE since[r]
        BY <2>1, <3>1 DEF CallsInTime
      <4>2. /\ began[r][c] <= age[r] /\ began[r][c] \in Nat
            /\ Before(kind[r], c) = {} =>
                 began[r][c] <= IF kind[r] = "overview" THEN (ahead[r] + 1) * Probe ELSE since[r]
        BY <2>1, <4>1, LongestIsLong DEF Right, Kept, CallsInTime
      <4>3. Limit(kind[r], c) # Never => age[r] + 1 <= began[r][c] + Limit(kind[r], c)
        <5>1. Limit(kind[r], c) # Never => Limit(kind[r], c) \in Nat
          BY Times DEF Limit
        <5>2. Limit(kind[r], c) # Never => age[r] - began[r][c] < Limit(kind[r], c)
          BY <2>1, <3>1, <4>1, <4>2, <5>1 DEF Due, CallDue
        <5>3. QED
          BY <3>1, <4>2, <5>1, <5>2
      <4>4. began[r][c] <= age[r] + 1
        BY <3>1, <4>2
      <4>5. QED
        BY <4>2, <4>3, <4>4
    <3>6. LiveRounds(r)'
      <4>1. kind[r] = "live" /\ phase[r] = "working" => age[r] + 1 <= since[r] + 2 * Overview + Live
        BY <2>1, LiveTimeIsLeft
      <4>2. QED
        BY <2>1, <3>1, <4>1 DEF Right, LiveRounds
    <3>7. QED
      BY <3>2, <3>3, <3>4, <3>5, <3>6 DEF Right
  <2>4. QED
    BY <2>2, <2>3
<1>8. QED
  BY <1>4, <1>5, <1>6, <1>7 DEF AllRight

-----------------------------------------------------------------------------
LEMMA InitIInv == Init => IInv
<1> SUFFICES ASSUME Init PROVE AllRight
  BY RightIsIInv
<1>1. /\ temporal \in BOOLEAN /\ connects = 0 /\ holder = Nobody /\ queue = <<>>
      /\ kind \in Scenarios /\ phase = [r \in Request |-> "idle"]
      /\ client = [r \in Request |-> FALSE] /\ ahead = [r \in Request |-> 0]
      /\ since = [r \in Request |-> 0] /\ age = [r \in Request |-> 0]
      /\ shown = [r \in Request |-> {}]
      /\ result = [r \in Request |-> [c \in Calls(kind[r]) |-> "none"]]
      /\ began = [r \in Request |-> [c \in Calls(kind[r]) |-> 0]]
  BY DEF Init
<1>2. OfRequests
  BY <1>1 DEF OfRequests, Phase
<1>3. queue \in Seq(Request) /\ Len(queue) = 0 /\ DOMAIN queue = {}
  BY <1>1, EmptySeq
<1>4. Sharing
  <2>1. ToSet(queue) = {r \in Request : phase[r] = "waiting"} /\ IsInjective(queue)
    BY <1>1, <1>3 DEF ToSet, IsInjective
  <2>2. LockIsHeld
    BY <1>1, RequestsAreFinite DEF LockIsHeld
  <2>3. QED
    BY <1>1, <1>3, <2>1, <2>2, Times DEF Sharing
<1>5. TurnsAreShort
  BY <1>3 DEF TurnsAreShort
<1>6. ASSUME NEW r \in Request PROVE Right(r)
  <2>1. /\ phase[r] = "idle" /\ client[r] = FALSE /\ ahead[r] = 0 /\ since[r] = 0 /\ age[r] = 0
        /\ shown[r] = {} /\ result[r] = [c \in Calls(kind[r]) |-> "none"]
        /\ began[r] = [c \in Calls(kind[r]) |-> 0]
    BY <1>1
  <2>2. Kept(r)
    <3>1. 0 \in 0 .. Longest
      BY LongestIsLong
    <3>2. /\ result[r] \in [Calls(kind[r]) -> Result]
          /\ began[r] \in [Calls(kind[r]) -> 0 .. Longest]
      BY <2>1, <3>1 DEF Result
    <3>3. phase[r] \in Phase /\ client[r] \in BOOLEAN /\ ahead[r] \in Nat
      BY <1>2 DEF OfRequests
    <3>4. shown[r] \subseteq Calls(kind[r])
      BY <2>1
    <3>5. age[r] \in 0 .. Longest /\ since[r] \in 0 .. Longest
      BY <2>1, <3>1
    <3>6. QED
      BY <3>2, <3>3, <3>4, <3>5 DEF Kept
  <2>3. InTime(r)
    <3>1. Request # {} /\ Cardinality(Request) # 0
      BY FS_EmptySet, RequestsAreFinite
    <3>2. QED
      BY <2>1, <3>1, Times DEF InTime, Served
  <2>4. CallsBegin(r) /\ CallsInTime(r) /\ LiveRounds(r) /\ Shows(r)
    BY <2>1 DEF CallsBegin, CallsInTime, LiveRounds, Shows, Answered
  <2>5. HistoryFollows(r)
    BY <2>1, WorkflowCalls DEF HistoryFollows
  <2>6. QED
    BY <2>2, <2>3, <2>4, <2>5 DEF Right
<1>7. QED
  BY <1>2, <1>4, <1>5, <1>6 DEF AllRight

LEMMA NextIInv == IInv /\ [Next]_vars => IInv'
<1> SUFFICES ASSUME AllRight, [Next]_vars PROVE AllRight'
  BY IInvIsRight, RightIsIInv, PTL
<1>1. ASSUME NEW r \in Request, ConnectSucceeds(r) PROVE AllRight'
  <2>1. /\ phase[r] = "connecting" /\ temporal' = TRUE /\ connects' = connects + 1
        /\ holder' = Nobody /\ Work(r, TRUE) /\ UNCHANGED <<queue, kind, age, shown, ahead>>
    BY <1>1 DEF ConnectSucceeds
  <2>2. QED
    BY <2>1, ReleaseIsRight
<1>2. ASSUME NEW r \in Request, ConnectFails(r) PROVE AllRight'
  <2>1. /\ phase[r] = "connecting" /\ temporal' = temporal /\ connects' = connects
        /\ holder' = Nobody /\ Work(r, FALSE) /\ UNCHANGED <<queue, kind, age, shown, ahead>>
    BY <1>2 DEF ConnectFails, Released
  <2>2. temporal \in BOOLEAN
    BY DEF AllRight, Sharing
  <2>3. QED
    BY <2>1, <2>2, ReleaseIsRight
<1>3. ASSUME NEW r \in Request, NEW c \in Calls(kind[r]), NEW res \in {"ok", "failed"},
             CallEnds(r, c, res)
      PROVE  AllRight'
  BY <1>3, EndIsRight DEF CallEnds
<1>4. ASSUME NEW r \in Request, NEW c \in Calls(kind[r]), CallTimesOut(r, c) PROVE AllRight'
  BY <1>4, EndIsRight DEF CallTimesOut
<1>5. CASE UNCHANGED vars
  <2>1. /\ UNCHANGED <<temporal, holder, queue, connects>>
        /\ UNCHANGED <<kind, phase, client, result, began, since, age, shown, ahead>>
    BY <1>5 DEF vars, sharing
  <2>2. OfRequests' /\ Sharing' /\ TurnsAreShort'
    BY <2>1 DEF AllRight, OfRequests, Sharing, LockIsHeld, TurnsAreShort
  <2>3. \A r \in Request : Right(r)'
    BY <2>1, Untouched DEF AllRight
  <2>4. QED
    BY <2>2, <2>3 DEF AllRight
<1>6. QED
  BY <1>1, <1>2, <1>3, <1>4, <1>5, ArriveIsRight, AcquireIsRight, CompleteIsRight, TimesOutIsRight,
     TickIsRight DEF Next

LEMMA IInvIsInvariant == Spec => []IInv
BY InitIInv, NextIInv, PTL DEF Spec

-----------------------------------------------------------------------------
(* However many requests ask for a client at the same time, one connects   *)
(* and the others find what it made; the lock and its queue agree with what*)
(* the requests do (app.py:68-89).                                         *)
THEOREM OneClientIsMade == Spec => []OneConnection
<1>1. IInv => OneConnection
  BY DEF IInv
<1>2. QED
  BY <1>1, IInvIsInvariant, PTL

(* However many requests are served, and whatever hangs, each is answered  *)
(* within its limits and the attempts to connect before its own            *)
(* (app.py:68-89, 146-211, 353-483).                                       *)
THEOREM RequestsEndInTime == Spec => []AnsweredInTime
<1>1. IInv => AnsweredInTime
  <2> SUFFICES ASSUME AllRight, NEW r \in Request
               PROVE  age[r] <= IF kind[r] = "overview" THEN Longer(Overview, (ahead[r] + 1) * Probe)
                                ELSE (ahead[r] + 1) * Probe
                                       + (IF kind[r] = "health" THEN Probe ELSE Outer(kind[r]))
    BY IInvIsRight DEF AnsweredInTime
  <2>1. OfRequests /\ Sharing /\ TurnsAreShort /\ \A q \in Request : Right(q)
    BY DEF AllRight
  <2>2. /\ age[r] \in Nat /\ since[r] \in Nat /\ ahead[r] \in Nat /\ kind[r] \in Kind \cup {Unused}
        /\ phase[r] \in Phase
    BY <2>1, Kinds DEF OfRequests
  <2> DEFINE turns == (ahead[r] + 1) * Probe
  <2> DEFINE whole == IF kind[r] = "health" THEN Probe ELSE Outer(kind[r])
  <2>3. turns \in Nat /\ ahead[r] * Probe \in Nat /\ turns = ahead[r] * Probe + Probe
    BY <2>2, Turns
  <2>4. whole \in Nat /\ whole = Whole(kind[r])
    BY <2>2, Limits DEF Whole
  <2>5. turns <= Longer(Overview, turns) /\ Longer(Overview, turns) \in Nat
    BY <2>3, Times DEF Longer
  <2>6. phase[r] # "working" => age[r] <= turns
    <3>1. CASE phase[r] = "waiting"
      <4>1. PICK i \in DOMAIN queue : queue[i] = r
        BY <2>1, <3>1 DEF Sharing, ToSet
      <4>2. i \in 1 .. Len(queue) /\ i \in Nat /\ 1 <= i
        BY <2>1, LenProperties DEF Sharing
      <4> DEFINE turn == i * Probe
      <4> DEFINE before == (i - 1) * Probe
      <4>3. turn \in Nat /\ before \in Nat /\ turn = before + Probe
        <5>1. i - 1 \in Nat /\ i - 1 + 1 = i
          BY <4>2
        <5>2. QED
          BY <5>1, Turns, <4>2
      <4>4. CASE holder = Nobody
        <5>1. age[r] + before <= ahead[r] * Probe
          BY <2>1, <4>1, <4>2, <4>4 DEF TurnsAreShort
        <5> HIDE DEF before, turn
        <5>2. QED
          BY <2>2, <2>3, <4>3, <5>1, Times
      <4>5. CASE holder # Nobody
        <5>1. age[r] + turn <= ahead[r] * Probe + (age[holder] - since[holder])
          BY <2>1, <4>1, <4>2, <4>5 DEF TurnsAreShort
        <5>2. /\ age[holder] \in Nat /\ since[holder] \in Nat
              /\ age[holder] <= since[holder] + Probe
          BY <2>1, <4>5 DEF Sharing, LockIsHeld, OfRequests, Right, InTime
        <5>3. age[holder] - since[holder] <= Probe
          BY <5>2, Times
        <5> HIDE DEF before, turn
        <5>4. QED
          BY <2>2, <2>3, <4>3, <5>1, <5>2, <5>3, Times
      <4>6. QED
        BY <4>4, <4>5
    <3>2. CASE phase[r] = "connecting"
      <4>1. since[r] <= ahead[r] * Probe /\ age[r] <= since[r] + Probe
        BY <2>1, <3>2 DEF Right, InTime
      <4>2. QED
        BY <2>2, <2>3, <4>1, Times
    <3>3. CASE ~Served(r)
      BY <2>1, <2>3, <3>3 DEF Right, InTime
    <3>4. QED
      BY <3>1, <3>2, <3>3 DEF Served
  <2>7. CASE kind[r] = "overview"
    <3>1. phase[r] = "working" => age[r] <= Longer(Overview, turns)
      BY <2>1, <2>7 DEF Right, InTime
    <3> HIDE DEF turns
    <3>2. age[r] <= Longer(Overview, turns)
      BY <2>2, <2>3, <2>5, <2>6, <3>1
    <3>3. QED
      BY <2>7, <3>2 DEF turns
  <2>8. CASE kind[r] # "overview"
    <3>1. phase[r] = "working" => since[r] <= turns /\ age[r] <= since[r] + whole
      BY <2>1, <2>4, <2>8 DEF Right, InTime
    <3> HIDE DEF turns, whole
    <3>2. age[r] <= turns + whole
      BY <2>2, <2>3, <2>4, <2>6, <3>1
    <3>3. QED
      BY <2>8, <3>2 DEF turns, whole
  <2>9. QED
    BY <2>7, <2>8
<1>2. QED
  BY <1>1, IInvIsInvariant, PTL

(* Whoever hangs or fails, an answer shows what had answered: the live     *)
(* budget has room for the reads before the device's, and the overview's   *)
(* for an attempt to connect and the probes (app.py:140-483).              *)
THEOREM WhatAnsweredIsShown == Spec => []AnsweredIsShown
<1>1. IInv => AnsweredIsShown
  BY DEF IInv
<1>2. QED
  BY <1>1, IInvIsInvariant, PTL
=============================================================================
