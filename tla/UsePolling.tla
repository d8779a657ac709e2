----------------------------- MODULE UsePolling -----------------------------
(***************************************************************************)
(* ui/src/api/usePolling.ts: a page that polls one read endpoint, as the   *)
(* browser runs it: timers, visibility changes, requests that are          *)
(* answered, fail, time out or are aborted, and effects that are disposed  *)
(* and set up anew when the path changes.                                  *)
(*                                                                         *)
(* A response is reduced to how old its observation is and whether it is   *)
(* the current effect's; the browser's and the API's clocks agree.         *)
(***************************************************************************)
EXTENDS Integers

CONSTANTS
  None,
  Interval,         \* intervalMs, in ticks
  RequestTimeout,   \* of getJson, in ticks
  MaxLate           \* bound: aborted requests whose promises have not settled

ASSUME TimesArePositive ==
  Interval \in Nat \ {0} /\ RequestTimeout \in Nat \ {0} /\ MaxLate \in Nat

ASSUME NoneIsNothingElse == None \notin Int /\ None \notin [own : BOOLEAN, age : Nat]

StaleAfter == 2 * Interval
AgeCap == StaleAfter + 1     \* bound: ages beyond are alike
TimerId == {1, 2}

VARIABLES
  visible,     \* document.visibilityState
  mounted,     \* an effect is set up
  request,     \* age of the request in flight, None: not running
  late,        \* requests of disposed effects that are still to settle
  stopped,     \* stopWhen was satisfied
  timers,      \* what is left of each window.setTimeout(run)
  timer,       \* the handle the effect holds
  staleTimer,  \* what is left until staleTimer, or None
  data,        \* [own, age]: from the current effect or not, and the age of its observation
  error,       \* the last answer was an error
  stale        \* the page is marked stale

effect == <<request, stopped, timers, timer, staleTimer>>
state  == <<data, error, stale>>
vars   == <<visible, mounted, late, effect, state>>

NoTimers == [i \in {} |-> 0]
Without(ts, i) == [j \in DOMAIN ts \ {i} |-> ts[j]]
Lowest(ids) == CHOOSE i \in ids : \A j \in ids : i <= j

TypeOK ==
  /\ visible \in BOOLEAN /\ mounted \in BOOLEAN /\ stopped \in BOOLEAN
  /\ request \in 0 .. RequestTimeout \cup {None}
  /\ late \in 0 .. MaxLate
  /\ DOMAIN timers \subseteq TimerId /\ \A i \in DOMAIN timers : timers[i] \in 0 .. Interval
  /\ timer \in TimerId \cup {None}
  /\ staleTimer \in 0 .. StaleAfter \cup {None}
  /\ data = None \/ data \in [own : BOOLEAN, age : 0 .. AgeCap]
  /\ error \in BOOLEAN /\ stale \in BOOLEAN

(* The effect as set up, and run() called in it for the first time.        *)
Init ==
  /\ visible \in BOOLEAN
  /\ mounted = TRUE /\ late = 0 /\ stopped = FALSE
  /\ request = IF visible THEN 0 ELSE None
  /\ timers = NoTimers /\ timer = None /\ staleTimer = None
  /\ data = None /\ error = FALSE /\ stale = FALSE

-----------------------------------------------------------------------------
(* run, when it gets past its first line.                                  *)
CanRun == mounted /\ ~stopped /\ request = None /\ visible

Fire(i) ==
  /\ i \in DOMAIN timers /\ timers[i] = 0
  /\ timers' = Without(timers, i)
  /\ request' = IF CanRun THEN 0 ELSE request
  /\ UNCHANGED <<visible, mounted, late, stopped, timer, staleTimer, state>>

FireStale ==
  /\ staleTimer = 0
  /\ staleTimer' = None
  /\ stale' = (data # None)
  /\ UNCHANGED <<visible, mounted, late, request, stopped, timers, timer, data, error>>

(* onVisibility.                                                           *)
(* Mutants: it forgets the timer; it leaves the rest to the timer.         *)
KeepTimer == timers
LeaveToTimer(ts) == FALSE
Cleared == IF timer = None THEN timers ELSE Without(timers, timer)
Resumes(ts) == request = None /\ ~stopped

Hide == visible /\ visible' = FALSE /\ UNCHANGED <<mounted, late, effect, state>>

Show ==
  /\ ~visible /\ visible' = TRUE
  /\ IF mounted /\ Resumes(timers)
       THEN timers' = Cleared /\ request' = 0
       ELSE UNCHANGED <<timers, request>>
  /\ UNCHANGED <<mounted, late, stopped, timer, staleTimer, state>>

-----------------------------------------------------------------------------
(* The answer to the request in flight, and finally: the next timer.       *)

(* Mutant: finally schedules whatever stopWhen said.                       *)
SchedulesAnyway(final) == TRUE
Schedules(final) == ~final

ScheduleNext(final) ==
  IF Schedules(final)
    THEN LET i == Lowest(TimerId \ DOMAIN timers)
         IN  timers' = [j \in DOMAIN timers \cup {i} |-> IF j = i THEN Interval ELSE timers[j]]
             /\ timer' = i
    ELSE UNCHANGED <<timers, timer>>

(* Mutants: a delay below zero; an old staleTimer goes on.                 *)
Unclamped(age) == StaleAfter - age
KeepStaleTimer(age) ==
  IF staleTimer # None THEN staleTimer ELSE IF age < StaleAfter THEN StaleAfter - age ELSE 0
ScheduleStale(age) == IF age < StaleAfter THEN StaleAfter - age ELSE 0

(* The API took its observation at some time since the request was sent.   *)
Succeed(age, final) ==
  /\ request # None /\ age <= request
  /\ request' = None
  /\ stopped' = final
  /\ data' = [own |-> TRUE, age |-> IF age < AgeCap THEN age ELSE AgeCap]
  /\ error' = FALSE /\ stale' = FALSE
  /\ staleTimer' = ScheduleStale(age)
  /\ ScheduleNext(final)
  /\ UNCHANGED <<visible, mounted, late>>

Fail ==
  /\ request # None
  /\ request' = None
  /\ error' = TRUE /\ stale' = (data # None)
  /\ ScheduleNext(FALSE)
  /\ UNCHANGED <<visible, mounted, late, stopped, staleTimer, data>>

(* getJson gives up.                                                       *)
TimesOut == request = RequestTimeout /\ Fail

(* Mutant: the answer of a disposed effect is shown.                       *)
ShowLate == {data, [own |-> FALSE, age |-> 0]}
IgnoreLate == {data}

(* A request of a disposed effect settles: aborted, or answered just       *)
(* before; disposed is looked at after every await.                        *)
SettleLate ==
  /\ late > 0
  /\ late' = late - 1
  /\ data' \in IgnoreLate
  /\ UNCHANGED <<visible, mounted, effect, error, stale>>

-----------------------------------------------------------------------------
(* Cleanup, and what follows it.                                           *)

Dispose ==
  /\ mounted
  /\ request # None => late < MaxLate
  /\ late' = IF request # None THEN late + 1 ELSE late
  /\ timers' = Cleared
  /\ timer' = None
  /\ staleTimer' = None
  /\ stopped' = FALSE
  /\ UNCHANGED <<visible, error, stale>>

Unmount ==
  /\ Dispose
  /\ mounted' = FALSE
  /\ request' = None
  /\ UNCHANGED data

ChangePath ==
  /\ Dispose
  /\ UNCHANGED mounted
  /\ request' = IF visible THEN 0 ELSE None
  /\ data' = IF data = None THEN None ELSE [data EXCEPT !.own = FALSE]

(* Time.  A visible page's timers fire when they are due; a hidden page's  *)
(* may be throttled.  A request ends at its timeout at the latest.         *)
Due == \/ \E i \in DOMAIN timers : timers[i] = 0
       \/ staleTimer = 0

Older(n) == IF n < AgeCap THEN n + 1 ELSE AgeCap
Less(n) == IF n > 0 THEN n - 1 ELSE 0

Tick ==
  /\ visible => ~Due
  /\ request # RequestTimeout
  /\ request' = IF request = None THEN None ELSE request + 1
  /\ timers' = [i \in DOMAIN timers |-> Less(timers[i])]
  /\ staleTimer' = IF staleTimer = None THEN None ELSE Less(staleTimer)
  /\ data' = IF data = None THEN None ELSE [data EXCEPT !.age = Older(@)]
  /\ UNCHANGED <<visible, mounted, late, stopped, timer, error, stale>>

Next ==
  \/ \E i \in TimerId : Fire(i)
  \/ FireStale
  \/ Hide
  \/ Show
  \/ \E age \in 0 .. RequestTimeout, final \in BOOLEAN : Succeed(age, final)
  \/ Fail
  \/ SettleLate
  \/ Unmount
  \/ ChangePath
  \/ Tick

Spec == Init /\ [][Next]_vars

(* The browser's clock runs and its timers and timeouts fire.              *)
FairSpec ==
  /\ Spec
  /\ WF_vars(Tick)
  /\ \A i \in TimerId : WF_vars(Fire(i))
  /\ WF_vars(FireStale)
  /\ WF_vars(TimesOut)

-----------------------------------------------------------------------------
(* One thing at a time: a request in flight or one timer for the next,     *)
(* never both nor two timers, however visibility changes meet timers and   *)
(* answers; two would double the load on the API for good                  *)
(* (usePolling.ts:44-71).                                                  *)
OneClock ==
  /\ \A i, j \in DOMAIN timers : i = j
  /\ request # None => DOMAIN timers = {}

(* A page that has told its poller to stop asks nothing more, and a page   *)
(* that is gone leaves no timer behind (usePolling.ts:44-81).              *)
QuietWhenDone == (stopped \/ ~mounted) => request = None /\ DOMAIN timers = {}

(* The answer a page has stopped at, or has set its stale timer for, is    *)
(* the one it shows, though requests of earlier paths may settle at any    *)
(* time after (usePolling.ts:53-62, 74-80).                                *)
NoAnswerOfAnotherPath ==
  mounted /\ (stopped \/ staleTimer # None) => data # None /\ data.own

(* The mark tells the truth about the current path's data: it is there     *)
(* exactly if the last refresh failed or the observation is older than two *)
(* intervals, or its timer is just due (usePolling.ts:36-60).              *)
StaleIsTrue ==
  data # None /\ data.own /\ mounted =>
    /\ stale => error \/ data.age >= StaleAfter
    /\ ~stale => ~error /\ (data.age <= StaleAfter \/ staleTimer = 0)

(* Why these hold: the effect holds the handle of the only timer there is, *)
(* an error is always marked on what is shown, and the stale timer counts  *)
(* down exactly what is left of the observation's two intervals until it   *)
(* marks the page (usePolling.ts:36-60).                                   *)
HandleHeld == DOMAIN timers \subseteq {timer}
ErrorIsMarked == data # None /\ error => stale
StaleTimerCounts ==
  data # None /\ data.own /\ mounted =>
    IF staleTimer = None THEN stale /\ data.age >= StaleAfter
    ELSE IF staleTimer = 0 THEN data.age >= StaleAfter
    ELSE staleTimer + data.age = StaleAfter

IInv ==
  /\ TypeOK /\ OneClock /\ QuietWhenDone /\ NoAnswerOfAnotherPath /\ StaleIsTrue
  /\ HandleHeld /\ ErrorIsMarked /\ StaleTimerCounts

(* A visible page that has not been told to stop asks again and again,     *)
(* though a timer that fires while the page is hidden is not set again     *)
(* (usePolling.ts:44-71).                                                  *)
KeepsAsking == []<>(request = 0 \/ ~visible \/ stopped \/ ~mounted)

(* contracts/frontend.md:131 of feature 006: "an initial failure has no    *)
(* stale data"; so stale data is always the current path's.                *)
InitialFailureHasNoStaleData == mounted /\ stale => data.own
=============================================================================
