---------------------------- MODULE DeviceDetail ----------------------------
(***************************************************************************)
(* useDeviceDetail of ui/src/pages/DeviceDetailPage.tsx: the page of one   *)
(* device asks for the comparison with the live device once, when it is    *)
(* opened, and refreshes everything else from then on.  Its clock is not   *)
(* usePolling's: its own timer, visibility changes and the fallback after  *)
(* a failed live read all start requests.                                  *)
(*                                                                         *)
(* An answer is the age of its observation and what it shows for the two   *)
(* comparisons, which are always replaced together.                        *)
(***************************************************************************)
EXTENDS Integers

CONSTANTS
  None,
  Interval,      \* between refreshes, in ticks
  StaleAfter,    \* age at which an observation is stale
  BaseTimeout,   \* of getJson
  LiveTimeout,   \* of the live read
  MaxLate        \* bound: aborted requests whose promises have not settled


AgeCap == StaleAfter + 1               \* bound: ages beyond are alike
OpenCap == LiveTimeout + BaseTimeout + 1  \* bound: of opened
TimerId == {1, 2}

(* What the page shows of the comparison: the device's answer, that the    *)
(* request for it failed, or that none was asked for.                      *)
Comparison == {"live", "failed", "not_requested"}

Request == [live : BOOLEAN, age : Nat, failed : BOOLEAN]
Answer  == [own : BOOLEAN, age : 0 .. AgeCap, comparison : Comparison]
Reason  == {"age", "refresh"}

(* What is assumed of the constants; Browser has TLC evaluate it.          *)
DetailConstants ==
  /\ {Interval, StaleAfter, BaseTimeout, LiveTimeout} \subseteq Nat \ {0} /\ MaxLate \in Nat
  /\ None \notin Int \cup Request \cup Answer \cup Reason

VARIABLES
  visible,     \* document.visibilityState
  mounted,     \* an effect is set up
  request,     \* in flight: live or not, its age, the live failure it is to report
  late,        \* requests of disposed effects that are still to settle
  timers,      \* what is left of each window.setTimeout(refresh)
  timer,       \* the handle the effect holds
  staleTimer,  \* what is left until staleTimer, or None
  data,        \* the answer shown, of this device or another, or None
  error,       \* the last answer was an error
  stale,       \* staleReason: "age", "refresh", or None: not stale
  opened,      \* history: ticks since the device was opened
  unreported   \* history: the live read failed and then its fallback did

effect == <<request, timers, timer, staleTimer>>
state  == <<data, error, stale>>
vars   == <<visible, mounted, late, effect, state, opened, unreported>>

NoTimers == [i \in {} |-> 0]
Without(ts, i) == [j \in DOMAIN ts \ {i} |-> ts[j]]
Unused == CHOOSE i \in TimerId \ DOMAIN timers : TRUE

LiveRequest == [live |-> TRUE, age |-> 0, failed |-> FALSE]
Refresh(failed) == [live |-> FALSE, age |-> 0, failed |-> failed]
TimeoutOf(req) == IF req.live THEN LiveTimeout ELSE BaseTimeout

Loading == data = None /\ ~error

TypeOK ==
  /\ visible \in BOOLEAN /\ mounted \in BOOLEAN
  /\ \/ request = None
     \/ /\ request \in Request
        /\ request.age <= TimeoutOf(request) /\ ~(request.live /\ request.failed)
  /\ late \in 0 .. MaxLate
  /\ DOMAIN timers \subseteq TimerId /\ \A i \in DOMAIN timers : timers[i] \in 0 .. Interval
  /\ timer \in TimerId \cup {None}
  /\ staleTimer \in 0 .. StaleAfter \cup {None}
  /\ data \in Answer \cup {None}
  /\ error \in BOOLEAN /\ stale \in Reason \cup {None} /\ (stale # None => data # None)
  /\ opened \in 0 .. OpenCap /\ unreported \in BOOLEAN

-----------------------------------------------------------------------------
(* The effect is set up and its microtask has run: the live read is under  *)
(* way, in a hidden page too.                                              *)
Opened ==
  /\ request' = LiveRequest
  /\ data' = None /\ error' = FALSE /\ stale' = None
  /\ opened' = 0 /\ unreported' = FALSE

Init ==
  /\ visible \in BOOLEAN /\ mounted = TRUE /\ late = 0
  /\ request = LiveRequest
  /\ timers = NoTimers /\ timer = None /\ staleTimer = None
  /\ data = None /\ error = FALSE /\ stale = None
  /\ opened = 0 /\ unreported = FALSE

(* Cleanup.  Mutant: the timer goes on.                                    *)
KeepTimer == timers
Cleared == IF timer = None THEN timers ELSE Without(timers, timer)

Dispose ==
  /\ mounted
  /\ request # None => late < MaxLate
  /\ late' = IF request # None THEN late + 1 ELSE late
  /\ timers' = Cleared /\ timer' = None /\ staleTimer' = None
  /\ UNCHANGED visible

(* Another device; the page that is opened starts from nothing.            *)
OpenAnother == Dispose /\ Opened /\ UNCHANGED mounted

Leave ==
  /\ Dispose
  /\ mounted' = FALSE /\ request' = None
  /\ UNCHANGED <<state, opened, unreported>>

(* disposed is looked at after every await.  Mutant: it is not.            *)
ShowLate == {data, [own |-> FALSE, age |-> 0, comparison |-> "live"]}
IgnoreLate == {data}

SettleLate ==
  /\ late > 0 /\ late' = late - 1
  /\ data' \in IgnoreLate
  /\ UNCHANGED <<visible, mounted, effect, error, stale, opened, unreported>>

-----------------------------------------------------------------------------
(* refresh does nothing in a hidden page unless it is forced.              *)
(* Mutant: nothing forces it.                                              *)
NeverForced(force) == visible
Refreshes(force) == force \/ visible

(* Whatever it does, refresh has forgotten the timer.                      *)
Fire(i) ==
  /\ i \in DOMAIN timers /\ timers[i] = 0
  /\ timers' = Without(timers, i) /\ timer' = None
  /\ request' = IF mounted /\ request = None /\ Refreshes(FALSE) THEN Refresh(FALSE) ELSE request
  /\ UNCHANGED <<visible, mounted, late, staleTimer, state, opened, unreported>>

(* Only what is shown is stale.                                            *)
Mark(reason) == IF data = None THEN None ELSE reason

FireStale ==
  /\ staleTimer = 0 /\ staleTimer' = None
  /\ stale' = Mark("age")
  /\ UNCHANGED <<visible, mounted, late, request, timers, timer, data, error, opened, unreported>>

(* onVisibility.  Mutant: it leaves the rest to the timer.                 *)
LeaveToTimer == FALSE
Resumes == request = None

Hide ==
  /\ visible /\ visible' = FALSE
  /\ UNCHANGED <<mounted, late, effect, state, opened, unreported>>

Show ==
  /\ ~visible /\ visible' = TRUE
  /\ IF mounted /\ Resumes
       THEN timers' = Cleared /\ timer' = None /\ request' = Refresh(FALSE)
       ELSE UNCHANGED <<timers, timer, request>>
  /\ UNCHANGED <<mounted, late, staleTimer, state, opened, unreported>>

-----------------------------------------------------------------------------
Schedule ==
  /\ timers' = [j \in DOMAIN Cleared \cup {Unused} |-> IF j = Unused THEN Interval ELSE timers[j]]
  /\ timer' = Unused

(* Mutant: the time the answer took is not taken off.                      *)
WholeMinute(age) == StaleAfter
ScheduleStale(age) == IF age < StaleAfter THEN StaleAfter - age ELSE 0

(* The API took its observation at some time since the request was sent.   *)
Shown(age, comparison) ==
  /\ age <= request.age
  /\ data' = [own |-> TRUE, age |-> IF age < AgeCap THEN age ELSE AgeCap, comparison |-> comparison]
  /\ error' = FALSE /\ stale' = None
  /\ staleTimer' = ScheduleStale(age)
  /\ request' = None
  /\ Schedule

LiveSucceeds(age) ==
  /\ request # None /\ request.live
  /\ Shown(age, "live")
  /\ UNCHANGED <<visible, mounted, late, opened, unreported>>

(* The fallback is forced: it is asked for in a hidden page too.           *)
LiveFails ==
  /\ request # None /\ request.live
  /\ IF Refreshes(TRUE)
       THEN request' = Refresh(TRUE) /\ UNCHANGED <<timers, timer>>
       ELSE request' = None /\ UNCHANGED <<timers, timer>>
  /\ UNCHANGED <<visible, mounted, late, staleTimer, state, opened, unreported>>

(* The comparison a refresh shows: the failure it is to report, or what    *)
(* was shown.  Mutants: its own; what was shown, failure or not.           *)
AsAnswered(failed) == IF failed THEN "failed" ELSE "not_requested"
AsBefore(failed) == IF data = None THEN "not_requested" ELSE data.comparison
Kept(failed) ==
  IF failed THEN "failed" ELSE IF data = None THEN "not_requested" ELSE data.comparison

RefreshSucceeds(age) ==
  /\ request # None /\ ~request.live
  /\ Shown(age, Kept(request.failed))
  /\ UNCHANGED <<visible, mounted, late, opened, unreported>>

RefreshFails ==
  /\ request # None /\ ~request.live
  /\ request' = None
  /\ error' = TRUE /\ stale' = Mark("refresh")
  /\ unreported' = (unreported \/ request.failed)
  /\ Schedule
  /\ UNCHANGED <<visible, mounted, late, staleTimer, data, opened>>

TimesOut == request # None /\ request.age = TimeoutOf(request) /\ (LiveFails \/ RefreshFails)

-----------------------------------------------------------------------------
Due == \/ \E i \in DOMAIN timers : timers[i] = 0
       \/ staleTimer = 0

Older(n, cap) == IF n < cap THEN n + 1 ELSE cap
Less(n) == IF n > 0 THEN n - 1 ELSE 0

Tick ==
  /\ visible => ~Due
  /\ request # None => request.age < TimeoutOf(request)
  /\ request' = IF request = None THEN None ELSE [request EXCEPT !.age = @ + 1]
  /\ timers' = [i \in DOMAIN timers |-> Less(timers[i])]
  /\ staleTimer' = IF staleTimer = None THEN None ELSE Less(staleTimer)
  /\ data' = IF data = None THEN None ELSE [data EXCEPT !.age = Older(@, AgeCap)]
  /\ opened' = Older(opened, OpenCap)
  /\ UNCHANGED <<visible, mounted, late, timer, error, stale, unreported>>

Next ==
  \/ OpenAnother
  \/ Leave
  \/ SettleLate
  \/ \E i \in TimerId : Fire(i)
  \/ FireStale
  \/ Hide
  \/ Show
  \/ \E age \in 0 .. LiveTimeout : LiveSucceeds(age)
  \/ LiveFails
  \/ \E age \in 0 .. BaseTimeout : RefreshSucceeds(age)
  \/ RefreshFails
  \/ Tick

Spec == Init /\ [][Next]_vars
-----------------------------------------------------------------------------
(* Live read, fallback, timer and visibility never run two clocks, and a   *)
(* page that is left stops its own (DeviceDetailPage.tsx:22-86).           *)
OneDetailClock ==
  /\ DOMAIN timers \subseteq {timer}
  /\ request # None => DOMAIN timers = {}
  /\ ~mounted => request = None /\ DOMAIN timers = {}

(* What is shown is this device's, and the mark and its reason are true: a *)
(* fresh observation is unmarked, a failed refresh is named, an observation*)
(* older than a minute is marked (DeviceDetailPage.tsx:23-55, 66-69).      *)
DetailStaleIsTrue ==
  mounted /\ data # None =>
    /\ data.own
    /\ stale = "refresh" => error
    /\ stale = "age" => data.age >= StaleAfter
    /\ stale = None => ~error /\ (data.age <= StaleAfter \/ staleTimer = 0)

(* One clock, and a true mark with its reason, over a state of the right   *)
(* kind (DeviceDetailPage.tsx:12-86).                                      *)
DetailIsSound == TypeOK /\ OneDetailClock /\ DetailStaleIsTrue

(* research.md:263-265 of feature 006: live "is issued once when the route *)
(* opens and its timestamped result is retained".  The failure of the live *)
(* read is shown too, unless its fallback failed as well                   *)
(* (DeviceDetailPage.tsx:31-78).                                           *)
LiveFailureReported ==
  mounted /\ data # None /\ data.comparison = "not_requested" => unreported

(* Nothing that happens while the page stays open takes the comparison     *)
(* away or replaces it (DeviceDetailPage.tsx:37-50).                       *)
ComparisonRetained ==
  [][data # None /\ data' # None => data'.comparison = data.comparison]_vars

(* A device opened in a hidden page, too, shows its state or its error     *)
(* within the two timeouts (DeviceDetailPage.tsx:31-78).                   *)
LoadingEnds == mounted /\ Loading => opened <= LiveTimeout + BaseTimeout

(* The live read ends and, if it failed, the page says so                  *)
(* (DeviceDetailPage.tsx:31-78).                                           *)
LiveReadReported == LiveFailureReported /\ LoadingEnds

(* Why these hold: an error is marked on what is shown, and the stale timer*)
(* counts down what is left of the observation's time; as long as nothing  *)
(* is shown, the live read or its fallback is under way, or its failure has*)
(* gone unreported, and both run only then.                                *)
ErrorIsMarked == data # None /\ error => stale # None
StaleTimerCounts ==
  mounted /\ data # None =>
    IF staleTimer = None THEN stale # None /\ data.age >= StaleAfter
    ELSE IF staleTimer = 0 THEN data.age >= StaleAfter
    ELSE staleTimer + data.age = StaleAfter
NothingShownYet ==
  /\ mounted /\ data = None =>
       unreported \/ (request # None /\ (request.live \/ request.failed))
  /\ request # None /\ (request.live \/ request.failed) => data = None
  /\ mounted /\ Loading =>
       /\ request # None
       /\ opened <= request.age + (IF request.live THEN 0 ELSE LiveTimeout)

IInv ==
  /\ DetailIsSound /\ LiveFailureReported
  /\ ErrorIsMarked /\ StaleTimerCounts /\ NothingShownYet

(* A visible page of a device refreshes again and again, however live read,*)
(* visibility and timer alternate (DeviceDetailPage.tsx:26-82).            *)
KeepsRefreshing == []<>(~visible \/ ~mounted \/ (request # None /\ request.age = 0))
=============================================================================
