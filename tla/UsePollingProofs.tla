--------------------------- MODULE UsePollingProofs ---------------------------
(***************************************************************************)
(* The safety properties of the web UI's hooks, usePolling (UsePolling) and *)
(* the page of a device (DeviceDetail), hold for every polling interval,   *)
(* every timeout and any number of aborted requests.                       *)
(***************************************************************************)
EXTENDS Browser, TLAPS

(* The part of the invariant about requests and timers, and the part about *)
(* what is shown; most steps touch one of them.                            *)
Clock == OneClock /\ QuietWhenDone /\ HandleHeld
Page == NoAnswerOfAnotherPath /\ StaleIsTrue /\ ErrorIsMarked /\ StaleTimerCounts

LEMMA Parts == IInv <=> TypeOK /\ Clock /\ Page
BY DEF IInv, Clock, Page

(* Facts about the constants and the derived times.                        *)
LEMMA Times ==
  /\ Interval \in Nat \ {0} /\ RequestTimeout \in Nat \ {0} /\ MaxLate \in Nat
  /\ StaleAfter \in Nat \ {0} /\ AgeCap \in Nat /\ AgeCap = StaleAfter + 1
BY TimesArePositive DEF StaleAfter, AgeCap

(* With no timer set, the lowest free id is the first.                     *)
LEMMA LowestIsFirst == Lowest(TimerId \ {}) = 1
<1>1. 1 \in TimerId \ {} /\ \A j \in TimerId \ {} : 1 <= j
  BY DEF TimerId
<1>2. \A i \in TimerId \ {} : (\A j \in TimerId \ {} : i <= j) => i = 1
  BY DEF TimerId
<1>3. QED
  BY <1>1, <1>2 DEF Lowest

(* The initial states satisfy the invariant.                               *)
LEMMA InitIInv == Init => IInv
<1> SUFFICES ASSUME Init PROVE IInv
  OBVIOUS
<1>1. DOMAIN timers = {} /\ data = None /\ ~stopped /\ mounted /\ staleTimer = None
  BY DEF Init, NoTimers
<1>2. TypeOK
  <2>1. request \in 0 .. RequestTimeout \cup {None} /\ late \in 0 .. MaxLate
    BY Times DEF Init
  <2>2. QED
    BY <1>1, <2>1 DEF Init, TypeOK
<1>3. Clock
  BY <1>1 DEF Clock, OneClock, QuietWhenDone, HandleHeld
<1>4. Page
  BY <1>1 DEF Page, NoAnswerOfAnotherPath, StaleIsTrue, ErrorIsMarked, StaleTimerCounts
<1>5. QED
  BY <1>2, <1>3, <1>4, Parts

-----------------------------------------------------------------------------
(* Timers.                                                                 *)

(* Taking a timer away keeps the times of the others.                      *)
LEMMA WithoutTimer ==
  ASSUME NEW ts, NEW i
  PROVE  /\ DOMAIN Without(ts, i) = DOMAIN ts \ {i}
         /\ \A j \in DOMAIN Without(ts, i) : Without(ts, i)[j] = ts[j]
BY DEF Without

(* Clearing the handle clears every timer there is.                        *)
LEMMA ClearedIsEmpty == HandleHeld /\ TypeOK => DOMAIN Cleared = {}
<1> SUFFICES ASSUME HandleHeld, TypeOK PROVE DOMAIN Cleared = {}
  OBVIOUS
<1>1. CASE timer = None
  <2>1. None \notin TimerId
    BY NoneIsNothingElse DEF TimerId
  <2>2. DOMAIN timers = {}
    BY <1>1, <2>1 DEF HandleHeld, TypeOK
  <2>3. QED
    BY <1>1, <2>2 DEF Cleared
<1>2. CASE timer # None
  <2>1. DOMAIN Cleared = DOMAIN timers \ {timer}
    BY <1>2, WithoutTimer DEF Cleared
  <2>2. QED
    BY <2>1 DEF HandleHeld
<1>3. QED
  BY <1>1, <1>2

(* Scheduling the next run after an answer leaves exactly one timer, the   *)
(* one the effect holds, or none after the last answer.                    *)
LEMMA ScheduleLeavesOne ==
  ASSUME IInv, NEW final \in BOOLEAN, request # None, ScheduleNext(final)
  PROVE  /\ timer' \in TimerId \cup {None}
         /\ DOMAIN timers' \subseteq {timer'} /\ DOMAIN timers' \subseteq TimerId
         /\ \A i \in DOMAIN timers' : timers'[i] \in 0 .. Interval
         /\ final => DOMAIN timers' = {}
<1>1. DOMAIN timers = {}
  BY DEF IInv, OneClock
<1>2. CASE ~final
  <2>1. Lowest(TimerId \ DOMAIN timers) = 1
    BY <1>1, LowestIsFirst
  <2>2. timer' = 1 /\ timers' = [j \in {1} |-> Interval]
    <3>1. {} \cup {1} = {1}
      OBVIOUS
    <3>2. timers' = [j \in {1} |-> IF j = 1 THEN Interval ELSE timers[j]]
      BY <1>1, <1>2, <2>1, <3>1 DEF ScheduleNext, Schedules
    <3>3. QED
      BY <1>2, <2>1, <3>2 DEF ScheduleNext, Schedules
  <2>3. QED
    BY <1>2, <2>2, Times DEF TimerId
<1>3. CASE final
  BY <1>1, <1>3 DEF ScheduleNext, Schedules, IInv, TypeOK
<1>4. QED
  BY <1>2, <1>3

(* A timer that fires is gone, and the run it starts is alone.             *)
LEMMA FireStep == ASSUME IInv, NEW i \in TimerId, Fire(i) PROVE IInv'
<1>1. TypeOK /\ Clock /\ Page
  BY Parts
<1>2. DOMAIN timers = {i} /\ timers' = Without(timers, i)
  BY <1>1 DEF Fire, Clock, OneClock
<1>3. DOMAIN timers' = {}
  <2>1. DOMAIN Without(timers, i) = DOMAIN timers \ {i}
    BY WithoutTimer, Zenon
  <2>2. DOMAIN timers' = {i} \ {i}
    BY <1>2, <2>1, Zenon
  <2>3. QED
    BY <2>2
<1>4. TypeOK'
  BY <1>1, <1>3, Times DEF Fire, TypeOK, state
<1>5. Clock'
  BY <1>1, <1>2, <1>3 DEF Fire, Clock, OneClock, QuietWhenDone, HandleHeld, CanRun
<1>6. Page'
  BY <1>1 DEF Fire, state, Page, NoAnswerOfAnotherPath, StaleIsTrue, ErrorIsMarked,
              StaleTimerCounts
<1>7. QED
  BY <1>4, <1>5, <1>6, Parts DEF IInv, Clock, Page

(* A stale timer that fires marks what is shown, which is then old.        *)
LEMMA FireStaleStep == ASSUME IInv, FireStale PROVE IInv'
<1>1. TypeOK /\ Clock /\ Page
  BY Parts
<1>2. staleTimer # None
  BY NoneIsNothingElse DEF FireStale
<1>3. TypeOK'
  BY <1>1 DEF FireStale, TypeOK
<1>4. Clock'
  BY <1>1 DEF FireStale, Clock, OneClock, QuietWhenDone, HandleHeld
<1>5. Page'
  BY <1>1, <1>2 DEF FireStale, Page, NoAnswerOfAnotherPath, StaleIsTrue, ErrorIsMarked,
                    StaleTimerCounts
<1>6. QED
  BY <1>3, <1>4, <1>5 DEF IInv, Clock, Page

(* Hiding changes nothing but visibility; showing again clears the timer   *)
(* before it runs.                                                         *)
LEMMA VisibilityStep == ASSUME IInv, Hide \/ Show PROVE IInv'
<1>1. TypeOK /\ Clock /\ Page
  BY Parts
<1>2. UNCHANGED <<mounted, late, stopped, timer, staleTimer, data, error, stale>>
  BY DEF Hide, Show, effect, state
<1>3. Page'
  BY <1>1, <1>2 DEF Page, NoAnswerOfAnotherPath, StaleIsTrue, ErrorIsMarked, StaleTimerCounts
<1>4. CASE UNCHANGED <<timers, request>>
  <2>1. visible' \in BOOLEAN
    BY DEF Hide, Show
  <2>2. TypeOK' /\ Clock'
    BY <1>1, <1>2, <1>4, <2>1 DEF TypeOK, Clock, OneClock, QuietWhenDone, HandleHeld
  <2>3. QED
    BY <1>3, <2>2 DEF IInv, Clock, Page
<1>5. CASE ~UNCHANGED <<timers, request>>
  <2>1. /\ mounted /\ ~stopped /\ visible' = TRUE
        /\ timers' = Cleared /\ request' = 0
    BY <1>5 DEF Hide, Show, Resumes, effect
  <2>2. DOMAIN timers' = {}
    BY <1>1, <2>1, ClearedIsEmpty DEF Clock
  <2>3. TypeOK' /\ Clock'
    BY <1>1, <1>2, <2>1, <2>2, Times
    DEF TypeOK, Clock, OneClock, QuietWhenDone, HandleHeld
  <2>4. QED
    BY <1>3, <2>3 DEF IInv, Clock, Page
<1>6. QED
  BY <1>4, <1>5

-----------------------------------------------------------------------------
(* Answers.                                                                *)

(* What a new observation leaves until it is stale.                        *)
LEMMA ScheduleStaleCounts ==
  ASSUME NEW age \in Nat
  PROVE  /\ ScheduleStale(age) \in 0 .. StaleAfter
         /\ ScheduleStale(age) = 0 => age >= StaleAfter
         /\ ScheduleStale(age) # 0 => ScheduleStale(age) + age = StaleAfter
BY Times DEF ScheduleStale

(* A success shows its own data, unmarked, with the time it has left.      *)
LEMMA SucceedStep ==
  ASSUME IInv, NEW age \in 0 .. RequestTimeout, NEW final \in BOOLEAN, Succeed(age, final)
  PROVE  IInv'
<1>1. TypeOK /\ Clock /\ Page /\ age \in Nat
  BY Parts, Times
<1> DEFINE shownAge == IF age < AgeCap THEN age ELSE AgeCap
<1>2. shownAge \in 0 .. AgeCap /\ shownAge \in Nat
  BY <1>1, Times
<1>3. /\ data' = [own |-> TRUE, age |-> shownAge] /\ data' # None
      /\ data'.own = TRUE /\ data'.age = shownAge
  <2>1. data' = [own |-> TRUE, age |-> shownAge]
    BY DEF Succeed
  <2>2. data' \in [own : BOOLEAN, age : Nat]
    BY <1>2, <2>1
  <2>3. QED
    BY <2>1, <2>2, NoneIsNothingElse
<1>4. /\ staleTimer' \in 0 .. StaleAfter
      /\ staleTimer' # None
      /\ staleTimer' = 0 => shownAge >= StaleAfter
      /\ staleTimer' # 0 => staleTimer' + shownAge = StaleAfter
  BY <1>1, ScheduleStaleCounts, NoneIsNothingElse, Times DEF Succeed
<1> HIDE DEF shownAge
<1>5. request # None /\ ScheduleNext(final) /\ mounted' = mounted
  BY DEF Succeed
<1>6. /\ timer' \in TimerId \cup {None}
      /\ DOMAIN timers' \subseteq {timer'} /\ DOMAIN timers' \subseteq TimerId
      /\ \A i \in DOMAIN timers' : timers'[i] \in 0 .. Interval
      /\ final => DOMAIN timers' = {}
  BY <1>5, ScheduleLeavesOne
<1>7. mounted
  BY <1>1, <1>5 DEF Clock, QuietWhenDone
<1>8. TypeOK'
  BY <1>1, <1>2, <1>3, <1>4, <1>6 DEF Succeed, TypeOK
<1>9. Clock'
  BY <1>5, <1>6, <1>7 DEF Succeed, Clock, OneClock, QuietWhenDone, HandleHeld
<1>10. Page'
  <2>1. error' = FALSE /\ stale' = FALSE
    BY DEF Succeed
  <2>2. staleTimer' # 0 => shownAge <= StaleAfter
    <3>1. \A t, a, s \in Nat : t + a = s => a <= s
      OBVIOUS
    <3>2. staleTimer' \in Nat /\ shownAge \in Nat /\ StaleAfter \in Nat
      <4>1. \A n \in Nat : 0 .. n \subseteq Nat
        OBVIOUS
      <4>2. QED
        BY <1>2, <1>4, <4>1, Times
    <3>3. QED
      BY <1>4, <3>1, <3>2
  <2>3. QED
    BY <1>3, <1>4, <2>1, <2>2
    DEF Page, NoAnswerOfAnotherPath, StaleIsTrue, ErrorIsMarked, StaleTimerCounts
<1>11. QED
  BY <1>8, <1>9, <1>10 DEF IInv, Clock, Page

(* A failure keeps the data and marks it.                                  *)
LEMMA FailStep == ASSUME IInv, Fail PROVE IInv'
<1>1. TypeOK /\ Clock /\ Page
  BY Parts
<1>2. request # None /\ ScheduleNext(FALSE) /\ mounted' = mounted /\ stopped' = stopped
  BY DEF Fail
<1>3. /\ timer' \in TimerId \cup {None}
      /\ DOMAIN timers' \subseteq {timer'} /\ DOMAIN timers' \subseteq TimerId
      /\ \A i \in DOMAIN timers' : timers'[i] \in 0 .. Interval
  BY <1>2, ScheduleLeavesOne
<1>4. mounted /\ ~stopped
  BY <1>1, <1>2 DEF Clock, QuietWhenDone
<1>5. TypeOK'
  BY <1>1, <1>3 DEF Fail, TypeOK
<1>6. Clock'
  BY <1>2, <1>3, <1>4 DEF Fail, Clock, OneClock, QuietWhenDone, HandleHeld
<1>7. Page'
  BY <1>1 DEF Fail, Page, NoAnswerOfAnotherPath, StaleIsTrue, ErrorIsMarked, StaleTimerCounts
<1>8. QED
  BY <1>5, <1>6, <1>7 DEF IInv, Clock, Page

(* A request of a disposed effect changes nothing.                         *)
LEMMA SettleLateStep == ASSUME IInv, SettleLate PROVE IInv'
<1>1. TypeOK /\ Clock /\ Page
  BY Parts
<1>2. /\ UNCHANGED <<visible, mounted, request, stopped, timers, timer, staleTimer>>
      /\ UNCHANGED <<data, error, stale>>
  BY DEF SettleLate, IgnoreLate, effect
<1>3. late' \in 0 .. MaxLate
  BY <1>1, Times DEF SettleLate, TypeOK
<1>4. TypeOK'
  BY <1>1, <1>2, <1>3 DEF TypeOK
<1>5. Clock' /\ Page'
  BY <1>1, <1>2 DEF Clock, OneClock, QuietWhenDone, HandleHeld, Page,
                    NoAnswerOfAnotherPath, StaleIsTrue, ErrorIsMarked, StaleTimerCounts
<1>6. QED
  BY <1>4, <1>5 DEF IInv, Clock, Page
-----------------------------------------------------------------------------
(* Cleanup and time.                                                       *)

(* Cleanup leaves nothing of the effect behind.                            *)
LEMMA DisposeCleans ==
  ASSUME IInv, Dispose
  PROVE  /\ DOMAIN timers' = {} /\ timer' = None /\ staleTimer' = None /\ stopped' = FALSE
         /\ late' \in 0 .. MaxLate /\ UNCHANGED <<visible, error, stale>>
<1>1. TypeOK /\ Clock
  BY Parts
<1>2. DOMAIN timers' = {}
  BY <1>1, ClearedIsEmpty DEF Dispose, Clock
<1>3. late' \in 0 .. MaxLate
  BY <1>1, Times DEF Dispose, TypeOK
<1>4. QED
  BY <1>2, <1>3 DEF Dispose

LEMMA UnmountStep == ASSUME IInv, Unmount PROVE IInv'
<1>1. TypeOK /\ Clock /\ Page /\ Dispose
  BY Parts DEF Unmount
<1>2. /\ DOMAIN timers' = {} /\ timer' = None /\ staleTimer' = None /\ stopped' = FALSE
      /\ late' \in 0 .. MaxLate /\ UNCHANGED <<visible, error, stale>>
  BY <1>1, DisposeCleans
<1>3. mounted' = FALSE /\ request' = None /\ UNCHANGED data
  BY DEF Unmount
<1>4. TypeOK'
  BY <1>1, <1>2, <1>3 DEF TypeOK
<1>5. Clock'
  BY <1>2, <1>3 DEF Clock, OneClock, QuietWhenDone, HandleHeld
<1>6. Page'
  BY <1>1, <1>2, <1>3
  DEF Page, NoAnswerOfAnotherPath, StaleIsTrue, ErrorIsMarked, StaleTimerCounts
<1>7. QED
  BY <1>4, <1>5, <1>6 DEF IInv, Clock, Page

(* A new path starts with what is shown no longer its own.                 *)
LEMMA ChangePathStep == ASSUME IInv, ChangePath PROVE IInv'
<1>1. TypeOK /\ Clock /\ Page /\ Dispose
  BY Parts DEF ChangePath
<1>2. /\ DOMAIN timers' = {} /\ timer' = None /\ staleTimer' = None /\ stopped' = FALSE
      /\ late' \in 0 .. MaxLate /\ UNCHANGED <<visible, error, stale>>
  BY <1>1, DisposeCleans
<1>3. mounted' = mounted /\ mounted /\ request' \in {0, None}
  BY DEF ChangePath, Dispose
<1>4. \/ data = None /\ data' = None
      \/ data # None /\ data' \in [own : BOOLEAN, age : 0 .. AgeCap] /\ data'.own = FALSE
  BY <1>1 DEF ChangePath, TypeOK
<1>5. TypeOK'
  <2>1. request' \in 0 .. RequestTimeout \cup {None}
    BY <1>3, Times
  <2>2. QED
    BY <1>1, <1>2, <1>3, <1>4, <2>1 DEF TypeOK
<1>6. Clock'
  BY <1>2, <1>3 DEF Clock, OneClock, QuietWhenDone, HandleHeld
<1>7. Page'
  BY <1>1, <1>2, <1>4
  DEF Page, NoAnswerOfAnotherPath, StaleIsTrue, ErrorIsMarked, StaleTimerCounts
<1>8. QED
  BY <1>5, <1>6, <1>7 DEF IInv, Clock, Page

(* The stale timer and the age of the data move together.                  *)
LEMMA TickStep == ASSUME IInv, Tick PROVE IInv'
<1>1. TypeOK /\ Clock /\ Page
  BY Parts
<1>2. /\ UNCHANGED <<visible, mounted, late, stopped, timer, error, stale>>
      /\ DOMAIN timers' = DOMAIN timers
      /\ request' = None <=> request = None
      /\ staleTimer' = None <=> staleTimer = None
      /\ data' = None <=> data = None
  <2>1. DOMAIN timers' = DOMAIN timers
    BY DEF Tick
  <2>2. request' = None <=> request = None
    BY <1>1, Times, NoneIsNothingElse DEF Tick, TypeOK
  <2>3. staleTimer' = None <=> staleTimer = None
    BY <1>1, Times, NoneIsNothingElse DEF Tick, TypeOK, Less
  <2>4. data' = None <=> data = None
    <3>1. CASE data # None
      <4>1. data \in [own : BOOLEAN, age : 0 .. AgeCap] /\ Older(data.age) \in Nat
        BY <1>1, <3>1, Times DEF TypeOK, Older
      <4>2. data' = [data EXCEPT !.age = Older(@)]
        BY <3>1 DEF Tick
      <4>3. data' \in [own : BOOLEAN, age : Nat]
        BY <4>1, <4>2, Times
      <4>4. QED
        BY <3>1, <4>3, NoneIsNothingElse
    <3>2. QED
      BY <3>1 DEF Tick
  <2>5. QED
    BY <2>1, <2>2, <2>3, <2>4 DEF Tick
<1>3. /\ request' \in 0 .. RequestTimeout \cup {None}
      /\ \A i \in DOMAIN timers' : timers'[i] \in 0 .. Interval
      /\ staleTimer' \in 0 .. StaleAfter \cup {None}
  BY <1>1, <1>2, Times DEF Tick, TypeOK, Less
<1>4. data # None =>
        /\ data' \in [own : BOOLEAN, age : 0 .. AgeCap]
        /\ data'.own = data.own /\ data'.age = Older(data.age)
  <2>1. SUFFICES ASSUME data # None
                 PROVE  /\ data' \in [own : BOOLEAN, age : 0 .. AgeCap]
                        /\ data'.own = data.own /\ data'.age = Older(data.age)
    OBVIOUS
  <2>2. data \in [own : BOOLEAN, age : 0 .. AgeCap] /\ Older(data.age) \in 0 .. AgeCap
    BY <1>1, <2>1, Times DEF TypeOK, Older
  <2>3. data' = [data EXCEPT !.age = Older(@)]
    BY <2>1 DEF Tick
  <2>4. QED
    BY <2>2, <2>3
<1>5. TypeOK'
  BY <1>1, <1>2, <1>3, <1>4 DEF TypeOK
<1>6. Clock'
  BY <1>1, <1>2 DEF Clock, OneClock, QuietWhenDone, HandleHeld
<1>7. Page'
  <2>1. NoAnswerOfAnotherPath' /\ ErrorIsMarked'
    BY <1>1, <1>2, <1>4 DEF Page, NoAnswerOfAnotherPath, ErrorIsMarked
  <2>2. SUFFICES ASSUME data # None, data.own, mounted
                 PROVE  StaleIsTrue' /\ StaleTimerCounts'
    BY <1>2, <1>4, <2>1 DEF Page, StaleIsTrue, StaleTimerCounts
  <2>3. /\ data.age \in 0 .. AgeCap /\ data'.age = Older(data.age) /\ data'.own
        /\ stale \in BOOLEAN /\ staleTimer \in 0 .. StaleAfter \cup {None}
    BY <1>1, <1>4, <2>2 DEF TypeOK
  <2>4. StaleTimerCounts'
    BY <1>1, <1>2, <2>2, <2>3, Times, NoneIsNothingElse
    DEF Page, StaleTimerCounts, Tick, Older, Less
  <2>5. StaleIsTrue'
    <3>1. stale' => error' \/ data'.age >= StaleAfter
      BY <1>1, <1>2, <2>2, <2>3, Times DEF Page, StaleIsTrue, Older
    <3>2. ~stale' => ~error'
      BY <1>1, <1>2, <2>2 DEF Page, StaleIsTrue
    <3>3. ~stale' => data'.age <= StaleAfter \/ staleTimer' = 0
      BY <1>1, <1>2, <2>2, <2>3, Times, NoneIsNothingElse
      DEF Page, StaleTimerCounts, Tick, Older, Less
    <3>4. QED
      BY <3>1, <3>2, <3>3 DEF StaleIsTrue
  <2>6. QED
    BY <2>1, <2>4, <2>5 DEF Page
<1>8. QED
  BY <1>5, <1>6, <1>7 DEF IInv, Clock, Page

-----------------------------------------------------------------------------
(* Every step of the page preserves the invariant.                         *)
LEMMA StepIInv == IInv /\ [Next]_vars => IInv'
<1> SUFFICES ASSUME IInv, [Next]_vars PROVE IInv'
  OBVIOUS
<1>1. CASE \E i \in TimerId : Fire(i)
  BY <1>1, FireStep
<1>2. CASE FireStale
  BY <1>2, FireStaleStep
<1>3. CASE Hide \/ Show
  BY <1>3, VisibilityStep
<1>4. CASE \E age \in 0 .. RequestTimeout, final \in BOOLEAN : Succeed(age, final)
  BY <1>4, SucceedStep
<1>5. CASE Fail
  BY <1>5, FailStep
<1>6. CASE SettleLate
  BY <1>6, SettleLateStep
<1>7. CASE Unmount
  BY <1>7, UnmountStep
<1>8. CASE ChangePath
  BY <1>8, ChangePathStep
<1>9. CASE Tick
  BY <1>9, TickStep
<1>10. CASE UNCHANGED vars
  BY <1>10 DEF vars, effect, state, IInv, TypeOK, OneClock, QuietWhenDone, HandleHeld,
               NoAnswerOfAnotherPath, StaleIsTrue, ErrorIsMarked, StaleTimerCounts
<1>11. QED
  BY <1>1, <1>2, <1>3, <1>4, <1>5, <1>6, <1>7, <1>8, <1>9, <1>10 DEF Next

(* The inductive invariant of the poller holds for all its parameters      *)
(* (usePolling.ts:18-81).                                                  *)
THEOREM Inductive == Spec => []IInv
<1>1. QED
  BY InitIInv, StepIInv, PTL DEF Spec

(* One request or one timer at a time, none when the page is done          *)
(* (usePolling.ts:44-81).                                                  *)
THEOREM NeverTwoAtOnce == Spec => []OneClock /\ []QuietWhenDone
<1>1. IInv => OneClock /\ QuietWhenDone
  BY DEF IInv
<1>2. QED
  BY <1>1, Inductive, PTL

(* The page shows its own path's answer and marks it stale exactly when it *)
(* is (usePolling.ts:36-62).                                               *)
THEOREM ShowsWhatItSays == Spec => []NoAnswerOfAnotherPath /\ []StaleIsTrue
<1>1. IInv => NoAnswerOfAnotherPath /\ StaleIsTrue
  BY DEF IInv
<1>2. QED
  BY <1>1, Inductive, PTL
-----------------------------------------------------------------------------
(* The page of a device: DeviceDetail is D in Browser, with hooks and      *)
(* variables of its own.                                                   *)

(* The parts of the invariant: what is shown, and what is shown at first.  *)
DetailPage == D!DetailStaleIsTrue /\ D!ErrorIsMarked /\ D!StaleTimerCounts
DetailReading == D!LiveFailureReported /\ D!NothingShownYet

(* Facts about the constants.                                              *)
LEMMA DetailLimits ==
  ASSUME D!DetailConstants
  PROVE  /\ DetailInterval \in Nat \ {0} /\ DetailStaleAfter \in Nat \ {0} /\ MaxLate \in Nat
         /\ BaseTimeout \in Nat \ {0} /\ LiveTimeout \in Nat \ {0}
         /\ D!AgeCap \in Nat /\ D!AgeCap = DetailStaleAfter + 1
         /\ D!OpenCap \in Nat /\ D!OpenCap = LiveTimeout + BaseTimeout + 1
BY DEF D!DetailConstants, D!AgeCap, D!OpenCap

LEMMA Nones ==
  ASSUME D!DetailConstants
  PROVE  /\ None \notin Int /\ None \notin D!Request /\ None \notin D!Answer /\ None \notin D!Reason
         /\ None \notin D!TimerId
BY DEF D!DetailConstants, D!TimerId

(* The new requests, and when they end.                                    *)
LEMMA Requests ==
  ASSUME D!DetailConstants
  PROVE  /\ D!LiveRequest \in D!Request /\ D!LiveRequest.live /\ ~D!LiveRequest.failed /\ D!LiveRequest.age = 0
         /\ \A failed \in BOOLEAN :
              /\ D!Refresh(failed) \in D!Request /\ ~D!Refresh(failed).live
              /\ D!Refresh(failed).failed = failed /\ D!Refresh(failed).age = 0
         /\ \A req \in D!Request :
              /\ req # None /\ D!TimeoutOf(req) \in Nat /\ D!TimeoutOf(req) > 0
              /\ req.live => D!TimeoutOf(req) = LiveTimeout
              /\ ~req.live => D!TimeoutOf(req) = BaseTimeout
              /\ req.age \in Nat /\ req.live \in BOOLEAN /\ req.failed \in BOOLEAN
<1>1. D!LiveRequest \in D!Request /\ D!LiveRequest.live /\ ~D!LiveRequest.failed /\ D!LiveRequest.age = 0
  BY DEF D!LiveRequest, D!Request
<1>2. \A failed \in BOOLEAN :
        /\ D!Refresh(failed) \in D!Request /\ ~D!Refresh(failed).live
        /\ D!Refresh(failed).failed = failed /\ D!Refresh(failed).age = 0
  BY DEF D!Refresh, D!Request
<1>3. ASSUME NEW req \in D!Request
      PROVE  /\ req # None /\ D!TimeoutOf(req) \in Nat /\ D!TimeoutOf(req) > 0
             /\ req.live => D!TimeoutOf(req) = LiveTimeout
             /\ ~req.live => D!TimeoutOf(req) = BaseTimeout
             /\ req.age \in Nat /\ req.live \in BOOLEAN /\ req.failed \in BOOLEAN
  <2>1. req # None
    BY Nones
  <2>2. req.age \in Nat /\ req.live \in BOOLEAN /\ req.failed \in BOOLEAN
    BY DEF D!Request
  <2>3. QED
    BY <2>1, <2>2, DetailLimits DEF D!TimeoutOf
<1>4. QED
  BY <1>1, <1>2, <1>3

LEMMA BeginsInTime ==
  ASSUME D!DetailConstants
  PROVE  \A failed \in BOOLEAN : D!Refresh(failed).age <= D!TimeoutOf(D!Refresh(failed))
<1> SUFFICES ASSUME NEW failed \in BOOLEAN PROVE D!Refresh(failed).age <= D!TimeoutOf(D!Refresh(failed))
  OBVIOUS
<1>1. D!Refresh(failed).age = 0
  BY DEF D!Refresh
<1>2. D!TimeoutOf(D!Refresh(failed)) = BaseTimeout
  BY DEF D!Refresh, D!TimeoutOf
<1>3. QED
  BY <1>1, <1>2, DetailLimits

(* A state that shows nothing yet is loading for no longer than the two    *)
(* timeouts.                                                               *)
LEMMA LoadingIsShort ==
  ASSUME D!DetailConstants, D!TypeOK, D!NothingShownYet
  PROVE  D!LoadingEnds
<1> SUFFICES ASSUME dMounted, D!Loading PROVE dOpened <= LiveTimeout + BaseTimeout
  BY DEF D!LoadingEnds
<1>1. dRequest \in D!Request /\ dRequest.age <= D!TimeoutOf(dRequest)
      /\ dOpened <= dRequest.age + (IF dRequest.live THEN 0 ELSE LiveTimeout) /\ dOpened \in Nat
  BY DetailLimits DEF D!NothingShownYet, D!TypeOK
<1>2. CASE dRequest.live
  BY <1>1, <1>2, Requests, DetailLimits
<1>3. CASE ~dRequest.live
  BY <1>1, <1>3, Requests, DetailLimits
<1>4. QED
  BY <1>2, <1>3

(* The initial states satisfy the invariant.                               *)
LEMMA DetailInitIInv == ASSUME D!DetailConstants, D!Init PROVE D!IInv
<1>1. DOMAIN dTimers = {} /\ dData = None /\ ~dError /\ dMounted /\ dStaleTimer = None /\ dStale = None
      /\ dRequest = D!LiveRequest /\ dOpened = 0 /\ dTimer = None
  BY DEF D!Init, D!NoTimers
<1>2. D!TypeOK
  <2>1. dLate \in 0 .. MaxLate /\ dOpened \in 0 .. D!OpenCap
    BY DetailLimits DEF D!Init
  <2>2. dRequest \in D!Request /\ dRequest.age <= D!TimeoutOf(dRequest) /\ ~(dRequest.live /\ dRequest.failed)
    BY <1>1, Requests
  <2>3. dVisible \in BOOLEAN /\ dMounted \in BOOLEAN /\ dError \in BOOLEAN /\ dUnreported \in BOOLEAN
    BY DEF D!Init
  <2>4. QED
    BY <1>1, <2>1, <2>2, <2>3 DEF D!TypeOK
<1>3. D!OneDetailClock
  BY <1>1 DEF D!OneDetailClock
<1>4. DetailPage
  BY <1>1 DEF DetailPage, D!DetailStaleIsTrue, D!ErrorIsMarked, D!StaleTimerCounts
<1>5. DetailReading
  BY <1>1, Requests DEF DetailReading, D!LiveFailureReported, D!NothingShownYet
<1>6. QED
  BY <1>2, <1>3, <1>4, <1>5 DEF D!IInv, D!DetailIsSound, DetailPage, DetailReading

-----------------------------------------------------------------------------
(* Timers.                                                                 *)

(* Taking a timer away keeps the times of the others.                      *)
LEMMA DetailWithoutTimer ==
  ASSUME NEW ts, NEW i
  PROVE  /\ DOMAIN D!Without(ts, i) = DOMAIN ts \ {i}
         /\ \A j \in DOMAIN D!Without(ts, i) : D!Without(ts, i)[j] = ts[j]
BY DEF D!Without

(* Clearing the handle clears every timer there is.                        *)
LEMMA DetailClearedIsEmpty ==
  ASSUME D!DetailConstants, D!OneDetailClock, D!TypeOK
  PROVE  DOMAIN D!Cleared = {}
<1>1. CASE dTimer = None
  <2>1. DOMAIN dTimers = {}
    BY <1>1, Nones DEF D!OneDetailClock, D!TypeOK
  <2>2. QED
    BY <1>1, <2>1 DEF D!Cleared
<1>2. CASE dTimer # None
  <2>1. DOMAIN D!Cleared = DOMAIN dTimers \ {dTimer}
    BY <1>2, DetailWithoutTimer DEF D!Cleared
  <2>2. QED
    BY <2>1 DEF D!OneDetailClock
<1>3. QED
  BY <1>1, <1>2

(* Scheduling the next refresh after an answer leaves one timer, the one   *)
(* the effect holds.                                                       *)
LEMMA DetailScheduleLeavesOne ==
  ASSUME D!DetailConstants, D!OneDetailClock, D!TypeOK, dRequest # None, D!Schedule
  PROVE  /\ dTimer' \in D!TimerId /\ DOMAIN dTimers' = {dTimer'}
         /\ \A i \in DOMAIN dTimers' : dTimers'[i] \in 0 .. DetailInterval
<1>1. DOMAIN dTimers = {} /\ DOMAIN D!Cleared = {}
  BY DetailClearedIsEmpty DEF D!OneDetailClock
<1>2. D!Unused \in D!TimerId
  <2>1. 1 \in D!TimerId \ DOMAIN dTimers
    BY <1>1 DEF D!TimerId
  <2>2. QED
    BY <2>1 DEF D!Unused
<1>3. dTimer' = D!Unused
  BY DEF D!Schedule
<1>4. dTimers' = [j \in {D!Unused} |-> IF j = D!Unused THEN DetailInterval ELSE dTimers[j]]
  <2>1. DOMAIN D!Cleared \cup {D!Unused} = {D!Unused}
    BY <1>1
  <2>2. QED
    BY <2>1 DEF D!Schedule
<1> HIDE DEF D!Unused
<1>5. QED
  BY <1>2, <1>3, <1>4, DetailLimits

-----------------------------------------------------------------------------
(* A request that begins where none is under way, with no timer left.      *)
LEMMA RefreshBegins ==
  ASSUME D!DetailConstants, D!IInv, dMounted, dRequest = None, dRequest' = D!Refresh(FALSE),
         DOMAIN dTimers' = {}, dTimer' = None,
         UNCHANGED <<dMounted, dLate, dStaleTimer, D!state, dOpened, dUnreported>>, dVisible' \in BOOLEAN
  PROVE  D!IInv'
<1>1. D!TypeOK /\ D!OneDetailClock /\ DetailPage /\ DetailReading
  BY DEF D!IInv, D!DetailIsSound, DetailPage, DetailReading
<1>2. /\ dRequest' \in D!Request /\ ~dRequest'.live /\ ~dRequest'.failed /\ dRequest'.age = 0
      /\ D!TimeoutOf(dRequest') \in Nat
  BY Requests
<1>3. D!TypeOK'
  <2>1. dRequest'.age <= D!TimeoutOf(dRequest')
    <3>1. D!Refresh(FALSE).age <= D!TimeoutOf(D!Refresh(FALSE))
      BY BeginsInTime
    <3>2. QED
      BY <3>1
  <2>2. QED
    BY <1>1, <1>2, <2>1 DEF D!TypeOK, D!state
<1>4. D!OneDetailClock'
  BY <1>1 DEF D!OneDetailClock
<1>5. DetailPage'
  BY <1>1 DEF DetailPage, D!DetailStaleIsTrue, D!ErrorIsMarked, D!StaleTimerCounts, D!state
<1>6. DetailReading'
  BY <1>1, <1>2 DEF DetailReading, D!LiveFailureReported, D!NothingShownYet, D!Loading, D!state
<1>7. QED
  BY <1>3, <1>4, <1>5, <1>6 DEF D!IInv, D!DetailIsSound, DetailPage, DetailReading

(* Another device, or none: the page starts from nothing.                  *)
LEMMA DisposeStep == ASSUME D!DetailConstants, D!IInv, D!OpenAnother \/ D!Leave PROVE D!IInv'
<1>1. D!TypeOK /\ D!OneDetailClock /\ DetailPage /\ DetailReading
  BY DEF D!IInv, D!DetailIsSound, DetailPage, DetailReading
<1>2. /\ DOMAIN dTimers' = {} /\ dTimer' = None /\ dStaleTimer' = None /\ dVisible' = dVisible
      /\ dLate' \in 0 .. MaxLate
  <2>1. D!Dispose
    BY DEF D!OpenAnother, D!Leave
  <2>2. DOMAIN dTimers' = {}
    BY <1>1, <2>1, DetailClearedIsEmpty DEF D!Dispose
  <2>3. dLate' \in 0 .. MaxLate
    BY <1>1, <2>1, DetailLimits DEF D!Dispose, D!TypeOK
  <2>4. QED
    BY <2>1, <2>2, <2>3 DEF D!Dispose
<1>3. CASE D!OpenAnother
  <2>1. /\ dMounted' = dMounted /\ dRequest' = D!LiveRequest /\ dData' = None /\ dError' = FALSE /\ dStale' = None
        /\ dOpened' = 0 /\ dUnreported' = FALSE
    BY <1>3 DEF D!OpenAnother, D!Opened
  <2>2. dRequest' \in D!Request /\ dRequest'.live /\ ~dRequest'.failed /\ dRequest'.age = 0
        /\ D!TimeoutOf(dRequest') \in Nat
    BY <2>1, Requests
  <2>3. dOpened' \in 0 .. D!OpenCap /\ dRequest'.age <= D!TimeoutOf(dRequest')
    BY <2>1, <2>2, DetailLimits
  <2>4. D!TypeOK'
    BY <1>1, <1>2, <2>1, <2>2, <2>3 DEF D!TypeOK
  <2>5. D!OneDetailClock' /\ DetailPage'
    BY <1>2, <1>3, <2>1 DEF D!OneDetailClock, DetailPage, D!DetailStaleIsTrue, D!ErrorIsMarked,
                            D!StaleTimerCounts, D!OpenAnother, D!Dispose
  <2>6. DetailReading'
    <3>1. dRequest' # None
      BY <2>2, Nones
    <3>2. dOpened' <= dRequest'.age + (IF dRequest'.live THEN 0 ELSE LiveTimeout)
      BY <2>1, <2>2
    <3>3. QED
      BY <2>1, <2>2, <3>1, <3>2 DEF DetailReading, D!LiveFailureReported, D!NothingShownYet
  <2>7. QED
    BY <2>4, <2>5, <2>6 DEF D!IInv, D!DetailIsSound, DetailPage, DetailReading
<1>4. CASE D!Leave
  <2>1. dMounted' = FALSE /\ dRequest' = None /\ UNCHANGED <<dData, dError, dStale, dOpened, dUnreported>>
    BY <1>4 DEF D!Leave, D!state
  <2>2. D!TypeOK'
    BY <1>1, <1>2, <2>1 DEF D!TypeOK
  <2>3. D!OneDetailClock' /\ DetailPage' /\ DetailReading'
    BY <1>1, <1>2, <2>1 DEF D!OneDetailClock, DetailPage, D!DetailStaleIsTrue, D!ErrorIsMarked, D!StaleTimerCounts,
                            DetailReading, D!LiveFailureReported, D!NothingShownYet
  <2>4. QED
    BY <2>2, <2>3 DEF D!IInv, D!DetailIsSound, DetailPage, DetailReading
<1>5. QED
  BY <1>3, <1>4

(* What settles late is not shown, and hiding the page changes nothing of  *)
(* it.                                                                     *)
LEMMA QuietStep == ASSUME D!DetailConstants, D!IInv, D!SettleLate \/ D!Hide \/ UNCHANGED D!vars PROVE D!IInv'
<1>1. D!TypeOK /\ D!OneDetailClock /\ DetailPage /\ DetailReading
  BY DEF D!IInv, D!DetailIsSound, DetailPage, DetailReading
<1>2. /\ UNCHANGED <<dMounted, dRequest, dTimers, dTimer, dStaleTimer, dData, dError, dStale, dOpened, dUnreported>>
      /\ dVisible' \in BOOLEAN
  BY <1>1 DEF D!SettleLate, D!Hide, D!vars, D!effect, D!state, D!IgnoreLate, D!TypeOK
<1>3. dLate' \in 0 .. MaxLate
  BY <1>1, DetailLimits DEF D!SettleLate, D!Hide, D!vars, D!TypeOK
<1>4. D!TypeOK'
  BY <1>1, <1>2, <1>3 DEF D!TypeOK
<1>5. D!OneDetailClock' /\ DetailPage' /\ DetailReading'
  BY <1>1, <1>2 DEF D!OneDetailClock, DetailPage, D!DetailStaleIsTrue, D!ErrorIsMarked, D!StaleTimerCounts,
                    DetailReading, D!LiveFailureReported, D!NothingShownYet, D!Loading
<1>6. QED
  BY <1>4, <1>5 DEF D!IInv, D!DetailIsSound, DetailPage, DetailReading

(* The timer that fires was the only one.                                  *)
LEMMA DetailFireStep == ASSUME D!DetailConstants, D!IInv, NEW i \in D!TimerId, D!Fire(i) PROVE D!IInv'
<1>1. D!TypeOK /\ D!OneDetailClock /\ DetailPage /\ DetailReading
  BY DEF D!IInv, D!DetailIsSound, DetailPage, DetailReading
<1>2. DOMAIN dTimers' = {} /\ dTimer' = None
  <2>1. DOMAIN dTimers = {i} /\ dTimers' = D!Without(dTimers, i)
    BY <1>1 DEF D!Fire, D!OneDetailClock
  <2>2. DOMAIN dTimers' = DOMAIN dTimers \ {i}
    BY <2>1, DetailWithoutTimer
  <2>3. QED
    BY <2>1, <2>2 DEF D!Fire
<1>3. UNCHANGED <<dVisible, dMounted, dLate, dStaleTimer, D!state, dOpened, dUnreported>>
  BY DEF D!Fire
<1>4. CASE dMounted /\ dRequest = None /\ dVisible
  <2>1. dRequest' = D!Refresh(FALSE)
    BY <1>4 DEF D!Fire, D!Refreshes
  <2>2. dVisible' \in BOOLEAN
    BY <1>1, <1>3 DEF D!TypeOK
  <2>3. QED
    BY <1>2, <1>3, <1>4, <2>1, <2>2, RefreshBegins
<1>5. CASE ~(dMounted /\ dRequest = None /\ dVisible)
  <2>1. dRequest' = dRequest
    BY <1>5 DEF D!Fire, D!Refreshes
  <2>2. D!TypeOK'
    BY <1>1, <1>2, <1>3, <2>1 DEF D!TypeOK, D!state
  <2>3. D!OneDetailClock' /\ DetailPage' /\ DetailReading'
    BY <1>1, <1>2, <1>3, <2>1 DEF D!OneDetailClock, DetailPage, D!DetailStaleIsTrue, D!ErrorIsMarked,
                    D!StaleTimerCounts, DetailReading, D!LiveFailureReported, D!NothingShownYet, D!Loading, D!state
  <2>4. QED
    BY <2>2, <2>3 DEF D!IInv, D!DetailIsSound, DetailPage, DetailReading
<1>6. QED
  BY <1>4, <1>5

(* So does the page that is shown again.                                   *)
LEMMA ShowStep == ASSUME D!DetailConstants, D!IInv, D!Show PROVE D!IInv'
<1>1. D!TypeOK /\ D!OneDetailClock /\ DetailPage /\ DetailReading
  BY DEF D!IInv, D!DetailIsSound, DetailPage, DetailReading
<1>2. dVisible' = TRUE /\ UNCHANGED <<dMounted, dLate, dStaleTimer, D!state, dOpened, dUnreported>>
  BY DEF D!Show
<1>3. CASE dMounted /\ dRequest = None
  <2>1. dTimers' = D!Cleared /\ dTimer' = None /\ dRequest' = D!Refresh(FALSE)
    BY <1>3 DEF D!Show, D!Resumes
  <2>2. DOMAIN dTimers' = {}
    BY <1>1, <2>1, DetailClearedIsEmpty
  <2>3. QED
    BY <1>2, <1>3, <2>1, <2>2, RefreshBegins
<1>4. CASE ~(dMounted /\ dRequest = None)
  <2>1. UNCHANGED <<dTimers, dTimer, dRequest>>
    BY <1>4 DEF D!Show, D!Resumes
  <2>2. D!TypeOK'
    BY <1>1, <1>2, <2>1 DEF D!TypeOK, D!state
  <2>3. D!OneDetailClock' /\ DetailPage' /\ DetailReading'
    BY <1>1, <1>2, <2>1 DEF D!OneDetailClock, DetailPage, D!DetailStaleIsTrue, D!ErrorIsMarked,
                    D!StaleTimerCounts, DetailReading, D!LiveFailureReported, D!NothingShownYet, D!Loading, D!state
  <2>4. QED
    BY <2>2, <2>3 DEF D!IInv, D!DetailIsSound, DetailPage, DetailReading
<1>5. QED
  BY <1>3, <1>4

(* The stale timer fires when the observation is stale.                    *)
LEMMA DetailFireStaleStep == ASSUME D!DetailConstants, D!IInv, D!FireStale PROVE D!IInv'
<1>1. D!TypeOK /\ D!OneDetailClock /\ DetailPage /\ DetailReading
  BY DEF D!IInv, D!DetailIsSound, DetailPage, DetailReading
<1>2. /\ dStaleTimer = 0 /\ dStaleTimer' = None
      /\ dStale' = IF dData = None THEN None ELSE "age"
      /\ UNCHANGED <<dVisible, dMounted, dLate, dRequest, dTimers, dTimer, dData, dError, dOpened, dUnreported>>
  BY DEF D!FireStale, D!Mark
<1>3. None # "age" /\ dStaleTimer # None /\ "age" # "refresh"
  BY <1>2, Nones DEF D!Reason
<1>4. D!TypeOK'
  BY <1>1, <1>2 DEF D!TypeOK, D!Reason
<1>5. D!OneDetailClock' /\ DetailReading'
  BY <1>1, <1>2 DEF D!OneDetailClock, DetailReading, D!LiveFailureReported, D!NothingShownYet, D!Loading
<1>6. DetailPage'
  BY <1>1, <1>2, <1>3 DEF DetailPage, D!DetailStaleIsTrue, D!ErrorIsMarked, D!StaleTimerCounts
<1>7. QED
  BY <1>4, <1>5, <1>6 DEF D!IInv, D!DetailIsSound, DetailPage, DetailReading

-----------------------------------------------------------------------------
(* An answer is shown with a stale timer for what is left of its time.     *)
LEMMA ShownStep ==
  ASSUME D!DetailConstants, D!IInv, dRequest # None, NEW age \in Nat, NEW comparison \in D!Comparison,
         D!Shown(age, comparison), UNCHANGED <<dVisible, dMounted, dLate, dOpened, dUnreported>>,
         comparison = "not_requested" => dUnreported
  PROVE  D!IInv'
<1>1. D!TypeOK /\ D!OneDetailClock /\ DetailPage /\ DetailReading
  BY DEF D!IInv, D!DetailIsSound, DetailPage, DetailReading
<1>2. /\ dData' = [own |-> TRUE, age |-> IF age < D!AgeCap THEN age ELSE D!AgeCap, comparison |-> comparison]
      /\ dError' = FALSE /\ dStale' = None /\ dRequest' = None
      /\ dStaleTimer' = IF age < DetailStaleAfter THEN DetailStaleAfter - age ELSE 0
      /\ D!Schedule
  BY DEF D!Shown, D!ScheduleStale
<1>3. /\ dTimer' \in D!TimerId /\ DOMAIN dTimers' = {dTimer'}
      /\ \A i \in DOMAIN dTimers' : dTimers'[i] \in 0 .. DetailInterval
  BY <1>1, <1>2, DetailScheduleLeavesOne
<1>4. /\ dData' \in D!Answer /\ dData'.own /\ dData'.comparison = comparison
      /\ dData'.age = IF age < D!AgeCap THEN age ELSE D!AgeCap
  BY <1>2, DetailLimits DEF D!Answer
<1>5. /\ dData' # None /\ dStaleTimer' \in 0 .. DetailStaleAfter /\ dStaleTimer' # None
      /\ IF dStaleTimer' = 0 THEN dData'.age >= DetailStaleAfter ELSE dStaleTimer' + dData'.age = DetailStaleAfter
      /\ dData'.age <= DetailStaleAfter \/ dStaleTimer' = 0
  <2>1. dData' # None
    BY <1>4, Nones
  <2>2. dStaleTimer' \in 0 .. DetailStaleAfter
    BY <1>2, DetailLimits
  <2>3. dStaleTimer' # None
    BY <2>2, Nones
  <2>4. IF dStaleTimer' = 0 THEN dData'.age >= DetailStaleAfter ELSE dStaleTimer' + dData'.age = DetailStaleAfter
    BY <1>2, <1>4, DetailLimits
  <2>5. dData'.age <= DetailStaleAfter \/ dStaleTimer' = 0
    BY <1>2, <1>4, DetailLimits
  <2>6. QED
    BY <2>1, <2>2, <2>3, <2>4, <2>5
<1>6. D!TypeOK'
  <2>1. DOMAIN dTimers' \subseteq D!TimerId
    BY <1>3
  <2>2. QED
    BY <1>1, <1>2, <1>3, <1>4, <1>5, <2>1 DEF D!TypeOK
<1>7. D!OneDetailClock'
  BY <1>1, <1>2, <1>3 DEF D!OneDetailClock
<1>8. DetailPage'
  <2>1. None # "age" /\ None # "refresh"
    BY Nones DEF D!Reason
  <2>2. QED
    BY <1>2, <1>4, <1>5, <2>1 DEF DetailPage, D!DetailStaleIsTrue, D!ErrorIsMarked, D!StaleTimerCounts
<1>9. DetailReading'
  BY <1>2, <1>4, <1>5 DEF DetailReading, D!LiveFailureReported, D!NothingShownYet, D!Loading
<1>10. QED
  BY <1>6, <1>7, <1>8, <1>9 DEF D!IInv, D!DetailIsSound, DetailPage, DetailReading

(* What a refresh shows of the comparison is what was shown, or the        *)
(* failure it is to report, or the failure has gone unreported.            *)
LEMMA DetailSucceedStep ==
  ASSUME D!DetailConstants, D!IInv, NEW age \in Nat, D!LiveSucceeds(age) \/ D!RefreshSucceeds(age)
  PROVE  /\ D!IInv'
         /\ dData # None => dData'.comparison = dData.comparison
<1>1. D!TypeOK /\ D!OneDetailClock /\ DetailPage /\ DetailReading
  BY DEF D!IInv, D!DetailIsSound, DetailPage, DetailReading
<1>2. dRequest # None /\ UNCHANGED <<dVisible, dMounted, dLate, dOpened, dUnreported>>
  BY DEF D!LiveSucceeds, D!RefreshSucceeds
<1>3. dMounted
  BY <1>1, <1>2 DEF D!OneDetailClock
<1>4. CASE D!LiveSucceeds(age)
  <2>1. D!Shown(age, "live") /\ dData = None
    BY <1>1, <1>4 DEF D!LiveSucceeds, DetailReading, D!NothingShownYet
  <2>2. QED
    BY <1>2, <2>1, ShownStep DEF D!Comparison
<1>5. CASE D!RefreshSucceeds(age)
  <2> DEFINE comparison == D!Kept(dRequest.failed)
  <2>1. D!Shown(age, comparison) /\ ~dRequest.live
    BY <1>5 DEF D!RefreshSucceeds
  <2>2. dData # None => dData \in D!Answer /\ dData.comparison \in D!Comparison
    BY <1>1 DEF D!TypeOK, D!Answer
  <2>3. comparison \in D!Comparison /\ (comparison = "not_requested" => dUnreported)
    <3>1. CASE dRequest.failed
      BY <3>1 DEF D!Kept, D!Comparison
    <3>2. CASE ~dRequest.failed /\ dData = None
      BY <1>1, <1>2, <1>3, <2>1, <3>2 DEF D!Kept, D!Comparison, DetailReading, D!NothingShownYet
    <3>3. CASE ~dRequest.failed /\ dData # None
      BY <1>1, <1>3, <2>2, <3>3 DEF D!Kept, DetailReading, D!LiveFailureReported
    <3>4. QED
      BY <3>1, <3>2, <3>3
  <2>4. dData # None => comparison = dData.comparison
    BY <1>1, <1>2 DEF D!Kept, DetailReading, D!NothingShownYet
  <2>5. dData'.comparison = comparison
    BY <2>1 DEF D!Shown
  <2> HIDE DEF comparison
  <2>6. D!IInv'
    BY <1>2, <2>1, <2>3, ShownStep
  <2>7. QED
    BY <2>4, <2>5, <2>6
<1>6. QED
  BY <1>4, <1>5

(* The fallback follows the live read at once.                             *)
LEMMA LiveFailsStep == ASSUME D!DetailConstants, D!IInv, D!LiveFails PROVE D!IInv'
<1>1. D!TypeOK /\ D!OneDetailClock /\ DetailPage /\ DetailReading
  BY DEF D!IInv, D!DetailIsSound, DetailPage, DetailReading
<1>2. /\ dRequest # None /\ dRequest.live /\ dRequest' = D!Refresh(TRUE)
      /\ UNCHANGED <<dTimers, dTimer, dVisible, dMounted, dLate, dStaleTimer, D!state, dOpened, dUnreported>>
  BY DEF D!LiveFails, D!Refreshes
<1>3. /\ dRequest' \in D!Request /\ ~dRequest'.live /\ dRequest'.failed /\ dRequest'.age = 0
      /\ dRequest' # None
  BY <1>2, Requests
<1>4. dData = None /\ dMounted /\ dRequest \in D!Request /\ dRequest.age <= LiveTimeout
  BY <1>1, <1>2, Requests DEF DetailReading, D!NothingShownYet, D!OneDetailClock, D!TypeOK
<1>5. D!TypeOK'
  <2>1. dRequest'.age <= D!TimeoutOf(dRequest')
    <3>1. D!Refresh(TRUE).age <= D!TimeoutOf(D!Refresh(TRUE))
      BY BeginsInTime
    <3>2. QED
      BY <1>2, <3>1
  <2>2. QED
    BY <1>1, <1>2, <1>3, <2>1 DEF D!TypeOK, D!state
<1>6. D!OneDetailClock'
  BY <1>1, <1>2, <1>4 DEF D!OneDetailClock
<1>7. DetailPage'
  BY <1>1, <1>2, <1>4 DEF DetailPage, D!DetailStaleIsTrue, D!ErrorIsMarked, D!StaleTimerCounts, D!state
<1>8. DetailReading'
  <2>1. D!Loading => dOpened <= LiveTimeout /\ dOpened \in Nat
    <3>1. D!Loading => dOpened <= dRequest.age + 0
      BY <1>1, <1>2, <1>4 DEF DetailReading, D!NothingShownYet
    <3>2. dOpened \in Nat /\ dRequest.age \in Nat
      BY <1>1, <1>4, DetailLimits, Requests DEF D!TypeOK
    <3>3. QED
      BY <1>4, <3>1, <3>2, DetailLimits
  <2>2. D!Loading' => dOpened' <= dRequest'.age + (IF dRequest'.live THEN 0 ELSE LiveTimeout)
    <3>1. D!Loading' => D!Loading
      BY <1>2 DEF D!Loading, D!state
    <3>2. dOpened' = dOpened /\ LiveTimeout \in Nat
      BY <1>2, DetailLimits
    <3>3. QED
      BY <1>3, <2>1, <3>1, <3>2
  <2>3. dData' = None
    BY <1>2, <1>4 DEF D!state
  <2>4. QED
    BY <1>3, <2>2, <2>3 DEF DetailReading, D!LiveFailureReported, D!NothingShownYet
<1>9. QED
  BY <1>5, <1>6, <1>7, <1>8 DEF D!IInv, D!DetailIsSound, DetailPage, DetailReading

(* A failed refresh marks what is shown, and another follows.              *)
LEMMA RefreshFailsStep == ASSUME D!DetailConstants, D!IInv, D!RefreshFails PROVE D!IInv'
<1>1. D!TypeOK /\ D!OneDetailClock /\ DetailPage /\ DetailReading
  BY DEF D!IInv, D!DetailIsSound, DetailPage, DetailReading
<1>2. /\ dRequest # None /\ ~dRequest.live /\ dRequest' = None /\ dError' = TRUE
      /\ dStale' = IF dData = None THEN None ELSE "refresh"
      /\ dUnreported' = (dUnreported \/ dRequest.failed) /\ D!Schedule
      /\ UNCHANGED <<dVisible, dMounted, dLate, dStaleTimer, dData, dOpened>>
  BY DEF D!RefreshFails, D!Mark
<1>3. /\ dTimer' \in D!TimerId /\ DOMAIN dTimers' = {dTimer'}
      /\ \A i \in DOMAIN dTimers' : dTimers'[i] \in 0 .. DetailInterval
  BY <1>1, <1>2, DetailScheduleLeavesOne
<1>4. dMounted /\ dRequest \in D!Request /\ dRequest.failed \in BOOLEAN /\ None # "refresh"
  BY <1>1, <1>2, Requests, Nones DEF D!OneDetailClock, D!TypeOK, D!Reason
<1>5. D!TypeOK'
  <2>1. dUnreported' \in BOOLEAN
    BY <1>1, <1>2, <1>4 DEF D!TypeOK
  <2>2. dStale' \in D!Reason \cup {None} /\ (dStale' # None => dData' # None)
    BY <1>2 DEF D!Reason
  <2>3. DOMAIN dTimers' \subseteq D!TimerId /\ dTimer' \in D!TimerId \cup {None}
    BY <1>3
  <2>4. QED
    BY <1>1, <1>2, <1>3, <2>1, <2>2, <2>3 DEF D!TypeOK
<1>6. D!OneDetailClock'
  BY <1>2, <1>3, <1>4 DEF D!OneDetailClock
<1>7. DetailPage'
  BY <1>1, <1>2, <1>4 DEF DetailPage, D!DetailStaleIsTrue, D!ErrorIsMarked, D!StaleTimerCounts
<1>8. DetailReading'
  BY <1>1, <1>2, <1>4 DEF DetailReading, D!LiveFailureReported, D!NothingShownYet, D!Loading
<1>9. QED
  BY <1>5, <1>6, <1>7, <1>8 DEF D!IInv, D!DetailIsSound, DetailPage, DetailReading

(* Time passes for the request, the timers and what is shown alike.        *)
LEMMA DetailTickStep == ASSUME D!DetailConstants, D!IInv, D!Tick PROVE D!IInv'
<1>1. D!TypeOK /\ D!OneDetailClock /\ DetailPage /\ DetailReading
  BY DEF D!IInv, D!DetailIsSound, DetailPage, DetailReading
<1>2. /\ dRequest # None => dRequest.age < D!TimeoutOf(dRequest)
      /\ dRequest' = IF dRequest = None THEN None ELSE [dRequest EXCEPT !.age = @ + 1]
      /\ dTimers' = [i \in DOMAIN dTimers |-> D!Less(dTimers[i])]
      /\ dStaleTimer' = IF dStaleTimer = None THEN None ELSE D!Less(dStaleTimer)
      /\ dData' = IF dData = None THEN None ELSE [dData EXCEPT !.age = D!Older(@, D!AgeCap)]
      /\ dOpened' = D!Older(dOpened, D!OpenCap)
      /\ UNCHANGED <<dVisible, dMounted, dLate, dTimer, dError, dStale, dUnreported>>
  BY DEF D!Tick
<1>3. dRequest # None =>
        /\ dRequest \in D!Request /\ dRequest.age \in Nat /\ dRequest.age < D!TimeoutOf(dRequest)
        /\ dRequest' \in D!Request /\ dRequest' # None
        /\ dRequest'.live = dRequest.live /\ dRequest'.failed = dRequest.failed
        /\ dRequest'.age = dRequest.age + 1 /\ D!TimeoutOf(dRequest') = D!TimeoutOf(dRequest)
  <2>1. SUFFICES ASSUME dRequest # None
                 PROVE  /\ dRequest \in D!Request /\ dRequest.age \in Nat /\ dRequest.age < D!TimeoutOf(dRequest)
                        /\ dRequest' \in D!Request /\ dRequest' # None
                        /\ dRequest'.live = dRequest.live /\ dRequest'.failed = dRequest.failed
                        /\ dRequest'.age = dRequest.age + 1 /\ D!TimeoutOf(dRequest') = D!TimeoutOf(dRequest)
    OBVIOUS
  <2>2. dRequest \in D!Request /\ dRequest.age < D!TimeoutOf(dRequest) /\ dRequest.age \in Nat
    BY <1>1, <1>2, <2>1 DEF D!TypeOK, D!Request
  <2>3. dRequest' = [dRequest EXCEPT !.age = @ + 1]
    BY <1>2, <2>1
  <2>4. /\ dRequest' \in D!Request /\ dRequest'.live = dRequest.live
        /\ dRequest'.failed = dRequest.failed /\ dRequest'.age = dRequest.age + 1
    BY <2>2, <2>3 DEF D!Request
  <2>5. dRequest' # None
    BY <2>4, Nones
  <2>6. D!TimeoutOf(dRequest') = D!TimeoutOf(dRequest)
    BY <2>4 DEF D!TimeoutOf
  <2>7. QED
    BY <2>2, <2>4, <2>5, <2>6
<1>4. dData # None =>
        /\ dData \in D!Answer /\ dData.age \in 0 .. D!AgeCap
        /\ dData' \in D!Answer /\ dData' # None
        /\ dData'.own = dData.own /\ dData'.comparison = dData.comparison
        /\ dData'.age = IF dData.age < D!AgeCap THEN dData.age + 1 ELSE D!AgeCap
  <2>1. SUFFICES ASSUME dData # None
                 PROVE  /\ dData \in D!Answer /\ dData.age \in 0 .. D!AgeCap
                        /\ dData' \in D!Answer /\ dData' # None
                        /\ dData'.own = dData.own /\ dData'.comparison = dData.comparison
                        /\ dData'.age = IF dData.age < D!AgeCap THEN dData.age + 1 ELSE D!AgeCap
    OBVIOUS
  <2>2. dData \in D!Answer /\ dData.age \in 0 .. D!AgeCap
    BY <1>1, <2>1 DEF D!TypeOK, D!Answer
  <2>3. dData' = [dData EXCEPT !.age = D!Older(dData.age, D!AgeCap)]
    BY <1>2, <2>1
  <2>4. D!Older(dData.age, D!AgeCap) \in 0 .. D!AgeCap
    BY <2>2, DetailLimits DEF D!Older
  <2>5. /\ dData' \in D!Answer /\ dData'.own = dData.own /\ dData'.comparison = dData.comparison
        /\ dData'.age = D!Older(dData.age, D!AgeCap)
    BY <2>2, <2>3, <2>4 DEF D!Answer
  <2>6. dData' # None
    BY <2>5, Nones
  <2>7. QED
    BY <2>2, <2>5, <2>6 DEF D!Older
<1>5. /\ dOpened \in Nat /\ dOpened' \in 0 .. D!OpenCap /\ dOpened' <= dOpened + 1
      /\ dStaleTimer # None => /\ dStaleTimer \in 0 .. DetailStaleAfter /\ dStaleTimer' \in 0 .. DetailStaleAfter
                               /\ dStaleTimer' # None
                               /\ dStaleTimer' = IF dStaleTimer > 0 THEN dStaleTimer - 1 ELSE 0
      /\ dStaleTimer = None => dStaleTimer' = None
  <2>1. dOpened \in Nat /\ dOpened' \in 0 .. D!OpenCap /\ dOpened' <= dOpened + 1
    BY <1>1, <1>2, DetailLimits DEF D!TypeOK, D!Older
  <2>2. dStaleTimer # None => dStaleTimer \in 0 .. DetailStaleAfter
    BY <1>1 DEF D!TypeOK
  <2>3. dStaleTimer # None => /\ dStaleTimer' \in 0 .. DetailStaleAfter
                              /\ dStaleTimer' = IF dStaleTimer > 0 THEN dStaleTimer - 1 ELSE 0
    BY <1>2, <2>2, DetailLimits DEF D!Less
  <2>4. dStaleTimer # None => dStaleTimer' # None
    BY <2>3, Nones
  <2>5. QED
    BY <1>2, <2>1, <2>2, <2>3, <2>4
<1>6. /\ DOMAIN dTimers' = DOMAIN dTimers
      /\ \A i \in DOMAIN dTimers' : dTimers'[i] \in 0 .. DetailInterval
  <2>1. \A i \in DOMAIN dTimers : D!Less(dTimers[i]) \in 0 .. DetailInterval
    BY <1>1, DetailLimits DEF D!TypeOK, D!Less
  <2>2. QED
    BY <1>2, <2>1
<1>7. D!TypeOK'
  <2>1. \/ dRequest' = None
        \/ /\ dRequest' \in D!Request /\ dRequest'.age <= D!TimeoutOf(dRequest')
           /\ ~(dRequest'.live /\ dRequest'.failed)
    <3>1. CASE dRequest = None
      BY <1>2, <3>1
    <3>2. CASE dRequest # None
      <4>1. ~(dRequest.live /\ dRequest.failed)
        BY <1>1, <3>2 DEF D!TypeOK
      <4>2. D!TimeoutOf(dRequest) \in Nat
        BY <1>3, <3>2, Requests
      <4>3. dRequest'.age <= D!TimeoutOf(dRequest')
        BY <1>3, <3>2, <4>2
      <4>4. QED
        BY <1>3, <3>2, <4>1, <4>3
    <3>3. QED
      BY <3>1, <3>2
  <2>2. dData' \in D!Answer \cup {None} /\ (dStale' # None => dData' # None)
    BY <1>1, <1>2, <1>4 DEF D!TypeOK
  <2>3. QED
    BY <1>1, <1>2, <1>5, <1>6, <2>1, <2>2 DEF D!TypeOK
<1>8. D!OneDetailClock'
  BY <1>1, <1>2, <1>6 DEF D!OneDetailClock
<1>9. DetailPage'
  <2>1. dData = None => dData' = None
    BY <1>2
  <2>2. SUFFICES ASSUME dMounted, dData # None
                 PROVE  D!DetailStaleIsTrue' /\ D!StaleTimerCounts' /\ D!ErrorIsMarked'
    <3>1. (~dMounted \/ dData = None) => D!DetailStaleIsTrue' /\ D!StaleTimerCounts'
      BY <1>2, <2>1 DEF D!DetailStaleIsTrue, D!StaleTimerCounts
    <3>2. D!ErrorIsMarked'
      BY <1>1, <1>2, <2>1 DEF DetailPage, D!ErrorIsMarked
    <3>3. QED
      BY <2>2, <3>1, <3>2 DEF DetailPage
  <2>3. D!StaleTimerCounts'
    <3>1. CASE dStaleTimer = None
      BY <1>1, <1>2, <1>4, <1>5, <2>2, <3>1, DetailLimits DEF DetailPage, D!StaleTimerCounts
    <3>2. CASE dStaleTimer # None
      BY <1>1, <1>2, <1>4, <1>5, <2>2, <3>2, DetailLimits DEF DetailPage, D!StaleTimerCounts
    <3>3. QED
      BY <3>1, <3>2
  <2>4. D!ErrorIsMarked'
    BY <1>1, <1>2, <2>2 DEF DetailPage, D!ErrorIsMarked
  <2>5. D!DetailStaleIsTrue'
    <3>1. dData.own /\ (dStale = "refresh" => dError) /\ (dStale = "age" => dData.age >= DetailStaleAfter)
          /\ (dStale = None => ~dError)
      BY <1>1, <2>2 DEF DetailPage, D!DetailStaleIsTrue
    <3>2. dStale = "age" => dData'.age >= DetailStaleAfter
      BY <1>4, <2>2, <3>1, DetailLimits
    <3>3. dStale = None => dData'.age <= DetailStaleAfter \/ dStaleTimer' = 0
      <4>1. dStale = None => dStaleTimer # None
        BY <1>1, <2>2 DEF DetailPage, D!StaleTimerCounts
      <4>2. CASE dStaleTimer = 0
        <5>1. dStaleTimer' = 0
          BY <1>5, <4>2, Nones
        <5>2. QED
          BY <5>1
      <4>3. CASE dStaleTimer # None /\ dStaleTimer # 0
        BY <1>1, <1>4, <1>5, <2>2, <4>3, DetailLimits DEF DetailPage, D!StaleTimerCounts
      <4>4. QED
        BY <4>1, <4>2, <4>3
    <3>4. QED
      BY <1>2, <1>4, <2>2, <3>1, <3>2, <3>3 DEF D!DetailStaleIsTrue
  <2>6. QED
    BY <2>3, <2>4, <2>5
<1>10. DetailReading'
  <2>1. D!LiveFailureReported'
    BY <1>1, <1>2, <1>4 DEF DetailReading, D!LiveFailureReported
  <2>2. dMounted /\ D!Loading => /\ dRequest # None
                                 /\ dOpened' <= dRequest'.age + (IF dRequest'.live THEN 0 ELSE LiveTimeout)
    <3>1. SUFFICES ASSUME dMounted, D!Loading
                   PROVE  dRequest # None
                          /\ dOpened' <= dRequest'.age + (IF dRequest'.live THEN 0 ELSE LiveTimeout)
      OBVIOUS
    <3>2. dRequest # None /\ dOpened <= dRequest.age + (IF dRequest.live THEN 0 ELSE LiveTimeout)
      BY <1>1, <3>1 DEF DetailReading, D!NothingShownYet
    <3>3. (IF dRequest.live THEN 0 ELSE LiveTimeout) \in Nat
      BY DetailLimits
    <3>4. QED
      BY <1>3, <1>5, <3>2, <3>3
  <2>3. D!NothingShownYet'
    <3>1. (dData' = None <=> dData = None) /\ (dRequest' = None <=> dRequest = None)
          /\ (D!Loading' <=> D!Loading)
      BY <1>2, <1>3, <1>4 DEF D!Loading
    <3>2. QED
      BY <1>1, <1>2, <1>3, <2>2, <3>1 DEF DetailReading, D!NothingShownYet
  <2>4. QED
    BY <2>1, <2>3 DEF DetailReading
<1>11. QED
  BY <1>7, <1>8, <1>9, <1>10 DEF D!IInv, D!DetailIsSound, DetailPage, DetailReading

(* Every step keeps the invariant.                                         *)
LEMMA NextIInv == ASSUME D!DetailConstants, D!IInv, [D!Next]_D!vars PROVE D!IInv'
<1>1. CASE D!OpenAnother \/ D!Leave
  BY <1>1, DisposeStep
<1>2. CASE D!SettleLate \/ D!Hide \/ UNCHANGED D!vars
  BY <1>2, QuietStep
<1>3. CASE \E i \in D!TimerId : D!Fire(i)
  BY <1>3, DetailFireStep
<1>4. CASE D!FireStale
  BY <1>4, DetailFireStaleStep
<1>5. CASE D!Show
  BY <1>5, ShowStep
<1>6. CASE \E age \in 0 .. LiveTimeout : D!LiveSucceeds(age)
  <2>1. PICK age \in 0 .. LiveTimeout : D!LiveSucceeds(age)
    BY <1>6
  <2>2. age \in Nat
    BY DetailLimits
  <2>3. QED
    BY <2>1, <2>2, DetailSucceedStep
<1>7. CASE \E age \in 0 .. BaseTimeout : D!RefreshSucceeds(age)
  <2>1. PICK age \in 0 .. BaseTimeout : D!RefreshSucceeds(age)
    BY <1>7
  <2>2. age \in Nat
    BY DetailLimits
  <2>3. QED
    BY <2>1, <2>2, DetailSucceedStep
<1>8. CASE D!LiveFails
  BY <1>8, LiveFailsStep
<1>9. CASE D!RefreshFails
  BY <1>9, RefreshFailsStep
<1>10. CASE D!Tick
  BY <1>10, DetailTickStep
<1>11. QED
  BY <1>1, <1>2, <1>3, <1>4, <1>5, <1>6, <1>7, <1>8, <1>9, <1>10 DEF D!Next

(* No step replaces the comparison of an answer that stays on the page.    *)
LEMMA ComparisonStays ==
  ASSUME D!DetailConstants, D!IInv, [D!Next]_D!vars, dData # None, dData' # None
  PROVE  dData'.comparison = dData.comparison
<1>1. CASE UNCHANGED dData
  BY <1>1
<1>2. CASE D!OpenAnother
  BY <1>2 DEF D!OpenAnother, D!Opened
<1>3. CASE \E age \in 0 .. LiveTimeout : D!LiveSucceeds(age)
  <2>1. PICK age \in 0 .. LiveTimeout : D!LiveSucceeds(age)
    BY <1>3
  <2>2. age \in Nat
    BY DetailLimits
  <2>3. QED
    BY <2>1, <2>2, DetailSucceedStep
<1>4. CASE \E age \in 0 .. BaseTimeout : D!RefreshSucceeds(age)
  <2>1. PICK age \in 0 .. BaseTimeout : D!RefreshSucceeds(age)
    BY <1>4
  <2>2. age \in Nat
    BY DetailLimits
  <2>3. QED
    BY <2>1, <2>2, DetailSucceedStep
<1>5. CASE D!Tick
  <2>1. dData' = [dData EXCEPT !.age = D!Older(dData.age, D!AgeCap)]
    BY <1>5 DEF D!Tick
  <2>2. dData \in D!Answer
    BY DEF D!IInv, D!DetailIsSound, D!TypeOK
  <2>3. QED
    BY <2>1, <2>2 DEF D!Answer
<1>6. CASE D!Leave \/ (\E i \in D!TimerId : D!Fire(i)) \/ D!FireStale \/ D!Hide \/ D!Show \/ D!LiveFails \/ D!RefreshFails
  <2>1. UNCHANGED dData
    BY <1>6 DEF D!Leave, D!Fire, D!FireStale, D!Hide, D!Show, D!LiveFails, D!RefreshFails, D!state
  <2>2. QED
    BY <2>1
<1>7. CASE D!SettleLate \/ UNCHANGED D!vars
  <2>1. UNCHANGED dData
    BY <1>7 DEF D!SettleLate, D!IgnoreLate, D!vars, D!state
  <2>2. QED
    BY <2>1
<1>8. QED
  BY <1>2, <1>3, <1>4, <1>5, <1>6, <1>7 DEF D!Next

(* Live read, fallback, timer and visibility never run two clocks, and the *)
(* page never shows another device's answer or a mark that is not true, for*)
(* every interval, every timeout and any number of aborted requests        *)
(* (DeviceDetailPage.tsx:12-86).                                           *)
THEOREM NeverTwoClocks == D!Spec => []DetailIsSound
<1>1. D!Init => D!IInv
  BY DetailTimes, DetailInitIInv
<1>2. D!IInv /\ [D!Next]_D!vars => D!IInv'
  BY DetailTimes, NextIInv
<1>3. D!IInv => DetailIsSound
  BY DEF DetailIsSound, D!IInv
<1>4. QED
  BY <1>1, <1>2, <1>3, PTL DEF D!Spec

(* The page leaves its loading state within the two timeouts, in a hidden  *)
(* page too, and a live read that failed is shown as failed                *)
(* (DeviceDetailPage.tsx:31-78).                                           *)
THEOREM LiveReadEnds == D!Spec => []LiveReadReported
<1>1. D!Init => D!IInv
  BY DetailTimes, DetailInitIInv
<1>2. D!IInv /\ [D!Next]_D!vars => D!IInv'
  BY DetailTimes, NextIInv
<1>3. D!IInv => LiveReadReported
  BY DetailTimes, LoadingIsShort DEF LiveReadReported, D!IInv, D!DetailIsSound, D!LiveReadReported
<1>4. QED
  BY <1>1, <1>2, <1>3, PTL DEF D!Spec

(* Whatever answers, fails or runs out while the page stays open, the      *)
(* comparison it shows stays (DeviceDetailPage.tsx:37-50).                 *)
THEOREM ComparisonIsKept == D!Spec => ComparisonRetained
<1>1. D!Init => D!IInv
  BY DetailTimes, DetailInitIInv
<1>2. D!IInv /\ [D!Next]_D!vars => D!IInv'
  BY DetailTimes, NextIInv
<1>3. D!IInv /\ [D!Next]_D!vars =>
        [dData # None /\ dData' # None => dData'.comparison = dData.comparison]_D!vars
  BY DetailTimes, ComparisonStays
<1>4. QED
  BY <1>1, <1>2, <1>3, PTL DEF D!Spec, ComparisonRetained, D!ComparisonRetained
=============================================================================
