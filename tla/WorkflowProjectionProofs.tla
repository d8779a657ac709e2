---------------------- MODULE WorkflowProjectionProofs ----------------------
(***************************************************************************)
(* No page is told that an execution succeeded, or that its device passed  *)
(* validation, before the history proves it; and what it is told of an     *)
(* execution that has closed is what the history proves, stage by stage.   *)
(* Both for every set of activities of other versions, every way the       *)
(* activities may close and however the execution moves between the two    *)
(* reads of the API.  WorkflowProjection is P in Answers.                  *)
(***************************************************************************)
EXTENDS Answers, Sequences, FiniteSetTheorems, FunctionTheorems, WellFoundedInduction, TLAPS

(* What an execution and its history are made of.                          *)
Activity == P!Known \cup Foreign
Plans == {p \o tail : p \in {<<"render">>, <<"prepare", "deploy", "validate">>},
                      tail \in {<<>>} \cup {<<a>> : a \in Foreign}}
Results == [type : {"render", "deployment"}, succeeded : BOOLEAN, stage : Activity \cup {None}]
HistoryEvent ==
  [type : P!ClosingType \cup {"execution_started", "scheduled", "execution_completed",
                            "execution_failed", "execution_closed"},
   activity : Activity \cup {None}, result : Results \cup {None}]

(* Every known activity of the run is closed, and none has failed.         *)
AllDone(h) ==
  \A i \in 1 .. Len(P!Steps) : P!Steps[i] \in P!Known => P!CloseOf(h, P!Steps[i]) = "completed"

HistoryFits ==
  /\ plan \in Plans
  /\ history \in Seq(HistoryEvent)

(* An activity closes once, after it was scheduled.                        *)
ClosesOnce(h) ==
  \A i, j \in 1 .. Len(h) :
    /\ h[i].type \in P!ClosingType /\ h[j].type \in P!ClosingType
    /\ h[i].activity = h[j].activity
    => i = j
ClosedWasScheduled(h) ==
  \A i \in 1 .. Len(h) :
    h[i].type \in P!ClosingType => h[i].activity \in Activity /\ P!Scheduled(h, h[i].activity)

(* The publication of a success comes after everything else.               *)
PublishedLast(h) ==
  P!Scheduled(h, "publish") /\ P!Failed(h) = {} =>
    \A i \in 1 .. Len(plan) : plan[i] \in P!Known => P!CloseOf(h, plan[i]) = "completed"

(* The execution returns once, and a success is what its history says.     *)
ReturnsLast(h) == status = "running" => \A i \in 1 .. Len(h) : h[i].type # "execution_completed"
SucceedsWhenDone(h) ==
  \A i \in 1 .. Len(h) :
    h[i].type = "execution_completed" /\ h[i].result.succeeded => AllDone(h)

HistoryInv ==
  /\ HistoryFits
  /\ ClosesOnce(history) /\ ClosedWasScheduled(history) /\ PublishedLast(history)
  /\ ReturnsLast(history) /\ SucceedsWhenDone(history)

-----------------------------------------------------------------------------
(* The plans: what they are made of, and that a deployment validates.      *)
LEMMA PlansAreKnown ==
  ASSUME P!WorkflowConstants, plan \in Plans
  PROVE  /\ plan \in Seq(Activity) /\ Len(plan) > 0
         /\ \A i \in 1 .. Len(plan) : plan[i] # "publish"
         /\ P!Kind = "deployment" => \E i \in 1 .. Len(plan) : plan[i] = "validate"
<1>1. PICK p \in {<<"render">>, <<"prepare", "deploy", "validate">>},
           tail \in {<<>>} \cup {<<a>> : a \in Foreign} : plan = p \o tail
  BY DEF Plans
<1>2. tail \in Seq(Activity)
  <2>1. CASE tail = <<>>
    BY <2>1
  <2>2. ASSUME NEW a \in Foreign, tail = <<a>> PROVE tail \in Seq(Activity)
    <3>1. a \in Activity
      BY DEF Activity
    <3>2. QED
      BY <2>2, <3>1
  <2>3. QED
    BY <1>1, <2>1, <2>2
<1>3. p \in Seq(Activity) /\ Len(p) > 0
  <2>1. {"render", "prepare", "deploy", "validate"} \subseteq Activity
    BY DEF Activity, P!Known
  <2>2. CASE p = <<"render">>
    BY <2>1, <2>2
  <2>3. CASE p = <<"prepare", "deploy", "validate">>
    BY <2>1, <2>3
  <2>4. QED
    BY <1>1, <2>2, <2>3
<1>4. plan \in Seq(Activity) /\ Len(plan) = Len(p) + Len(tail)
      /\ \A i \in 1 .. Len(p) : plan[i] = p[i]
  BY <1>1, <1>2, <1>3
<1>5. p = <<"render">> => P!Kind = "render"
  BY <1>3, <1>4 DEF P!Kind
<1>6. p = <<"prepare", "deploy", "validate">> => plan[3] = "validate" /\ 3 \in 1 .. Len(plan)
  BY <1>2, <1>4
<1>7. \A i \in 1 .. Len(plan) : plan[i] # "publish"
  <2>1. \A i \in 1 .. Len(p) : p[i] # "publish"
    <3>1. CASE p = <<"render">>
      BY <3>1
    <3>2. CASE p = <<"prepare", "deploy", "validate">>
      BY <3>2
    <3>3. QED
      BY <1>1, <3>1, <3>2
  <2>2. \A i \in 1 .. Len(tail) : tail[i] # "publish"
    <3>1. CASE tail = <<>>
      BY <3>1
    <3>2. ASSUME NEW a \in Foreign, tail = <<a>>
          PROVE  \A i \in 1 .. Len(tail) : tail[i] # "publish"
      <4>1. a # "publish"
        BY DEF P!WorkflowConstants, P!Known
      <4>2. QED
        BY <3>2, <4>1
    <3>3. QED
      BY <1>1, <3>1, <3>2
  <2>3. QED
    BY <1>1, <1>2, <1>3, <2>1, <2>2
<1>8. QED
  BY <1>1, <1>3, <1>4, <1>5, <1>6, <1>7

LEMMA StepsAre ==
  ASSUME P!WorkflowConstants, plan \in Plans
  PROVE  /\ P!Steps \in Seq(Activity) /\ Len(P!Steps) = Len(plan) + 1
         /\ P!Steps[Len(P!Steps)] = "publish" /\ "publish" \in P!Known
         /\ \A i \in 1 .. Len(plan) : P!Steps[i] = plan[i]
<1>1. plan \in Seq(Activity) /\ <<"publish">> \in Seq(Activity) /\ "publish" \in P!Known
  BY PlansAreKnown DEF Activity, P!Known
<1>2. QED
  BY <1>1 DEF P!Steps

(* The publication is the last step and no other.                          *)
LEMMA PlanIsBefore ==
  ASSUME P!WorkflowConstants, plan \in Plans, NEW k \in 1 .. Len(plan),
         NEW i \in 1 .. Len(P!Steps), P!Steps[i] = "publish"
  PROVE  plan[k] # "publish" /\ k \in 1 .. i - 1
<1>1. \A j \in 1 .. Len(plan) : plan[j] # "publish"
  BY PlansAreKnown
<1>2. QED
  BY <1>1, StepsAre, PlansAreKnown

(* What a new event leaves as it was.                                      *)
LEMMA Appended ==
  ASSUME NEW h \in Seq(HistoryEvent), NEW e \in HistoryEvent, NEW g, g = Append(h, e)
  PROVE  /\ g \in Seq(HistoryEvent) /\ Len(g) = Len(h) + 1 /\ Len(h) \in Nat
         /\ g[Len(h) + 1] = e
         /\ \A i \in 1 .. Len(h) : g[i] = h[i]
OBVIOUS

(* The events, by their activity.                                          *)
LEMMA EventsAre ==
  ASSUME NEW type, NEW a, NEW r
  PROVE  /\ P!Event(type, a).type = type /\ P!Event(type, a).activity = a
         /\ P!Event(type, a).result = None
         /\ P!ExecutionCompleted(r).type = "execution_completed"
         /\ P!ExecutionCompleted(r).result = r /\ P!ExecutionCompleted(r).activity = None
BY DEF P!Event, P!ExecutionCompleted

(* CloseOf, when an activity closes once.                                  *)
LEMMA CloseOfIs ==
  ASSUME P!WorkflowConstants, NEW h \in Seq(HistoryEvent), ClosesOnce(h), NEW a
  PROVE  /\ \A i \in 1 .. Len(h) : h[i].activity = a /\ h[i].type \in P!ClosingType
              => P!CloseOf(h, a) = h[i].type
         /\ P!CloseOf(h, a) # None => \E i \in 1 .. Len(h) :
              h[i].activity = a /\ h[i].type \in P!ClosingType /\ P!CloseOf(h, a) = h[i].type
         /\ P!CloseOf(h, a) # None => P!CloseOf(h, a) \in P!ClosingType
<1> DEFINE closing == {i \in 1 .. Len(h) : h[i].activity = a /\ h[i].type \in P!ClosingType}
<1>1. P!CloseOf(h, a) = IF closing = {} THEN None ELSE h[CHOOSE i \in closing : TRUE].type
  BY DEF P!CloseOf
<1>2. \A i, j \in closing : i = j
  BY DEF ClosesOnce
<1>3. closing # {} => (CHOOSE i \in closing : TRUE) \in closing
  OBVIOUS
<1>4. ASSUME NEW i \in 1 .. Len(h), h[i].activity = a, h[i].type \in P!ClosingType
      PROVE  P!CloseOf(h, a) = h[i].type
  BY <1>1, <1>2, <1>3, <1>4
<1>5. ASSUME P!CloseOf(h, a) # None
      PROVE  \E i \in 1 .. Len(h) :
               h[i].activity = a /\ h[i].type \in P!ClosingType /\ P!CloseOf(h, a) = h[i].type
  BY <1>1, <1>3, <1>5
<1>6. QED
  BY <1>4, <1>5

(* An event that is no closing changes no closing; one that closes an open *)
(* activity adds its own and changes no other.                             *)
LEMMA CloseOfKept ==
  ASSUME P!WorkflowConstants, NEW h \in Seq(HistoryEvent), ClosesOnce(h),
         NEW e \in HistoryEvent, e.type \in P!ClosingType => P!CloseOf(h, e.activity) = None
  PROVE  /\ ClosesOnce(Append(h, e))
         /\ \A a : P!CloseOf(h, a) # None => P!CloseOf(Append(h, e), a) = P!CloseOf(h, a)
<1> DEFINE g == Append(h, e)
<1>1. /\ g \in Seq(HistoryEvent) /\ Len(g) = Len(h) + 1 /\ Len(h) \in Nat
      /\ g[Len(h) + 1] = e
      /\ \A i \in 1 .. Len(h) : g[i] = h[i]
  BY Appended
<1> HIDE DEF g
<1>2. ASSUME NEW i \in 1 .. Len(h), h[i].type \in P!ClosingType, e.type \in P!ClosingType
      PROVE  h[i].activity # e.activity
  <2>1. P!CloseOf(h, h[i].activity) = h[i].type
    BY <1>2, CloseOfIs
  <2>2. QED
    BY <1>2, <2>1 DEF P!WorkflowConstants
<1>3. ClosesOnce(g)
  <2> SUFFICES ASSUME NEW i \in 1 .. Len(g), NEW j \in 1 .. Len(g),
                      g[i].type \in P!ClosingType, g[j].type \in P!ClosingType,
                      g[i].activity = g[j].activity
               PROVE  i = j
    BY DEF ClosesOnce
  <2>1. CASE i \in 1 .. Len(h) /\ j \in 1 .. Len(h)
    BY <1>1, <2>1 DEF ClosesOnce
  <2>2. CASE i = Len(h) + 1 /\ j \in 1 .. Len(h)
    BY <1>1, <1>2, <2>2
  <2>3. CASE i \in 1 .. Len(h) /\ j = Len(h) + 1
    BY <1>1, <1>2, <2>3
  <2>4. QED
    BY <1>1, <2>1, <2>2, <2>3
<1>4. ASSUME NEW a, P!CloseOf(h, a) # None PROVE P!CloseOf(g, a) = P!CloseOf(h, a)
  <2>1. PICK i \in 1 .. Len(h) :
          h[i].activity = a /\ h[i].type \in P!ClosingType /\ P!CloseOf(h, a) = h[i].type
    BY <1>4, CloseOfIs
  <2>2. i \in 1 .. Len(g) /\ g[i] = h[i]
    BY <1>1
  <2>3. P!CloseOf(g, a) = g[i].type
    BY <1>1, <1>3, <2>1, <2>2, CloseOfIs
  <2>4. QED
    BY <2>1, <2>2, <2>3
<1>5. QED
  BY <1>3, <1>4 DEF g

(* What was scheduled, or has failed, stays so.                            *)
LEMMA ScheduledKept ==
  ASSUME NEW h \in Seq(HistoryEvent), NEW e \in HistoryEvent
  PROVE  \A a : P!Scheduled(Append(h, e), a) <=>
                   P!Scheduled(h, a) \/ (e.type = "scheduled" /\ e.activity = a)
<1> DEFINE g == Append(h, e)
<1>1. /\ g \in Seq(HistoryEvent) /\ Len(g) = Len(h) + 1 /\ Len(h) \in Nat
      /\ g[Len(h) + 1] = e
      /\ \A i \in 1 .. Len(h) : g[i] = h[i]
  BY Appended
<1> HIDE DEF g
<1>2. QED
  BY <1>1 DEF P!Scheduled, g

LEMMA FailedKept ==
  ASSUME P!WorkflowConstants, NEW h \in Seq(HistoryEvent), ClosesOnce(h), NEW g,
         \A a : P!CloseOf(h, a) # None => P!CloseOf(g, a) = P!CloseOf(h, a)
  PROVE  P!Failed(g) = {} => P!Failed(h) = {}
<1>1. \A a : P!CloseOf(h, a) \in P!ClosingType \ {"completed"} => P!CloseOf(g, a) = P!CloseOf(h, a)
  BY DEF P!WorkflowConstants
<1>2. QED
  BY <1>1 DEF P!Failed

(* What a running execution's history keeps when an event is appended that *)
(* schedules the next activity, closes an open one or ends the execution.  *)
LEMMA HistoryGrows ==
  ASSUME P!WorkflowConstants, HistoryInv, UNCHANGED plan, status = "running",
         NEW e \in HistoryEvent, history' = Append(history, e),
         e.type \in P!ClosingType =>
           e.activity \in P!Open(history) /\ status' = "running",
         e.type = "scheduled" =>
           /\ status' = "running" /\ P!Open(history) = {}
           /\ P!CloseOf(history, "publish") = None
           /\ \E i \in 1 .. Len(P!Steps) : P!IsNext(i, history) /\ e.activity = P!Steps[i],
         e.type = "execution_completed" =>
           /\ status' # "running"
           /\ e.result.succeeded => P!Failed(history) = {} /\ P!CloseOf(history, "publish") = "completed"
  PROVE  HistoryInv'
<1>1. plan \in Plans /\ history \in Seq(HistoryEvent) /\ ClosesOnce(history)
  BY DEF HistoryInv, HistoryFits
<1>2. /\ history' \in Seq(HistoryEvent) /\ Len(history') = Len(history) + 1 /\ Len(history) \in Nat
      /\ history'[Len(history) + 1] = e
      /\ \A i \in 1 .. Len(history) : history'[i] = history[i]
  BY <1>1, Appended
<1>3. /\ ClosesOnce(history')
      /\ \A a : P!CloseOf(history, a) # None => P!CloseOf(history', a) = P!CloseOf(history, a)
  BY <1>1, CloseOfKept DEF P!Open
<1>4. \A a : P!Scheduled(history', a) <=>
               P!Scheduled(history, a) \/ (e.type = "scheduled" /\ e.activity = a)
  BY <1>1, ScheduledKept
<1>5. P!Failed(history') = {} => P!Failed(history) = {}
  BY <1>1, <1>3, FailedKept
<1>6. HistoryFits'
  <2>1. plan' \in Plans
    BY <1>1
  <2>2. QED
    BY <1>2, <2>1 DEF HistoryFits
<1>7. ClosedWasScheduled(history)'
  <2> SUFFICES ASSUME NEW i \in 1 .. Len(history'), history'[i].type \in P!ClosingType
               PROVE  history'[i].activity \in Activity /\ P!Scheduled(history', history'[i].activity)
    BY DEF ClosedWasScheduled
  <2>1. CASE i \in 1 .. Len(history)
    BY <1>2, <1>4, <2>1 DEF HistoryInv, ClosedWasScheduled
  <2>2. CASE i = Len(history) + 1
    BY <1>2, <1>4, <2>2 DEF P!Open, Activity
  <2>3. QED
    BY <1>2, <2>1, <2>2
<1>8. PublishedLast(history)'
  <2> SUFFICES ASSUME P!Scheduled(history', "publish"), P!Failed(history') = {},
                      NEW k \in 1 .. Len(plan), plan[k] \in P!Known
               PROVE  P!CloseOf(history', plan[k]) = "completed"
    BY DEF PublishedLast
  <2>1. P!Failed(history) = {} /\ "completed" # None
    BY <1>5 DEF P!WorkflowConstants, P!ClosingType
  <2>2. CASE P!Scheduled(history, "publish")
    BY <1>3, <2>1, <2>2 DEF HistoryInv, PublishedLast
  <2>3. CASE ~P!Scheduled(history, "publish")
    <3>1. e.type = "scheduled" /\ e.activity = "publish"
      BY <1>4, <2>3
    <3>2. PICK i \in 1 .. Len(P!Steps) : P!IsNext(i, history) /\ P!Steps[i] = "publish"
      BY <3>1
    <3>3. P!Steps[k] = plan[k] /\ k \in 1 .. Len(P!Steps) /\ plan[k] # "publish"
      BY <1>1, StepsAre, PlansAreKnown, PlanIsBefore
    <3>4. P!Scheduled(history, plan[k])
      BY <1>1, <2>1, <3>2, <3>3, PlanIsBefore DEF P!IsNext
    <3>5. P!CloseOf(history, plan[k]) # None
      BY <3>1, <3>4 DEF P!Open
    <3>6. P!CloseOf(history, plan[k]) = "completed"
      BY <1>1, <2>1, <3>3, <3>5, CloseOfIs DEF P!Failed
    <3>7. QED
      BY <1>3, <3>5, <3>6
  <2>4. QED
    BY <2>2, <2>3
<1>9. ReturnsLast(history)'
  BY <1>2 DEF HistoryInv, ReturnsLast, P!ClosingType
<1>10. SucceedsWhenDone(history)'
  <2> SUFFICES ASSUME NEW i \in 1 .. Len(history'), history'[i].type = "execution_completed",
                      history'[i].result.succeeded
               PROVE  AllDone(history)'
    BY DEF SucceedsWhenDone
  <2>1. i = Len(history) + 1
    BY <1>2 DEF HistoryInv, ReturnsLast
  <2>2. P!Failed(history) = {} /\ P!CloseOf(history, "publish") = "completed"
    BY <1>2, <2>1
  <2>3. "completed" # None
    BY DEF P!WorkflowConstants, P!ClosingType
  <2>4. P!Scheduled(history, "publish")
    BY <1>1, <2>2, <2>3, CloseOfIs DEF HistoryInv, ClosedWasScheduled
  <2>5. AllDone(history)
    BY <1>1, <2>2, <2>4, StepsAre DEF HistoryInv, PublishedLast, AllDone
  <2>6. QED
    BY <1>1, <1>3, <2>3, <2>5 DEF AllDone, P!Steps
<1>11. ClosesOnce(history)'
  BY <1>3 DEF ClosesOnce
<1>12. QED
  BY <1>11, <1>6, <1>7, <1>8, <1>9, <1>10 DEF HistoryInv

-----------------------------------------------------------------------------
(* The steps.                                                              *)
ProjectionInv == HistoryInv /\ P!SuccessIsProved

(* An execution begins with its plan and with nothing read.                *)
LEMMA BegunAsPlanned ==
  ASSUME P!Init
  PROVE  /\ plan \in Plans /\ status = "running" /\ shown = None
         /\ history = <<P!Event("execution_started", None)>>
<1>1. plan \in Plans
  <2>1. plan \in {p \o tail : p \in {<<"render">>, <<"prepare", "deploy", "validate">>},
                              tail \in {<<>>} \cup {<<a>> : a \in Foreign}}
    BY DEF P!Init
  <2>2. QED
    BY <2>1 DEF Plans
<1>2. status = "running" /\ shown = None /\ history = <<P!Event("execution_started", None)>>
  BY Zenon DEF P!Init
<1>3. QED
  BY <1>1, <1>2

LEMMA InitIInv == ASSUME P!WorkflowConstants, P!Init PROVE ProjectionInv
<1>1. plan \in Plans /\ shown = None /\ history = <<P!Event("execution_started", None)>>
  BY BegunAsPlanned
<1>2. P!Event("execution_started", None) \in HistoryEvent
  BY DEF P!Event, HistoryEvent
<1>3. /\ history \in Seq(HistoryEvent) /\ Len(history) = 1
      /\ history[1].type = "execution_started"
  BY <1>1, <1>2, EventsAre
<1>4. \A i \in 1 .. Len(history) : history[i].type = "execution_started"
  BY <1>3
<1>5. ClosesOnce(history) /\ ClosedWasScheduled(history)
  BY <1>4 DEF ClosesOnce, ClosedWasScheduled, P!ClosingType
<1>6. PublishedLast(history)
  BY <1>4 DEF PublishedLast, P!Scheduled
<1>7. ReturnsLast(history) /\ SucceedsWhenDone(history)
  BY <1>4 DEF ReturnsLast, SucceedsWhenDone
<1>8. QED
  BY <1>1, <1>3, <1>5, <1>6, <1>7 DEF ProjectionInv, HistoryInv, HistoryFits, P!SuccessIsProved

(* What is shown stays proved while the history grows.                     *)
LEMMA ShownStaysProved ==
  ASSUME P!WorkflowConstants, HistoryInv, P!SuccessIsProved, UNCHANGED <<plan, shown>>,
         NEW e \in HistoryEvent, history' = Append(history, e),
         e.type \in P!ClosingType => P!CloseOf(history, e.activity) = None
  PROVE  P!SuccessIsProved'
<1>1. \A a : P!CloseOf(history, a) # None => P!CloseOf(history', a) = P!CloseOf(history, a)
  BY CloseOfKept DEF HistoryInv, HistoryFits
<1>2. \A a : P!CloseOf(history, a) = "completed" => P!CloseOf(history', a) = "completed"
  BY <1>1 DEF P!WorkflowConstants, P!ClosingType
<1>3. QED
  BY <1>2 DEF P!SuccessIsProved

LEMMA ScheduleStep == ASSUME P!WorkflowConstants, ProjectionInv, P!Schedule PROVE ProjectionInv'
<1>1. /\ status = "running" /\ P!Open(history) = {} /\ P!CloseOf(history, "publish") = None
      /\ UNCHANGED <<plan, status, shown>>
  BY DEF P!Schedule
<1>2. PICK i \in 1 .. Len(P!Steps) :
        P!IsNext(i, history) /\ history' = Append(history, P!Event("scheduled", P!Steps[i]))
  BY DEF P!Schedule
<1> DEFINE e == P!Event("scheduled", P!Steps[i])
<1>3. P!Steps[i] \in Activity
  BY StepsAre DEF ProjectionInv, HistoryInv, HistoryFits
<1>4. e \in HistoryEvent
  BY <1>3 DEF P!Event, HistoryEvent
<1>5. e.type = "scheduled" /\ e.activity = P!Steps[i] /\ e.type \notin P!ClosingType
  BY EventsAre DEF P!ClosingType
<1>6. history' = Append(history, e)
  BY <1>2
<1> HIDE DEF e
<1>7. HistoryInv'
  BY <1>1, <1>2, <1>4, <1>5, <1>6, HistoryGrows DEF ProjectionInv
<1>8. P!SuccessIsProved'
  BY <1>1, <1>4, <1>5, <1>6, ShownStaysProved DEF ProjectionInv
<1>9. QED
  BY <1>7, <1>8 DEF ProjectionInv

LEMMA ActivityClosesStep ==
  ASSUME P!WorkflowConstants, ProjectionInv, NEW type \in P!ClosingType, P!ActivityCloses(type)
  PROVE  ProjectionInv'
<1>1. status = "running" /\ UNCHANGED <<plan, status, shown>>
  BY DEF P!ActivityCloses
<1>2. PICK a \in P!Open(history) : history' = Append(history, P!Event(type, a))
  BY DEF P!ActivityCloses
<1> DEFINE e == P!Event(type, a)
<1>3. e \in HistoryEvent
  BY DEF P!Event, HistoryEvent, P!Open, Activity
<1>4. e.type = type /\ e.activity = a /\ P!CloseOf(history, a) = None
  BY EventsAre DEF P!Open
<1>5. e.type # "scheduled" /\ e.type # "execution_completed"
  BY <1>4 DEF P!ClosingType
<1>6. history' = Append(history, e)
  BY <1>2
<1> HIDE DEF e
<1>7. HistoryInv'
  BY <1>1, <1>2, <1>3, <1>4, <1>5, <1>6, HistoryGrows DEF ProjectionInv
<1>8. P!SuccessIsProved'
  BY <1>1, <1>3, <1>4, <1>6, ShownStaysProved DEF ProjectionInv
<1>9. QED
  BY <1>7, <1>8 DEF ProjectionInv

(* The three events that end an execution.                                 *)
LEMMA EndStep ==
  ASSUME P!WorkflowConstants, ProjectionInv, status = "running", status' # "running",
         UNCHANGED <<plan, shown>>,
         NEW e \in HistoryEvent, history' = Append(history, e),
         e.type \in {"execution_completed", "execution_failed", "execution_closed"},
         e.type = "execution_completed" =>
           (e.result.succeeded => P!Failed(history) = {} /\ P!CloseOf(history, "publish") = "completed")
  PROVE  ProjectionInv'
<1>1. e.type \notin P!ClosingType /\ e.type # "scheduled"
  BY DEF P!ClosingType
<1>2. HistoryInv'
  BY <1>1, HistoryGrows DEF ProjectionInv
<1>3. P!SuccessIsProved'
  BY <1>1, ShownStaysProved DEF ProjectionInv
<1>4. QED
  BY <1>2, <1>3 DEF ProjectionInv

LEMMA ReturnStep == ASSUME P!WorkflowConstants, ProjectionInv, P!Return PROVE ProjectionInv'
<1>1. status = "running" /\ UNCHANGED <<plan, shown>>
  BY DEF P!Return
<1>2. CASE P!CloseOf(history, "publish") = "completed"
  <2> DEFINE e == P!ExecutionCompleted(P!Outcome(history))
  <2>1. status' = "completed" /\ history' = Append(history, e)
    BY <1>2 DEF P!Return
  <2>2. P!Outcome(history) \in Results
    <3>1. P!Failed(history) # {} => (CHOOSE a \in P!Failed(history) : TRUE) \in Activity
      BY DEF P!Failed, Activity
    <3>2. P!Kind \in {"render", "deployment"}
      BY DEF P!Kind
    <3>3. QED
      BY <3>1, <3>2 DEF P!Outcome, Results
  <2>3. e \in HistoryEvent
    BY <2>2 DEF P!ExecutionCompleted, HistoryEvent
  <2>4. e.type = "execution_completed" /\ e.result = P!Outcome(history)
    BY EventsAre
  <2>5. P!Outcome(history).succeeded => P!Failed(history) = {}
    BY DEF P!Outcome
  <2> HIDE DEF e
  <2>6. QED
    BY <1>1, <1>2, <2>1, <2>3, <2>4, <2>5, EndStep
<1>3. CASE P!CloseOf(history, "publish") # "completed"
  <2> DEFINE e == P!Event("execution_failed", None)
  <2>1. status' = "failed" /\ history' = Append(history, e)
    BY <1>3 DEF P!Return
  <2>2. e \in HistoryEvent
    BY DEF P!Event, HistoryEvent
  <2>3. e.type = "execution_failed"
    BY EventsAre
  <2> HIDE DEF e
  <2>4. QED
    BY <1>1, <2>1, <2>2, <2>3, EndStep
<1>4. QED
  BY <1>2, <1>3

LEMMA EndedFromOutsideStep ==
  ASSUME P!WorkflowConstants, ProjectionInv, NEW s \in {"timed_out", "canceled", "terminated"},
         P!EndedFromOutside(s)
  PROVE  ProjectionInv'
<1> DEFINE e == P!Event("execution_closed", None)
<1>1. /\ status = "running" /\ status' = s /\ UNCHANGED <<plan, shown>>
      /\ history' = Append(history, e)
  BY DEF P!EndedFromOutside
<1>2. e \in HistoryEvent
  BY DEF P!Event, HistoryEvent
<1>3. e.type = "execution_closed"
  BY EventsAre
<1> HIDE DEF e
<1>4. QED
  BY <1>1, <1>2, <1>3, EndStep

-----------------------------------------------------------------------------
(* A step of the page changes nothing of the execution.                    *)
LEMMA HistoryUnchanged ==
  ASSUME HistoryInv, UNCHANGED P!execution
  PROVE  HistoryInv'
BY DEF P!execution, HistoryInv, HistoryFits, ClosesOnce, ClosedWasScheduled, PublishedLast,
       ReturnsLast, SucceedsWhenDone, AllDone, P!Steps

(* A result that says success is one the history proves.                   *)
LEMMA SuccessOfResult ==
  ASSUME P!WorkflowConstants, HistoryInv, P!ResultIn(history) # None, P!ResultIn(history).succeeded
  PROVE  /\ \A a \in P!ToSet(plan) \cup {"publish"} : a \in P!Known => P!CloseOf(history, a) = "completed"
         /\ P!Kind = "deployment" => P!CloseOf(history, "validate") = "completed"
<1>1. PICK i \in 1 .. Len(history) :
        history[i].type = "execution_completed" /\ P!ResultIn(history) = history[i].result
  BY DEF P!ResultIn
<1>2. AllDone(history)
  BY <1>1 DEF HistoryInv, SucceedsWhenDone
<1>3. plan \in Plans
  BY DEF HistoryInv, HistoryFits
<1>4. \A a \in P!ToSet(plan) \cup {"publish"} : \E k \in 1 .. Len(P!Steps) : P!Steps[k] = a
  BY <1>3, StepsAre, PlansAreKnown DEF P!ToSet
<1>5. P!Kind = "deployment" => \E k \in 1 .. Len(P!Steps) : P!Steps[k] = "validate"
  BY <1>3, StepsAre, PlansAreKnown
<1>6. "validate" \in P!Known
  BY DEF P!Known
<1>7. QED
  BY <1>2, <1>4, <1>5, <1>6 DEF AllDone

LEMMA ReadHistoryStep == ASSUME P!WorkflowConstants, ProjectionInv, P!ReadHistory PROVE ProjectionInv'
<1> DEFINE result == P!ResultIn(history)
<1>1. /\ shown' = P!Detail(described, history) /\ UNCHANGED P!execution
  BY DEF P!ReadHistory, P!Answer
<1>2. /\ shown'.outcome = P!SummaryOutcome(described.status, result)
      /\ shown'.validation = P!Validation(history, result)
  BY <1>1 DEF P!Detail
<1> HIDE DEF result
<1>3. shown'.outcome = "succeeded" => result # None /\ result.succeeded
  BY <1>2 DEF P!SummaryOutcome
<1>4. shown'.validation = "passed" =>
        \/ P!CloseOf(history, "validate") = "completed"
        \/ result # None /\ P!Kind = "deployment" /\ result.succeeded
  BY <1>2 DEF P!Validation, P!WorkflowConstants
<1>5. P!SuccessIsProved'
  <2>1. history' = history /\ plan' = plan
    BY <1>1 DEF P!execution
  <2>2. QED
    BY <1>3, <1>4, <2>1, SuccessOfResult DEF ProjectionInv, result, P!SuccessIsProved
<1>6. QED
  BY <1>1, <1>5, HistoryUnchanged DEF ProjectionInv

LEMMA HistoryFailsStep == ASSUME P!WorkflowConstants, ProjectionInv, P!HistoryFails PROVE ProjectionInv'
<1>1. shown' = P!WithoutHistory(described) /\ UNCHANGED P!execution
  BY DEF P!HistoryFails, P!Answer
<1>2. shown'.outcome # "succeeded" /\ shown'.validation = None
  BY <1>1 DEF P!WithoutHistory, P!SummaryOutcome
<1>3. P!SuccessIsProved'
  BY <1>2 DEF P!SuccessIsProved, P!WorkflowConstants
<1>4. QED
  BY <1>1, <1>3, HistoryUnchanged DEF ProjectionInv

LEMMA UnchangedStep ==
  ASSUME ProjectionInv, UNCHANGED <<P!execution, shown>>
  PROVE  ProjectionInv'
<1>1. HistoryInv'
  BY HistoryUnchanged DEF ProjectionInv
<1>2. P!SuccessIsProved'
  BY DEF ProjectionInv, P!SuccessIsProved, P!execution
<1>3. QED
  BY <1>1, <1>2 DEF ProjectionInv

LEMMA NextIInv == ASSUME P!WorkflowConstants, ProjectionInv, [P!Next]_P!vars PROVE ProjectionInv'
<1>1. CASE P!Schedule
  BY <1>1, ScheduleStep
<1>2. ASSUME NEW type \in P!ClosingType, P!ActivityCloses(type) PROVE ProjectionInv'
  BY <1>2, ActivityClosesStep
<1>3. CASE P!Return
  BY <1>3, ReturnStep
<1>4. ASSUME NEW s \in {"timed_out", "canceled", "terminated"}, P!EndedFromOutside(s) PROVE ProjectionInv'
  BY <1>4, EndedFromOutsideStep
<1>5. CASE P!Describe
  BY <1>5, UnchangedStep DEF P!Describe
<1>6. CASE P!ReadHistory
  BY <1>6, ReadHistoryStep
<1>7. CASE P!HistoryFails
  BY <1>7, HistoryFailsStep
<1>8. CASE UNCHANGED P!vars
  BY <1>8, UnchangedStep DEF P!vars, P!execution
<1>9. QED
  BY <1>1, <1>2, <1>3, <1>4, <1>5, <1>6, <1>7, <1>8 DEF P!Next

(* Success is shown only after the history proves it: no mixture of an     *)
(* older description with a newer history says so sooner                   *)
(* (workflows.py:215-248, 299-336, 636-649).                               *)
THEOREM SuccessIsNeverInferred == P!Spec => []SuccessIsProved
<1>1. P!Init => ProjectionInv
  BY WorkflowInputs, InitIInv
<1>2. ProjectionInv /\ [P!Next]_P!vars => ProjectionInv'
  BY WorkflowInputs, NextIInv
<1>3. ProjectionInv => SuccessIsProved
  BY DEF SuccessIsProved, ProjectionInv
<1>4. QED
  BY <1>1, <1>2, <1>3, PTL DEF P!Spec

-----------------------------------------------------------------------------
(* What At selects, for the sets of positions a history has.               *)

LEMMA SameCardinality == \A S : P!Cardinality(S) = Cardinality(S)
BY DEF P!Cardinality, Cardinality

(* J counts the positions I from the first to the last.                    *)
Enumerates(J, m, I) ==
  /\ m \in Nat /\ J \in [1 .. m -> I] /\ \A x \in I : x \in Nat
  /\ \A i, j \in 1 .. m : i < j => J[i] < J[j]
  /\ \A x \in I : \E i \in 1 .. m : J[i] = x

(* A subsequence is determined by any such count.                          *)
LEMMA AtIs ==
  ASSUME NEW s, NEW I, NEW m, NEW J, Enumerates(J, m, I)
  PROVE  P!At(s, I) = [i \in 1 .. m |-> s[J[i]]]
<1> USE DEF Enumerates
<1> DEFINE First(k) == {J[i] : i \in 1 .. k}
<1>1. ASSUME NEW k \in 0 .. m PROVE Cardinality(First(k)) = k
  <2> DEFINE S == First(k)
             f == [i \in 1 .. k |-> J[i]]
  <2>1. f \in [1 .. k -> S]
    OBVIOUS
  <2>2. \A i, j \in 1 .. k : f[i] = f[j] => i = j
    <3>1. \A i, j \in 1 .. k : i < j => f[i] < f[j]
      OBVIOUS
    <3>2. \A i \in 1 .. k : f[i] \in Int
      OBVIOUS
    <3> HIDE DEF f
    <3>3. QED
      BY <3>1, <3>2
  <2>3. \A x \in S : \E i \in 1 .. k : f[i] = x
    OBVIOUS
  <2>4. f \in Bijection(1 .. k, S)
    BY <2>1, <2>2, <2>3 DEF Bijection, Injection, Surjection, IsInjective
  <2>5. ExistsBijection(1 .. k, S)
    BY <2>4 DEF ExistsBijection
  <2>6. QED
    BY <2>5, FS_CountingElements
<1> HIDE DEF First
<1>2. P!Cardinality(I) = m
  <2>1. First(m) = I
    BY DEF First
  <2>2. QED
    BY <1>1, <2>1, SameCardinality
<1>3. ASSUME NEW k \in 1 .. m PROVE P!Cardinality({j \in I : j <= J[k]}) = k
  <2>1. \A i \in 1 .. m : J[i] <= J[k] <=> i <= k
    <3>1. \A i \in 1 .. m : J[i] \in Int
      OBVIOUS
    <3>2. QED
      BY <3>1
  <2>2. {j \in I : j <= J[k]} = First(k)
    BY <2>1 DEF First
  <2>3. Cardinality(First(k)) = k
    BY <1>1
  <2>4. QED
    BY <2>2, <2>3, SameCardinality
<1>4. ASSUME NEW k \in 1 .. m
      PROVE  P!Nth(I, k) = J[k]
  <2>1. \A i \in I : P!Cardinality({j \in I : j <= i}) = k => i = J[k]
    BY <1>3
  <2>2. QED
    BY <1>3, <2>1 DEF P!Nth
<1>5. QED
  BY <1>2, <1>4 DEF P!At
(* Nothing, one position, and positions without a gap.                     *)
LEMMA AtNone == \A s : P!At(s, {}) = << >>
<1> SUFFICES ASSUME NEW s PROVE P!At(s, {}) = << >>
  OBVIOUS
<1> DEFINE J == [i \in 1 .. 0 |-> 0]
<1>1. J \in [1 .. 0 -> {}]
  OBVIOUS
<1>2. P!At(s, {}) = [i \in 1 .. 0 |-> s[J[i]]]
  <2>1. Enumerates(J, 0, {})
    BY <1>1 DEF Enumerates
  <2>2. QED
    BY <2>1, AtIs
<1>3. QED
  BY <1>2

LEMMA AtOne ==
  ASSUME NEW s, NEW a \in Nat
  PROVE  DOMAIN P!At(s, {a}) = 1 .. 1 /\ P!At(s, {a})[1] = s[a]
<1> DEFINE J == [i \in 1 .. 1 |-> a]
<1>1. J \in [1 .. 1 -> {a}] /\ \A i \in 1 .. 1 : J[i] = a
  OBVIOUS
<1> HIDE DEF J
<1>2. (\A x \in {a} : \E i \in 1 .. 1 : J[i] = x) /\ (\A x \in {a} : x \in Nat)
  BY <1>1
<1>3. \A i, j \in 1 .. 1 : i < j => J[i] < J[j]
  OBVIOUS
<1>4. P!At(s, {a}) = [i \in 1 .. 1 |-> s[J[i]]]
  <2>1. Enumerates(J, 1, {a})
    BY <1>1, <1>2, <1>3 DEF Enumerates
  <2>2. QED
    BY <2>1, AtIs
<1>5. QED
  BY <1>1, <1>4

(* The positions from a to b.                                              *)
ReadsOff(f, s, a, b) ==
  /\ DOMAIN f = 1 .. b + 1 - a
  /\ \A i \in 1 .. b + 1 - a : f[i] = s[a + i - 1]

LEMMA AtInterval ==
  ASSUME NEW s, NEW a \in Nat, NEW b \in Nat, a <= b + 1
  PROVE  ReadsOff(P!At(s, a .. b), s, a, b)
<1> DEFINE I == a .. b
           m == b + 1 - a
           J == [i \in 1 .. m |-> a + i - 1]
<1>1. m \in Nat /\ J \in [1 .. m -> I] /\ \A i \in 1 .. m : J[i] = a + i - 1
  OBVIOUS
<1>2. \A x \in I : x \in Nat
  OBVIOUS
<1>3. \A x \in I : \E i \in 1 .. m : J[i] = x
  <2> SUFFICES ASSUME NEW x \in I PROVE \E i \in 1 .. m : J[i] = x
    OBVIOUS
  <2>1. x - a + 1 \in 1 .. m /\ x = a + (x - a + 1) - 1
    OBVIOUS
  <2>2. QED
    BY <2>1
<1> HIDE DEF J, m, I
<1>4. \A i, j \in 1 .. m : i < j => J[i] < J[j]
  BY <1>1
<1>5. P!At(s, I) = [i \in 1 .. m |-> s[J[i]]]
  <2>1. Enumerates(J, m, I)
    BY <1>1, <1>2, <1>3, <1>4 DEF Enumerates
  <2>2. QED
    BY <2>1, AtIs
<1>6. QED
  BY <1>1, <1>5 DEF m, I, ReadsOff

(* The same with one more position further on.                             *)
LEMMA AtIntervalAnd ==
  ASSUME NEW s, NEW a \in Nat, NEW b \in Nat, b > a
  PROVE  /\ DOMAIN P!At(s, (1 .. a) \cup {b}) = 1 .. a + 1
         /\ \A i \in 1 .. a : P!At(s, (1 .. a) \cup {b})[i] = s[i]
         /\ P!At(s, (1 .. a) \cup {b})[a + 1] = s[b]
<1> DEFINE I == (1 .. a) \cup {b}
           J == [i \in 1 .. a + 1 |-> IF i <= a THEN i ELSE b]
<1>1. J \in [1 .. a + 1 -> I] /\ \A i \in 1 .. a + 1 : J[i] = IF i <= a THEN i ELSE b
  OBVIOUS
<1>2. \A x \in I : x \in Nat /\ (x \in 1 .. a \/ x = b)
  OBVIOUS
<1> HIDE DEF J, I
<1>3. \A x \in I : \E i \in 1 .. a + 1 : J[i] = x
  BY <1>1, <1>2
<1>4. \A i, j \in 1 .. a + 1 : i < j => J[i] < J[j]
  BY <1>1
<1>5. P!At(s, I) = [i \in 1 .. a + 1 |-> s[J[i]]]
  <2>1. Enumerates(J, a + 1, I)
    BY <1>1, <1>2, <1>3, <1>4 DEF Enumerates
  <2>2. QED
    BY <2>1, AtIs
<1>6. /\ DOMAIN P!At(s, I) = 1 .. a + 1
      /\ \A i \in 1 .. a + 1 : P!At(s, I)[i] = s[J[i]]
  BY <1>5
<1>7. J[a + 1] = b /\ (\A i \in 1 .. a : J[i] = i) /\ a + 1 \in 1 .. a + 1 /\ 1 .. a \subseteq 1 .. a + 1
  BY <1>1
<1>8. /\ DOMAIN P!At(s, I) = 1 .. a + 1
      /\ \A i \in 1 .. a : P!At(s, I)[i] = s[i]
      /\ P!At(s, I)[a + 1] = s[b]
  BY <1>6, <1>7
<1>9. QED
  BY <1>8 DEF I

(* Every other position.                                                   *)
LEMMA AtOdd ==
  ASSUME NEW s, NEW n \in Nat
  PROVE  /\ DOMAIN P!At(s, {2 * i + 1 : i \in 1 .. n}) = 1 .. n
         /\ \A j \in 1 .. n : P!At(s, {2 * i + 1 : i \in 1 .. n})[j] = s[2 * j + 1]
<1> DEFINE I == {2 * i + 1 : i \in 1 .. n}
           J == [i \in 1 .. n |-> 2 * i + 1]
<1>1. J \in [1 .. n -> I] /\ \A i \in 1 .. n : J[i] = 2 * i + 1
  OBVIOUS
<1>2. \A x \in I : x \in Nat
  OBVIOUS
<1>3. \A x \in I : \E i \in 1 .. n : J[i] = x
  OBVIOUS
<1> HIDE DEF J, I
<1>4. \A i, j \in 1 .. n : i < j => J[i] < J[j]
  BY <1>1
<1>5. P!At(s, I) = [i \in 1 .. n |-> s[J[i]]]
  <2>1. Enumerates(J, n, I)
    BY <1>1, <1>2, <1>3, <1>4 DEF Enumerates
  <2>2. QED
    BY <2>1, AtIs
<1>6. QED
  BY <1>1, <1>5 DEF I

-----------------------------------------------------------------------------
(* The two plans, with a foreign activity at the end or none.              *)
LEMMA PlanIs ==
  ASSUME P!WorkflowConstants, plan \in Plans
  PROVE  \/ /\ P!Kind = "render" /\ Len(plan) \in 1 .. 2 /\ plan[1] = "render"
            /\ \A i \in 2 .. Len(plan) : plan[i] \in Foreign
         \/ /\ P!Kind = "deployment" /\ Len(plan) \in 3 .. 4
            /\ plan[1] = "prepare" /\ plan[2] = "deploy" /\ plan[3] = "validate"
            /\ \A i \in 4 .. Len(plan) : plan[i] \in Foreign
<1>1. PICK p \in {<<"render">>, <<"prepare", "deploy", "validate">>},
           tail \in {<<>>} \cup {<<a>> : a \in Foreign} : plan = p \o tail
  BY DEF Plans
<1>2. Len(tail) \in 0 .. 1 /\ tail \in Seq(Foreign)
  <2>1. CASE tail = <<>>
    BY <2>1
  <2>2. ASSUME NEW a \in Foreign, tail = <<a>> PROVE Len(tail) \in 0 .. 1 /\ tail \in Seq(Foreign)
    BY <2>2
  <2>3. QED
    BY <1>1, <2>1, <2>2
<1>3. CASE p = <<"render">>
  <2>1. /\ Len(plan) = 1 + Len(tail) /\ plan[1] = "render"
        /\ \A i \in 2 .. Len(plan) : plan[i] = tail[i - 1] /\ i - 1 \in 1 .. Len(tail)
    BY <1>1, <1>2, <1>3
  <2>2. P!Kind = "render"
    BY <2>1 DEF P!Kind
  <2>3. QED
    BY <1>2, <2>1, <2>2
<1>4. CASE p = <<"prepare", "deploy", "validate">>
  <2>1. /\ Len(plan) = 3 + Len(tail)
        /\ plan[1] = "prepare" /\ plan[2] = "deploy" /\ plan[3] = "validate"
        /\ \A i \in 4 .. Len(plan) : plan[i] = tail[i - 3] /\ i - 3 \in 1 .. Len(tail)
    BY <1>1, <1>2, <1>4
  <2>2. P!Kind = "deployment"
    BY <2>1 DEF P!Kind
  <2>3. QED
    BY <1>2, <2>1, <2>2
<1>5. QED
  BY <1>1, <1>3, <1>4

LEMMA PlanIsDistinct ==
  ASSUME P!WorkflowConstants, plan \in Plans
  PROVE  /\ \A i, j \in 1 .. Len(plan) : plan[i] = plan[j] => i = j
         /\ \A i \in 1 .. Len(plan) : plan[i] \in P!Known => i \in 1 .. 3
         /\ \A i \in 1 .. Len(plan) : plan[i] \in Foreign => i = Len(plan)
         /\ Len(plan) \in Nat
<1>1. CASE P!Kind = "render"
  BY <1>1, PlanIs DEF P!WorkflowConstants, P!Known
<1>2. CASE P!Kind = "deployment"
  BY <1>2, PlanIs DEF P!WorkflowConstants, P!Known
<1>3. QED
  BY <1>1, <1>2, PlanIs

(* The activities begun are the first k of the plan and then, if p is 1,    *)
(* the publication; n of them have closed, and no more than one has not.    *)
Begun(i, k) == IF i <= k THEN plan[i] ELSE "publish"

(* The k-th has failed, so the publication is next.                        *)
Fell(h, k) == k > 0 /\ plan[k] \in P!Known /\ h[2 * k + 1].type # "completed"

Trace(h, k, p, n) ==
  /\ k \in 0 .. Len(plan) /\ p \in 0 .. 1 /\ n \in 0 .. k + p /\ k + p <= n + 1
  /\ Len(h) \in {1 + k + p + n, 2 + k + p + n}
  /\ h[1].type = "execution_started"
  /\ \A i \in 1 .. k + p : h[2 * i].type = "scheduled" /\ h[2 * i].activity = Begun(i, k)
  /\ \A i \in 1 .. n : h[2 * i + 1].type \in P!ClosingType /\ h[2 * i + 1].activity = Begun(i, k)
  /\ \A i \in 1 .. n : i < k /\ plan[i] \in P!Known => h[2 * i + 1].type = "completed"
  /\ p = 1 => k = Len(plan) \/ Fell(h, k)
  /\ Len(h) = 2 + k + p + n =>
       h[Len(h)].type \in {"execution_completed", "execution_failed", "execution_closed"}

(* What the result of an execution says.                                   *)
Tells(result, h, k, p, n) ==
  /\ p = 1 /\ n = k + 1 /\ h[2 * n + 1].type = "completed"
  /\ result.type = P!Kind
  /\ result.succeeded <=> ~Fell(h, k)
  /\ result.stage = IF Fell(h, k) /\ P!Kind = "deployment" THEN plan[k] ELSE None

TraceInv(k, p, n) ==
  /\ Trace(history, k, p, n)
  /\ status = "running" <=> Len(history) = 1 + k + p + n
  /\ \A i \in 1 .. Len(history) :
       history[i].type = "execution_completed" =>
         i = 2 + k + p + n /\ Tells(history[i].result, history, k, p, n)

LEMMA BegunAre ==
  ASSUME P!WorkflowConstants, plan \in Plans, NEW k \in 0 .. Len(plan), NEW p \in 0 .. 1
  PROVE  /\ \A i, j \in 1 .. k + p : Begun(i, k) = Begun(j, k) => i = j
         /\ \A i \in 1 .. k + p : Begun(i, k) \in Activity /\ (Begun(i, k) = "publish" <=> i = k + 1)
<1>1. \A i \in 1 .. k : plan[i] \in Activity /\ plan[i] # "publish"
  BY PlansAreKnown
<1>2. "publish" \in Activity
  BY DEF Activity, P!Known
<1>3. QED
  BY <1>1, <1>2, PlanIsDistinct DEF Begun

(* Every event is at an odd or at an even place.                           *)
LEMMA Halves == \A i \in Nat : \E j \in Nat : i = 2 * j \/ i = 2 * j + 1
<1>1. \A i \in Nat : i \div 2 \in Nat /\ (i = 2 * (i \div 2) \/ i = 2 * (i \div 2) + 1)
  OBVIOUS
<1>2. QED
  BY <1>1

LEMMA TraceTypes ==
  ASSUME P!WorkflowConstants, plan \in Plans,
         NEW h \in Seq(HistoryEvent), NEW k, NEW p, NEW n, Trace(h, k, p, n)
  PROVE  /\ Len(plan) \in Nat /\ k \in Nat /\ k <= Len(plan) /\ p \in {0, 1} /\ n \in Nat
         /\ (n = k + p \/ k + p = n + 1)
         /\ Len(h) \in Nat /\ (Len(h) = 1 + k + p + n \/ Len(h) = 2 + k + p + n)
BY PlanIsDistinct DEF Trace

LEMMA EventsOfTrace ==
  ASSUME P!WorkflowConstants, plan \in Plans,
         NEW h \in Seq(HistoryEvent), NEW k, NEW p, NEW n, Trace(h, k, p, n),
         NEW i \in 1 .. Len(h)
  PROVE  /\ h[i].type \in P!ClosingType <=> \E j \in 1 .. n : i = 2 * j + 1
         /\ h[i].type = "scheduled" <=> \E j \in 1 .. k + p : i = 2 * j
<1>1. /\ k \in Nat /\ p \in Nat /\ n \in Nat /\ Len(h) \in Nat
      /\ (n = k + p \/ k + p = n + 1)
      /\ (Len(h) = 1 + k + p + n \/ Len(h) = 2 + k + p + n)
  BY TraceTypes
<1>2. PICK j \in Nat : i = 2 * j \/ i = 2 * j + 1
  <2>1. i \in Nat
    BY <1>1
  <2>2. QED
    BY <2>1, Halves
<1>3. CASE i = 1
  <2>1. h[i].type = "execution_started"
    BY <1>3 DEF Trace
  <2>2. QED
    BY <1>1, <1>3, <2>1 DEF P!ClosingType
<1>4. CASE i = 2 + k + p + n
  <2>1. h[i].type \in {"execution_completed", "execution_failed", "execution_closed"}
    BY <1>1, <1>4 DEF Trace
  <2>2. QED
    BY <1>1, <1>4, <2>1 DEF P!ClosingType
<1>5. CASE i = 2 * j /\ i # 2 + k + p + n
  <2>1. j \in 1 .. k + p
    BY <1>1, <1>5
  <2>2. h[i].type = "scheduled"
    BY <1>5, <2>1 DEF Trace
  <2>3. QED
    BY <1>1, <1>5, <2>1, <2>2 DEF P!ClosingType
<1>6. CASE i = 2 * j + 1 /\ i # 1 /\ i # 2 + k + p + n
  <2>1. j \in 1 .. n
    BY <1>1, <1>6
  <2>2. h[i].type \in P!ClosingType
    BY <1>6, <2>1 DEF Trace
  <2>3. QED
    BY <1>1, <1>6, <2>1, <2>2 DEF P!ClosingType
<1>7. QED
  BY <1>2, <1>3, <1>4, <1>5, <1>6

(* What a history with a trace says of each activity.                      *)
LEMMA TraceSays ==
  ASSUME P!WorkflowConstants, plan \in Plans,
         NEW h \in Seq(HistoryEvent), ClosesOnce(h),
         NEW k, NEW p, NEW n, Trace(h, k, p, n)
  PROVE  /\ \A a : P!Scheduled(h, a) <=> \E i \in 1 .. k + p : a = Begun(i, k)
         /\ \A i \in 1 .. n : P!CloseOf(h, Begun(i, k)) = h[2 * i + 1].type
         /\ \A a : P!CloseOf(h, a) # None => \E i \in 1 .. n : a = Begun(i, k)
         /\ P!Open(h) = {Begun(i, k) : i \in n + 1 .. k + p}
<1>1. /\ k \in Nat /\ k <= Len(plan) /\ p \in {0, 1} /\ n \in Nat /\ Len(h) \in Nat /\ Len(plan) \in Nat
      /\ (n = k + p \/ k + p = n + 1)
      /\ (Len(h) = 1 + k + p + n \/ Len(h) = 2 + k + p + n)
  BY TraceTypes
<1>2. ASSUME NEW a PROVE P!Scheduled(h, a) <=> \E i \in 1 .. k + p : a = Begun(i, k)
  <2>1. ASSUME NEW i \in 1 .. Len(h), h[i].type = "scheduled", h[i].activity = a
        PROVE  \E j \in 1 .. k + p : a = Begun(j, k)
    <3>1. PICK j \in 1 .. k + p : i = 2 * j
      BY <2>1, EventsOfTrace
    <3>2. QED
      BY <2>1, <3>1 DEF Trace
  <2>2. ASSUME NEW i \in 1 .. k + p, a = Begun(i, k) PROVE P!Scheduled(h, a)
    <3>1. 2 * i \in 1 .. Len(h)
      BY <1>1
    <3>2. h[2 * i].type = "scheduled" /\ h[2 * i].activity = a
      BY <2>2 DEF Trace
    <3>3. QED
      BY <3>1, <3>2 DEF P!Scheduled
  <2>3. QED
    BY <2>1, <2>2 DEF P!Scheduled
<1>3. ASSUME NEW i \in 1 .. n PROVE P!CloseOf(h, Begun(i, k)) = h[2 * i + 1].type
  <2>1. 2 * i + 1 \in 1 .. Len(h)
    BY <1>1
  <2>2. h[2 * i + 1].type \in P!ClosingType /\ h[2 * i + 1].activity = Begun(i, k)
    BY DEF Trace
  <2>3. QED
    BY <2>1, <2>2, CloseOfIs
<1>4. ASSUME NEW a, P!CloseOf(h, a) # None PROVE \E i \in 1 .. n : a = Begun(i, k)
  <2>1. PICK i \in 1 .. Len(h) : h[i].activity = a /\ h[i].type \in P!ClosingType
    BY <1>4, CloseOfIs
  <2>2. PICK j \in 1 .. n : i = 2 * j + 1
    BY <2>1, EventsOfTrace
  <2>3. QED
    BY <2>1, <2>2 DEF Trace
<1>5. \A i \in 1 .. n : P!CloseOf(h, Begun(i, k)) # None
  <2>1. \A i \in 1 .. n : h[2 * i + 1].type \in P!ClosingType
    BY DEF Trace
  <2>2. QED
    BY <1>3, <2>1 DEF P!WorkflowConstants
<1>6. /\ \A i, j \in 1 .. k + p : Begun(i, k) = Begun(j, k) => i = j
      /\ \A i \in 1 .. k + p : Begun(i, k) \in Activity
  BY <1>1, BegunAre
<1>7. \A a : a \in P!Open(h) <=> \E i \in n + 1 .. k + p : a = Begun(i, k)
  <2> SUFFICES ASSUME NEW a PROVE a \in P!Open(h) <=> \E i \in n + 1 .. k + p : a = Begun(i, k)
    OBVIOUS
  <2>1. ASSUME a \in P!Open(h) PROVE \E i \in n + 1 .. k + p : a = Begun(i, k)
    <3>1. PICK i \in 1 .. k + p : a = Begun(i, k)
      BY <1>2, <2>1 DEF P!Open
    <3>2. i \notin 1 .. n
      BY <1>5, <2>1, <3>1 DEF P!Open
    <3>3. QED
      BY <1>1, <3>1, <3>2
  <2>2. ASSUME NEW i \in n + 1 .. k + p, a = Begun(i, k) PROVE a \in P!Open(h)
    <3>1. i \in 1 .. k + p
      BY <1>1
    <3>2. P!CloseOf(h, a) = None
      <4>1. \A j \in 1 .. n : a # Begun(j, k)
        BY <1>1, <1>6, <2>2, <3>1
      <4>2. QED
        BY <1>4, <4>1
    <3>3. QED
      BY <1>2, <1>6, <2>2, <3>1, <3>2 DEF P!Open, Activity
  <2>3. QED
    BY <2>1, <2>2
<1>8. QED
  BY <1>2, <1>3, <1>4, <1>7

LEMMA FailedIs ==
  ASSUME P!WorkflowConstants, plan \in Plans,
         NEW h \in Seq(HistoryEvent), ClosesOnce(h),
         NEW k, NEW p, NEW n, Trace(h, k, p, n)
  PROVE  /\ k <= n /\ Fell(h, k) => P!Failed(h) = {plan[k]}
         /\ ~(k <= n /\ Fell(h, k)) => P!Failed(h) = {}
<1>1. /\ k \in Nat /\ k <= Len(plan) /\ p \in {0, 1} /\ n \in Nat /\ n <= k + p /\ Len(plan) \in Nat
  BY TraceTypes
<1>2. /\ \A i \in 1 .. n : P!CloseOf(h, Begun(i, k)) = h[2 * i + 1].type
      /\ \A a : P!CloseOf(h, a) # None => \E i \in 1 .. n : a = Begun(i, k)
  BY TraceSays
<1>3. ASSUME NEW a \in P!Failed(h) PROVE a = plan[k] /\ k <= n /\ Fell(h, k)
  <2>1. /\ a \in P!Known /\ a # "publish"
        /\ P!CloseOf(h, a) \in P!ClosingType \ {"completed"}
    BY <1>3 DEF P!Failed
  <2>2. PICK i \in 1 .. n : a = Begun(i, k)
    BY <1>2, <2>1 DEF P!WorkflowConstants
  <2>3. i <= k /\ a = plan[i]
    BY <2>1, <2>2 DEF Begun
  <2>4. h[2 * i + 1].type # "completed"
    BY <1>2, <2>1, <2>2
  <2>5. i = k
    BY <1>1, <2>1, <2>3, <2>4 DEF Trace
  <2>6. QED
    BY <1>1, <2>1, <2>3, <2>4, <2>5 DEF Fell
<1>4. ASSUME k <= n, Fell(h, k) PROVE plan[k] \in P!Failed(h)
  <2>1. k \in 1 .. n /\ Begun(k, k) = plan[k] /\ plan[k] # "publish"
    BY <1>1, <1>4, PlansAreKnown DEF Fell, Begun
  <2>2. P!CloseOf(h, plan[k]) = h[2 * k + 1].type /\ h[2 * k + 1].type \in P!ClosingType
    BY <1>2, <2>1 DEF Trace
  <2>3. QED
    BY <1>4, <2>1, <2>2 DEF P!Failed, Fell
<1>5. QED
  BY <1>3, <1>4
-----------------------------------------------------------------------------
(* Every step leaves a trace again.                                        *)

LEMMA FellKept ==
  ASSUME NEW h \in Seq(HistoryEvent), NEW e \in HistoryEvent, NEW k \in Nat,
         2 * k + 1 <= Len(h)
  PROVE  Fell(Append(h, e), k) <=> Fell(h, k)
<1>1. 2 * k + 1 \in 1 .. Len(h)
  OBVIOUS
<1>2. Append(h, e)[2 * k + 1] = h[2 * k + 1]
  BY <1>1, Appended
<1>3. QED
  BY <1>2 DEF Fell

(* The next activity of the plan begins.                                   *)
LEMMA NextOfPlan ==
  ASSUME P!WorkflowConstants, plan \in Plans,
         NEW h \in Seq(HistoryEvent), NEW e \in HistoryEvent,
         NEW k, NEW n, Trace(h, k, 0, n), n = k, Len(h) = 1 + k + n, k < Len(plan),
         e.type = "scheduled", e.activity = plan[k + 1],
         \A i \in 1 .. n : plan[i] \in P!Known => h[2 * i + 1].type = "completed"
  PROVE  Trace(Append(h, e), k + 1, 0, n)
<1> DEFINE g == Append(h, e)
<1>1. k \in Nat /\ k <= Len(plan) /\ n \in Nat /\ Len(h) \in Nat /\ Len(plan) \in Nat
  BY TraceTypes
<1>2. /\ g \in Seq(HistoryEvent) /\ Len(g) = Len(h) + 1 /\ g[Len(h) + 1] = e
      /\ \A i \in 1 .. Len(h) : g[i] = h[i]
  BY Appended
<1> HIDE DEF g
<1>3. \A i \in 1 .. k + 1 + 0 : g[2 * i].type = "scheduled" /\ g[2 * i].activity = Begun(i, k + 1)
  <2> SUFFICES ASSUME NEW i \in 1 .. k + 1
               PROVE  g[2 * i].type = "scheduled" /\ g[2 * i].activity = Begun(i, k + 1)
    BY <1>1
  <2>1. CASE i \in 1 .. k
    <3>1. g[2 * i] = h[2 * i] /\ Begun(i, k + 1) = Begun(i, k)
      BY <1>1, <1>2, <2>1 DEF Begun
    <3>2. QED
      BY <2>1, <3>1 DEF Trace
  <2>2. CASE i = k + 1
    BY <1>1, <1>2, <2>2 DEF Begun
  <2>3. QED
    BY <1>1, <2>1, <2>2
<1>4. \A i \in 1 .. n : g[2 * i + 1] = h[2 * i + 1] /\ Begun(i, k + 1) = Begun(i, k)
  BY <1>1, <1>2 DEF Begun
<1>5. g[1] = h[1]
  BY <1>1, <1>2
<1>6. (k + 1) \in 0 .. Len(plan) /\ 0 \in 0 .. 1 /\ n \in 0 .. (k + 1) + 0 /\ (k + 1) + 0 <= n + 1
  BY <1>1 DEF Trace
<1>7. Len(g) \in {1 + (k + 1) + 0 + n, 2 + (k + 1) + 0 + n}
  BY <1>1, <1>2
<1>8. g[1].type = "execution_started"
  BY <1>5 DEF Trace
<1>9. \A i \in 1 .. (k + 1) + 0 : g[2 * i].type = "scheduled" /\ g[2 * i].activity = Begun(i, (k + 1))
  BY <1>3
<1>10. \A i \in 1 .. n :
        g[2 * i + 1].type \in P!ClosingType /\ g[2 * i + 1].activity = Begun(i, (k + 1))
  BY <1>1, <1>4 DEF Trace
<1>11. \A i \in 1 .. n : i < (k + 1) /\ plan[i] \in P!Known => g[2 * i + 1].type = "completed"
  BY <1>1, <1>4
<1>12. 0 = 1 => (k + 1) = Len(plan) \/ Fell(g, (k + 1))
  BY <1>1
<1>13. Len(g) = 2 + (k + 1) + 0 + n =>
        g[Len(g)].type \in {"execution_completed", "execution_failed", "execution_closed"}
  BY <1>1, <1>2
<1>14. QED
  BY <1>6, <1>7, <1>8, <1>9, <1>10, <1>11, <1>12, <1>13 DEF Trace, g

(* The publication begins.                                                 *)
LEMMA PublicationBegins ==
  ASSUME P!WorkflowConstants, plan \in Plans,
         NEW h \in Seq(HistoryEvent), NEW e \in HistoryEvent,
         NEW k, NEW n, Trace(h, k, 0, n), n = k, Len(h) = 1 + k + n,
         e.type = "scheduled", e.activity = "publish", k = Len(plan) \/ Fell(h, k)
  PROVE  Trace(Append(h, e), k, 1, n)
<1> DEFINE g == Append(h, e)
<1>1. k \in Nat /\ k <= Len(plan) /\ n \in Nat /\ Len(h) \in Nat /\ Len(plan) \in Nat
  BY TraceTypes
<1>2. /\ g \in Seq(HistoryEvent) /\ Len(g) = Len(h) + 1 /\ g[Len(h) + 1] = e
      /\ \A i \in 1 .. Len(h) : g[i] = h[i]
  BY Appended
<1>3. k = Len(plan) \/ Fell(g, k)
  BY <1>1, FellKept
<1> HIDE DEF g
<1>4. \A i \in 1 .. k + 1 : g[2 * i].type = "scheduled" /\ g[2 * i].activity = Begun(i, k)
  <2> SUFFICES ASSUME NEW i \in 1 .. k + 1
               PROVE  g[2 * i].type = "scheduled" /\ g[2 * i].activity = Begun(i, k)
    OBVIOUS
  <2>1. CASE i \in 1 .. k
    <3>1. g[2 * i] = h[2 * i]
      BY <1>1, <1>2, <2>1
    <3>2. QED
      BY <1>1, <2>1, <3>1 DEF Trace
  <2>2. CASE i = k + 1
    BY <1>1, <1>2, <2>2 DEF Begun
  <2>3. QED
    BY <1>1, <2>1, <2>2
<1>5. \A i \in 1 .. n : g[2 * i + 1] = h[2 * i + 1]
  BY <1>1, <1>2
<1>6. g[1] = h[1]
  BY <1>1, <1>2
<1>7. k \in 0 .. Len(plan) /\ 1 \in 0 .. 1 /\ n \in 0 .. k + 1 /\ k + 1 <= n + 1
  BY <1>1 DEF Trace
<1>8. Len(g) \in {1 + k + 1 + n, 2 + k + 1 + n}
  BY <1>1, <1>2
<1>9. g[1].type = "execution_started"
  BY <1>6 DEF Trace
<1>10. \A i \in 1 .. k + 1 : g[2 * i].type = "scheduled" /\ g[2 * i].activity = Begun(i, k)
  BY <1>4
<1>11. \A i \in 1 .. n :
        g[2 * i + 1].type \in P!ClosingType /\ g[2 * i + 1].activity = Begun(i, k)
  BY <1>1, <1>5 DEF Trace
<1>12. \A i \in 1 .. n : i < k /\ plan[i] \in P!Known => g[2 * i + 1].type = "completed"
  BY <1>1, <1>5 DEF Trace
<1>13. 1 = 1 => k = Len(plan) \/ Fell(g, k)
  BY <1>3
<1>14. Len(g) = 2 + k + 1 + n =>
        g[Len(g)].type \in {"execution_completed", "execution_failed", "execution_closed"}
  BY <1>1, <1>2
<1>15. QED
  BY <1>7, <1>8, <1>9, <1>10, <1>11, <1>12, <1>13, <1>14 DEF Trace, g

(* The activity that is open closes.                                       *)
LEMMA OpenOneCloses ==
  ASSUME P!WorkflowConstants, plan \in Plans,
         NEW h \in Seq(HistoryEvent), NEW e \in HistoryEvent,
         NEW k, NEW p, NEW n, Trace(h, k, p, n), k + p = n + 1, Len(h) = 1 + k + p + n,
         e.type \in P!ClosingType, e.activity = Begun(n + 1, k)
  PROVE  Trace(Append(h, e), k, p, n + 1)
<1> DEFINE g == Append(h, e)
<1>1. /\ k \in Nat /\ k <= Len(plan) /\ p \in {0, 1} /\ n \in Nat /\ Len(h) \in Nat
      /\ Len(plan) \in Nat
  BY TraceTypes
<1>2. /\ g \in Seq(HistoryEvent) /\ Len(g) = Len(h) + 1 /\ g[Len(h) + 1] = e
      /\ \A i \in 1 .. Len(h) : g[i] = h[i]
  BY Appended
<1>3. p = 1 => k = Len(plan) \/ Fell(g, k)
  BY <1>1, FellKept DEF Trace
<1> HIDE DEF g
<1>4. \A i \in 1 .. k + p : g[2 * i] = h[2 * i]
  <2>1. \A i \in 1 .. k + p : 2 * i \in 1 .. Len(h)
    BY <1>1
  <2>2. QED
    BY <1>2, <2>1
<1>5. \A i \in 1 .. n + 1 :
        /\ g[2 * i + 1].type \in P!ClosingType /\ g[2 * i + 1].activity = Begun(i, k)
        /\ i < k /\ plan[i] \in P!Known => g[2 * i + 1].type = "completed"
  <2> SUFFICES ASSUME NEW i \in 1 .. n + 1
               PROVE  /\ g[2 * i + 1].type \in P!ClosingType /\ g[2 * i + 1].activity = Begun(i, k)
                      /\ i < k /\ plan[i] \in P!Known => g[2 * i + 1].type = "completed"
    OBVIOUS
  <2>1. CASE i \in 1 .. n
    <3>1. g[2 * i + 1] = h[2 * i + 1]
      BY <1>1, <1>2, <2>1
    <3>2. QED
      BY <2>1, <3>1 DEF Trace
  <2>2. CASE i = n + 1
    <3>1. 2 * i + 1 = Len(h) + 1
      BY <1>1, <2>2
    <3>2. g[2 * i + 1] = e
      BY <1>2, <3>1
    <3>3. QED
      BY <1>1, <2>2, <3>2
  <2>3. QED
    BY <1>1, <2>1, <2>2
<1>6. g[1] = h[1]
  BY <1>1, <1>2
<1>7. k \in 0 .. Len(plan) /\ p \in 0 .. 1 /\ (n + 1) \in 0 .. k + p /\ k + p <= (n + 1) + 1
  BY <1>1
<1>8. Len(g) \in {1 + k + p + (n + 1), 2 + k + p + (n + 1)}
  BY <1>1, <1>2
<1>9. g[1].type = "execution_started"
  BY <1>6 DEF Trace
<1>10. \A i \in 1 .. k + p : g[2 * i].type = "scheduled" /\ g[2 * i].activity = Begun(i, k)
  BY <1>4 DEF Trace
<1>11. \A i \in 1 .. (n + 1) :
        g[2 * i + 1].type \in P!ClosingType /\ g[2 * i + 1].activity = Begun(i, k)
  BY <1>5
<1>12. \A i \in 1 .. (n + 1) : i < k /\ plan[i] \in P!Known => g[2 * i + 1].type = "completed"
  BY <1>5
<1>13. p = 1 => k = Len(plan) \/ Fell(g, k)
  BY <1>3
<1>14. Len(g) = 2 + k + p + (n + 1) =>
        g[Len(g)].type \in {"execution_completed", "execution_failed", "execution_closed"}
  BY <1>1, <1>2
<1>15. QED
  BY <1>7, <1>8, <1>9, <1>10, <1>11, <1>12, <1>13, <1>14 DEF Trace, g

(* The execution ends.                                                     *)
LEMMA TraceEnds ==
  ASSUME P!WorkflowConstants, plan \in Plans,
         NEW h \in Seq(HistoryEvent), NEW e \in HistoryEvent,
         NEW k, NEW p, NEW n, Trace(h, k, p, n), Len(h) = 1 + k + p + n,
         e.type \in {"execution_completed", "execution_failed", "execution_closed"}
  PROVE  Trace(Append(h, e), k, p, n)
<1> DEFINE g == Append(h, e)
<1>1. /\ k \in Nat /\ k <= Len(plan) /\ p \in {0, 1} /\ n \in Nat /\ Len(h) \in Nat
      /\ Len(plan) \in Nat /\ (n = k + p \/ k + p = n + 1)
  BY TraceTypes
<1>2. /\ g \in Seq(HistoryEvent) /\ Len(g) = Len(h) + 1 /\ g[Len(h) + 1] = e
      /\ \A i \in 1 .. Len(h) : g[i] = h[i]
  BY Appended
<1>3. p = 1 => k = Len(plan) \/ Fell(g, k)
  BY <1>1, FellKept DEF Trace
<1> HIDE DEF g
<1>4. \A i \in 1 .. k + p : g[2 * i] = h[2 * i]
  BY <1>1, <1>2
<1>5. \A i \in 1 .. n : g[2 * i + 1] = h[2 * i + 1]
  BY <1>1, <1>2
<1>6. g[1] = h[1]
  BY <1>1, <1>2
<1>7. Len(g) = 2 + k + p + n /\ g[Len(g)] = e
  BY <1>1, <1>2
<1>8. QED
  BY <1>3, <1>4, <1>5, <1>6, <1>7 DEF Trace, g

HistoryTraced == \E k, p, n : TraceInv(k, p, n)

LEMMA TraceOfInit == ASSUME P!WorkflowConstants, P!Init PROVE HistoryTraced
<1>1. /\ plan \in Plans /\ status = "running"
      /\ history = <<P!Event("execution_started", None)>>
  BY BegunAsPlanned
<1>2. Len(history) = 1 /\ history[1].type = "execution_started"
  BY <1>1, EventsAre
<1>3. Len(plan) \in Nat
  BY <1>1, PlanIsDistinct
<1>4. Trace(history, 0, 0, 0)
  BY <1>2, <1>3 DEF Trace
<1>5. TraceInv(0, 0, 0)
  BY <1>1, <1>2, <1>4 DEF TraceInv
<1>6. QED
  BY <1>5 DEF HistoryTraced

(* The plan stays, and so does what is said with it.                       *)
LEMMA TracePrimes ==
  ASSUME UNCHANGED plan, NEW k, NEW p, NEW n
  PROVE  Trace(history', k, p, n) <=> Trace(history, k, p, n)'
<1>1. \A i : Begun(i, k) = Begun(i, k)'
  BY DEF Begun
<1>2. Fell(history', k) <=> Fell(history, k)'
  BY DEF Fell
<1>3. QED
  BY <1>1, <1>2 DEF Trace

LEMMA TraceGoesOn ==
  ASSUME P!WorkflowConstants, HistoryInv, UNCHANGED plan, status = "running", status' = "running",
         NEW e \in HistoryEvent, history' = Append(history, e), e.type # "execution_completed",
         NEW k, NEW p, NEW n, Trace(history', k, p, n), Len(history) = k + p + n
  PROVE  HistoryTraced'
<1>1. /\ plan \in Plans /\ history \in Seq(HistoryEvent) /\ Len(history) \in Nat
      /\ \A i \in 1 .. Len(history) : history[i].type # "execution_completed"
  BY DEF HistoryInv, HistoryFits, ReturnsLast
<1>2. /\ Len(history') = Len(history) + 1 /\ history'[Len(history) + 1] = e
      /\ history' \in Seq(HistoryEvent)
      /\ \A i \in 1 .. Len(history) : history'[i] = history[i]
  BY <1>1, Appended
<1>3. k \in Nat /\ p \in {0, 1} /\ n \in Nat
  BY <1>1, <1>2, TraceTypes
<1>4. status' = "running" <=> Len(history') = 1 + k + p + n
  BY <1>2, <1>3
<1>5. \A i \in 1 .. Len(history') : history'[i].type # "execution_completed"
  BY <1>1, <1>2
<1>6. Trace(history, k, p, n)'
  BY TracePrimes
<1>7. TraceInv(k, p, n)'
  BY <1>4, <1>5, <1>6 DEF TraceInv
<1>8. QED
  BY <1>7 DEF HistoryTraced

LEMMA TraceIsOver ==
  ASSUME P!WorkflowConstants, HistoryInv, UNCHANGED plan, status = "running", status' # "running",
         NEW e \in HistoryEvent, history' = Append(history, e),
         e.type \in {"execution_completed", "execution_failed", "execution_closed"},
         NEW k, NEW p, NEW n, TraceInv(k, p, n),
         e.type = "execution_completed" => Tells(e.result, history, k, p, n)
  PROVE  HistoryTraced'
<1>1. /\ plan \in Plans /\ history \in Seq(HistoryEvent) /\ Len(history) \in Nat
      /\ \A i \in 1 .. Len(history) : history[i].type # "execution_completed"
  BY DEF HistoryInv, HistoryFits, ReturnsLast
<1>2. /\ Len(history') = Len(history) + 1 /\ history'[Len(history) + 1] = e
      /\ \A i \in 1 .. Len(history) : history'[i] = history[i]
  BY <1>1, Appended
<1>3. Trace(history, k, p, n) /\ Len(history) = 1 + k + p + n
  BY DEF TraceInv
<1>4. k \in Nat /\ p \in {0, 1} /\ n \in Nat
  BY <1>1, <1>3, TraceTypes
<1>5. Trace(history', k, p, n)
  BY <1>1, <1>3, TraceEnds
<1>6. ASSUME NEW i \in 1 .. Len(history'), history'[i].type = "execution_completed"
      PROVE  i = 2 + k + p + n /\ Tells(history'[i].result, history', k, p, n)
  <2>1. i = Len(history) + 1 /\ history'[i] = e
    BY <1>1, <1>2, <1>6
  <2>2. Tells(e.result, history, k, p, n)
    BY <1>6, <2>1
  <2>3. n = k + 1 /\ p = 1
    BY <2>2 DEF Tells
  <2>4. Fell(history', k) <=> Fell(history, k)
    BY <1>1, <1>3, <1>4, <2>3, FellKept
  <2>5. 2 * n + 1 \in 1 .. Len(history)
    BY <1>3, <1>4, <2>3
  <2>6. history'[2 * n + 1] = history[2 * n + 1]
    BY <1>2, <2>5
  <2>7. Tells(e.result, history', k, p, n)
    BY <2>2, <2>4, <2>6 DEF Tells
  <2>8. QED
    BY <1>3, <1>4, <2>1, <2>7
<1>7. Trace(history, k, p, n)'
  BY <1>5, TracePrimes
<1>8. \A i \in 1 .. Len(history') : history'[i].type = "execution_completed" =>
        i = 2 + k + p + n /\ Tells(history[i].result, history, k, p, n)'
  <2> SUFFICES ASSUME NEW i \in 1 .. Len(history'), history'[i].type = "execution_completed"
               PROVE  i = 2 + k + p + n /\ Tells(history[i].result, history, k, p, n)'
    OBVIOUS
  <2>1. i = 2 + k + p + n /\ Tells(history'[i].result, history', k, p, n)
    BY <1>6
  <2>2. Tells(history'[i].result, history', k, p, n) <=> Tells(history[i].result, history, k, p, n)'
    <3>1. (Fell(history', k) <=> Fell(history, k)') /\ P!Kind = P!Kind'
      BY DEF Fell, P!Kind
    <3>2. QED
      BY <3>1 DEF Tells
  <2>3. QED
    BY <2>1, <2>2
<1>9. status' = "running" <=> Len(history') = 1 + k + p + n
  BY <1>2, <1>3, <1>4
<1>10. TraceInv(k, p, n)'
  BY <1>7, <1>8, <1>9 DEF TraceInv
<1>11. QED
  BY <1>10 DEF HistoryTraced

LEMMA TraceOfSchedule ==
  ASSUME P!WorkflowConstants, HistoryInv, HistoryTraced, P!Schedule
  PROVE  HistoryTraced'
<1>1. /\ status = "running" /\ P!Open(history) = {} /\ P!CloseOf(history, "publish") = None
      /\ UNCHANGED <<plan, status>>
  BY DEF P!Schedule
<1>2. PICK i \in 1 .. Len(P!Steps) :
        P!IsNext(i, history) /\ history' = Append(history, P!Event("scheduled", P!Steps[i]))
  BY DEF P!Schedule
<1>3. plan \in Plans /\ history \in Seq(HistoryEvent) /\ ClosesOnce(history)
  BY DEF HistoryInv, HistoryFits
<1>4. PICK k, p, n : TraceInv(k, p, n)
  BY DEF HistoryTraced
<1>5. Trace(history, k, p, n) /\ Len(history) = 1 + k + p + n
  BY <1>1, <1>4 DEF TraceInv
<1>6. /\ Len(plan) \in Nat /\ k \in Nat /\ k <= Len(plan) /\ p \in {0, 1} /\ n \in Nat
      /\ (n = k + p \/ k + p = n + 1)
  BY <1>3, <1>5, TraceTypes
<1>7. /\ \A a : P!Scheduled(history, a) <=> \E j \in 1 .. k + p : a = Begun(j, k)
      /\ \A j \in 1 .. n : P!CloseOf(history, Begun(j, k)) = history[2 * j + 1].type
      /\ P!Open(history) = {Begun(j, k) : j \in n + 1 .. k + p}
  BY <1>3, <1>5, TraceSays
<1>8. n = k /\ p = 0
  <2>1. n = k + p
    <3>1. CASE k + p = n + 1
      <4>1. Begun(n + 1, k) \in P!Open(history)
        <5>1. n + 1 \in n + 1 .. k + p
          BY <1>6, <3>1
        <5>2. P!Open(history) = {Begun(j, k) : j \in n + 1 .. k + p}
          BY <1>7
        <5>3. QED
          BY <5>1, <5>2
      <4>2. QED
        BY <1>1, <4>1
    <3>2. QED
      BY <1>6, <3>1
  <2>2. ASSUME p = 1 PROVE FALSE
    <3>1. k + 1 \in 1 .. n /\ Begun(k + 1, k) = "publish"
      BY <1>6, <2>1, <2>2 DEF Begun
    <3>2. history[2 * (k + 1) + 1].type \in P!ClosingType
      BY <1>5, <3>1 DEF Trace
    <3>3. QED
      BY <1>1, <1>7, <3>1, <3>2 DEF P!WorkflowConstants
  <2>3. QED
    BY <1>6, <2>1, <2>2
<1>9. /\ P!Steps[i] \in Activity /\ Len(P!Steps) = Len(plan) + 1
      /\ P!Steps[Len(plan) + 1] = "publish" /\ \A j \in 1 .. Len(plan) : P!Steps[j] = plan[j]
  BY <1>2, <1>3, StepsAre
<1> DEFINE e == P!Event("scheduled", P!Steps[i])
<1>10. e \in HistoryEvent
  BY <1>9 DEF P!Event, HistoryEvent
<1>11. e.type = "scheduled" /\ e.activity = P!Steps[i]
  BY EventsAre
<1>12. history' = Append(history, e)
  BY <1>2
<1> HIDE DEF e
<1>13. Trace(history, k, 0, n) /\ Len(history) = 1 + k + n
  BY <1>5, <1>6, <1>8
<1>14. CASE P!Steps[i] = "publish" /\ (k = Len(plan) \/ Fell(history, k))
  <2>1. Trace(history', k, 1, n)
    BY <1>3, <1>8, <1>10, <1>11, <1>12, <1>13, <1>14, PublicationBegins
  <2>2. Len(history) = k + 1 + n
    BY <1>6, <1>13
  <2>3. QED
    BY <1>1, <1>10, <1>11, <1>12, <2>1, <2>2, TraceGoesOn
<1>15. CASE ~Fell(history, k)
  <2>1. P!Failed(history) = {}
    BY <1>3, <1>13, <1>15, FailedIs
  <2>2. ~P!Scheduled(history, P!Steps[i]) /\ \A j \in 1 .. i - 1 : P!Scheduled(history, P!Steps[j])
    BY <1>2, <2>1 DEF P!IsNext
  <2>3. \A j \in 1 .. Len(plan) : P!Scheduled(history, plan[j]) => j <= k
    <3> SUFFICES ASSUME NEW j \in 1 .. Len(plan), P!Scheduled(history, plan[j]) PROVE j <= k
      OBVIOUS
    <3>1. PICK l \in 1 .. k : plan[j] = plan[l]
      BY <1>6, <1>7, <1>8 DEF Begun
    <3>2. QED
      BY <1>3, <1>6, <3>1, PlanIsDistinct
  <2>4. \A j \in 1 .. k : P!Scheduled(history, plan[j])
    BY <1>6, <1>7, <1>8 DEF Begun
  <2>5. i = k + 1
    <3>1. CASE i <= k
      BY <1>6, <1>9, <2>2, <2>4, <3>1
    <3>2. CASE i > k + 1
      <4>1. k + 1 \in 1 .. Len(plan) /\ k + 1 \in 1 .. i - 1
        BY <1>2, <1>6, <1>9, <3>2
      <4>2. P!Scheduled(history, plan[k + 1])
        BY <1>9, <2>2, <4>1
      <4>3. QED
        BY <1>6, <2>3, <4>1, <4>2
    <3>3. QED
      BY <1>2, <1>6, <1>9, <3>1, <3>2
  <2>6. CASE k = Len(plan)
    BY <1>9, <1>14, <2>5, <2>6
  <2>7. CASE k < Len(plan)
    <3>1. e.activity = plan[k + 1]
      BY <1>6, <1>9, <1>11, <2>5, <2>7
    <3>2. \A j \in 1 .. n : plan[j] \in P!Known => history[2 * j + 1].type = "completed"
      <4>1. \A j \in 1 .. n : j < k /\ plan[j] \in P!Known => history[2 * j + 1].type = "completed"
        BY <1>13 DEF Trace
      <4>2. k > 0 /\ plan[k] \in P!Known => history[2 * k + 1].type = "completed"
        BY <1>15 DEF Fell
      <4>3. QED
        BY <1>6, <1>8, <4>1, <4>2
    <3>3. Trace(history', k + 1, 0, n)
      BY <1>3, <1>8, <1>10, <1>11, <1>12, <1>13, <2>7, <3>1, <3>2, NextOfPlan
    <3>4. Len(history) = (k + 1) + 0 + n
      BY <1>6, <1>13
    <3>5. QED
      BY <1>1, <1>10, <1>11, <1>12, <3>3, <3>4, TraceGoesOn
  <2>8. QED
    BY <1>6, <2>6, <2>7
<1>16. CASE Fell(history, k)
  <2>1. k <= n
    BY <1>6, <1>8
  <2>2. P!Failed(history) # {}
    BY <1>3, <1>13, <1>16, <2>1, FailedIs
  <2>3. P!Steps[i] = "publish"
    BY <1>2, <2>2 DEF P!IsNext
  <2>4. QED
    BY <1>14, <1>16, <2>3
<1>17. QED
  BY <1>15, <1>16

LEMMA TraceOfActivityCloses ==
  ASSUME P!WorkflowConstants, HistoryInv, HistoryTraced,
         NEW type \in P!ClosingType, P!ActivityCloses(type)
  PROVE  HistoryTraced'
<1>1. status = "running" /\ UNCHANGED <<plan, status>>
  BY DEF P!ActivityCloses
<1>2. PICK a \in P!Open(history) : history' = Append(history, P!Event(type, a))
  BY DEF P!ActivityCloses
<1>3. plan \in Plans /\ history \in Seq(HistoryEvent) /\ ClosesOnce(history)
  BY DEF HistoryInv, HistoryFits
<1>4. PICK k, p, n : TraceInv(k, p, n)
  BY DEF HistoryTraced
<1>5. Trace(history, k, p, n) /\ Len(history) = 1 + k + p + n
  BY <1>1, <1>4 DEF TraceInv
<1>6. k \in Nat /\ p \in {0, 1} /\ n \in Nat /\ (n = k + p \/ k + p = n + 1)
  BY <1>3, <1>5, TraceTypes
<1>7. PICK i \in n + 1 .. k + p : a = Begun(i, k)
  BY <1>3, <1>5, TraceSays
<1>8. k + p = n + 1 /\ i = n + 1
  BY <1>6
<1> DEFINE e == P!Event(type, a)
<1>9. e \in HistoryEvent
  BY DEF P!Event, HistoryEvent, P!Open, Activity
<1>10. e.type = type /\ e.activity = a
  BY EventsAre
<1>11. history' = Append(history, e)
  BY <1>2
<1> HIDE DEF e
<1>12. e.activity = Begun(n + 1, k) /\ e.type \in P!ClosingType /\ e.type # "execution_completed"
  BY <1>7, <1>8, <1>10 DEF P!ClosingType
<1>13. Trace(history', k, p, n + 1)
  BY <1>3, <1>5, <1>8, <1>9, <1>11, <1>12, OpenOneCloses
<1>14. Len(history) = k + p + (n + 1)
  BY <1>5, <1>6
<1>15. QED
  BY <1>1, <1>9, <1>11, <1>12, <1>13, <1>14, TraceGoesOn

LEMMA TraceOfReturn ==
  ASSUME P!WorkflowConstants, HistoryInv, HistoryTraced, P!Return
  PROVE  HistoryTraced'
<1>1. status = "running" /\ UNCHANGED plan /\ P!CloseOf(history, "publish") # None
  BY DEF P!Return
<1>2. plan \in Plans /\ history \in Seq(HistoryEvent) /\ ClosesOnce(history)
  BY DEF HistoryInv, HistoryFits
<1>3. PICK k, p, n : TraceInv(k, p, n)
  BY DEF HistoryTraced
<1>4. Trace(history, k, p, n)
  BY <1>3 DEF TraceInv
<1>5. k \in Nat /\ k <= Len(plan) /\ p \in {0, 1} /\ n \in Nat /\ (n = k + p \/ k + p = n + 1)
  BY <1>2, <1>4, TraceTypes
<1>6. n = k + 1 /\ p = 1 /\ P!CloseOf(history, "publish") = history[2 * n + 1].type
  <2>1. PICK i \in 1 .. n : "publish" = Begun(i, k)
    BY <1>1, <1>2, <1>4, TraceSays
  <2>2. i \in 1 .. k + p
    BY <1>5
  <2>3. k \in 0 .. Len(plan) /\ p \in 0 .. 1
    BY <1>4 DEF Trace
  <2>4. i = k + 1
    BY <1>2, <2>1, <2>2, <2>3, BegunAre
  <2>5. n = k + 1 /\ p = 1
    BY <1>5, <2>2, <2>4
  <2>6. QED
    BY <1>2, <1>4, <2>1, <2>4, <2>5, TraceSays
<1>7. CASE P!CloseOf(history, "publish") = "completed"
  <2> DEFINE r == P!Outcome(history)
             e == P!ExecutionCompleted(r)
  <2>1. status' = "completed" /\ history' = Append(history, e)
    BY <1>7 DEF P!Return
  <2>2. /\ Fell(history, k) => P!Failed(history) = {plan[k]}
        /\ ~Fell(history, k) => P!Failed(history) = {}
    BY <1>2, <1>4, <1>5, <1>6, FailedIs
  <2>3. P!Kind \in {"render", "deployment"}
    BY DEF P!Kind
  <2>4. /\ r.type = P!Kind
        /\ r.succeeded <=> ~Fell(history, k)
        /\ r.stage = IF Fell(history, k) /\ P!Kind = "deployment" THEN plan[k] ELSE None
    BY <2>2, <2>3 DEF P!Outcome
  <2>5. r \in Results
    <3>1. Fell(history, k) => plan[k] \in Activity
      BY DEF Fell, Activity
    <3>2. P!Failed(history) # {} => (CHOOSE a \in P!Failed(history) : TRUE) \in Activity
      BY <2>2, <3>1
    <3>3. QED
      BY <2>3, <3>2 DEF P!Outcome, Results
  <2>6. e \in HistoryEvent
    BY <2>5 DEF P!ExecutionCompleted, HistoryEvent
  <2>7. e.type = "execution_completed" /\ e.result = r
    BY EventsAre
  <2> HIDE DEF e, r
  <2>8. Tells(e.result, history, k, p, n)
    BY <1>6, <1>7, <2>4, <2>7 DEF Tells
  <2>9. QED
    BY <1>1, <1>3, <2>1, <2>6, <2>7, <2>8, TraceIsOver
<1>8. CASE P!CloseOf(history, "publish") # "completed"
  <2> DEFINE e == P!Event("execution_failed", None)
  <2>1. status' = "failed" /\ history' = Append(history, e)
    BY <1>8 DEF P!Return
  <2>2. e \in HistoryEvent
    BY DEF P!Event, HistoryEvent
  <2>3. e.type = "execution_failed"
    BY EventsAre
  <2> HIDE DEF e
  <2>4. QED
    BY <1>1, <1>3, <2>1, <2>2, <2>3, TraceIsOver
<1>9. QED
  BY <1>7, <1>8

LEMMA TraceOfEnd ==
  ASSUME P!WorkflowConstants, HistoryInv, HistoryTraced,
         NEW s \in {"timed_out", "canceled", "terminated"}, P!EndedFromOutside(s)
  PROVE  HistoryTraced'
<1> DEFINE e == P!Event("execution_closed", None)
<1>1. /\ status = "running" /\ status' = s /\ UNCHANGED plan
      /\ history' = Append(history, e)
  BY DEF P!EndedFromOutside
<1>2. e \in HistoryEvent
  BY DEF P!Event, HistoryEvent
<1>3. e.type = "execution_closed"
  BY EventsAre
<1> HIDE DEF e
<1>4. PICK k, p, n : TraceInv(k, p, n)
  BY DEF HistoryTraced
<1>5. QED
  BY <1>1, <1>2, <1>3, <1>4, TraceIsOver

LEMMA TraceUnchanged == ASSUME HistoryTraced, UNCHANGED P!execution PROVE HistoryTraced'
<1>1. plan' = plan /\ status' = status /\ history' = history
  BY DEF P!execution
<1>2. PICK k, p, n : TraceInv(k, p, n)
  BY DEF HistoryTraced
<1>3. Trace(history, k, p, n)'
  BY <1>1, <1>2, TracePrimes DEF TraceInv
<1>4. \A r : Tells(r, history, k, p, n) => Tells(r, history, k, p, n)'
  BY <1>1 DEF Tells, Fell, P!Kind
<1>5. TraceInv(k, p, n)'
  BY <1>1, <1>2, <1>3, <1>4 DEF TraceInv
<1>6. QED
  BY <1>5 DEF HistoryTraced

-----------------------------------------------------------------------------
(* Every read is made of what the UI knows.                                *)

LEMMA SmallestIs == ASSUME NEW S, S \subseteq Nat, S # {} PROVE \E x \in S : \A y \in S : x <= y
<1> DEFINE R == OpToRel(<, Nat)
<1>1. IsWellFoundedOn(R, Nat)
  BY NatLessThanWellFounded
<1>2. \A x, y \in Nat : x < y => <<x, y>> \in R
  BY DEF OpToRel
<1> HIDE DEF R
<1>3. PICK x \in S : \A y \in S : ~ (<<y, x>> \in R)
  BY <1>1, WFMin
<1>4. \A y \in S : x <= y
  <2> TAKE y \in S
  <2>1. x \in Nat /\ y \in Nat /\ <<y, x>> \notin R
    BY <1>3
  <2>2. ~(y < x)
    BY <1>2, <2>1
  <2>3. QED
    BY <2>1, <2>2
<1>5. QED
  BY <1>4

LEMMA MinAndMax ==
  ASSUME NEW n \in Nat, NEW S, S \subseteq 1 .. n, S # {}
  PROVE  P!Min(S) \in S /\ P!Max(S) \in S
<1>1. \E x \in S : \A y \in S : x <= y
  <2>1. S \subseteq Nat
    OBVIOUS
  <2>2. QED
    BY <2>1, SmallestIs
<1>2. \E x \in S : \A y \in S : x >= y
  <2> DEFINE C == {n - x : x \in S}
  <2>1. C \subseteq Nat /\ C # {}
    OBVIOUS
  <2>2. PICK c \in C : \A d \in C : c <= d
    <3> HIDE DEF C
    <3>1. QED
      BY <2>1, SmallestIs
  <2>3. PICK x \in S : c = n - x
    OBVIOUS
  <2>4. \A y \in S : n - x <= n - y
    BY <2>2, <2>3
  <2>5. \A y \in S : x >= y
    <3> TAKE y \in S
    <3>1. x \in Nat /\ y \in Nat /\ n - x <= n - y
      BY <2>4
    <3>2. QED
      BY <3>1
  <2>6. QED
    BY <2>5
<1>3. QED
  BY <1>1, <1>2 DEF P!Min, P!Max

(* A timeline as the UI knows it.                                          *)
Timelines == {s \in Seq(P!StageType) : Len(s) > 0}

LEMMA StagesAreTyped ==
  /\ \A e : P!ClosedStage(e) \in P!StageType
  /\ \A e, s : P!OpenStage(e, s) \in P!StageType
  /\ \A k \in P!StageKey, c \in {None, "activity_failed", "classified"},
        s \in {"completed", "running", "failed", "not_reached", "unknown"} :
       P!Stage(k, s, c) \in P!StageType
  /\ \A a : P!KeyOf(a) \in P!StageKey
BY DEF P!ClosedStage, P!OpenStage, P!Stage, P!StageType, P!KeyOf, P!StageKey, P!Known

(* Each position of a selection makes a stage.                             *)
LEMMA SelectionIsFinite ==
  ASSUME NEW n \in Nat, NEW I, I \subseteq 1 .. n, NEW s
  PROVE  DOMAIN P!At(s, I) = 1 .. Cardinality(I) /\ Cardinality(I) \in Nat
<1>1. IsFiniteSet(1 .. n)
  BY FS_Interval
<1>2. IsFiniteSet(I)
  BY <1>1, FS_Subset
<1>3. Cardinality(I) \in Nat
  BY <1>2, FS_CardinalityType
<1>4. QED
  BY <1>3, SameCardinality DEF P!At

LEMMA FromHistoryIsTyped ==
  ASSUME NEW h \in Seq(HistoryEvent), NEW s
  PROVE  P!FromHistory(h, s) \in Timelines
<1> DEFINE C == {i \in DOMAIN h : h[i].type \in P!ClosingType}
           O == {i \in DOMAIN h : h[i].type = "scheduled" /\ h[i].activity \in P!Open(h)}
           first == <<P!Stage("workflow", "completed", None)>>
           ends == P!At(h, C)
           begins == P!At(h, O)
           closings == [i \in DOMAIN ends |-> P!ClosedStage(ends[i])]
           open == [i \in DOMAIN begins |-> P!OpenStage(begins[i], s)]
<1>1. C \subseteq 1 .. Len(h) /\ O \subseteq 1 .. Len(h) /\ Len(h) \in Nat
  OBVIOUS
<1>2. P!FromHistory(h, s) = first \o closings \o open
  BY DEF P!FromHistory, P!OpenIn
<1> HIDE DEF C, O
<1>3. /\ DOMAIN ends = 1 .. Cardinality(C) /\ Cardinality(C) \in Nat
      /\ DOMAIN begins = 1 .. Cardinality(O) /\ Cardinality(O) \in Nat
  BY <1>1, SelectionIsFinite
<1> HIDE DEF ends, begins
<1>4. closings \in Seq(P!StageType) /\ open \in Seq(P!StageType)
  <2>1. closings \in Seq(P!StageType)
    BY <1>3, StagesAreTyped
  <2>2. open \in Seq(P!StageType)
    BY <1>3, StagesAreTyped
  <2>3. QED
    BY <2>1, <2>2
<1>5. first \in Seq(P!StageType) /\ Len(first) = 1
  BY StagesAreTyped DEF P!StageKey
<1> HIDE DEF first, closings, open
<1>6. QED
  BY <1>2, <1>4, <1>5 DEF Timelines

LEMMA WithPendingIsTyped ==
  ASSUME NEW stages \in Timelines, NEW h, NEW desc, NEW n \in Nat, DOMAIN desc.pending = 1 .. n
  PROVE  P!WithPending(stages, h, desc) \in Timelines
<1> DEFINE M == {i \in DOMAIN desc.pending :
                   /\ desc.pending[i] \notin P!Open(h)
                   /\ ~P!Has(stages, P!KeyOf(desc.pending[i]), "running")}
           missing == P!At(desc.pending, M)
           added == [i \in DOMAIN missing |->
              P!Stage(P!KeyOf(missing[i]),
                IF missing[i] \in P!Known /\ desc.status = "running" THEN "running" ELSE "unknown",
                None)]
<1>1. P!WithPending(stages, h, desc) = stages \o added
  BY DEF P!WithPending
<1>2. M \subseteq 1 .. n
  OBVIOUS
<1> HIDE DEF M
<1>3. DOMAIN missing = 1 .. Cardinality(M) /\ Cardinality(M) \in Nat
  BY <1>2, SelectionIsFinite
<1> HIDE DEF missing
<1>4. added \in Seq(P!StageType)
  BY <1>3, StagesAreTyped
<1> HIDE DEF added
<1>5. QED
  BY <1>1, <1>4 DEF Timelines

(* What a failure keeps from being reached are the stages after its own.   *)
LEMMA NotReachedIs ==
  ASSUME NEW stages, NEW k \in 1 .. 3
  PROVE  \E I \in SUBSET (k + 1 .. 3) :
           /\ I = {j \in k + 1 .. 3 : P!Pipeline[j] \notin P!Keys(stages)}
           /\ P!NotReached(stages, P!Pipeline[k]) =
                [i \in DOMAIN P!At(P!Pipeline, I) |->
                   P!Stage(P!At(P!Pipeline, I)[i], "not_reached", None)]
<1> DEFINE I == {j \in DOMAIN P!Pipeline :
                   /\ \E i \in 1 .. j - 1 : P!Pipeline[i] = P!Pipeline[k]
                   /\ P!Pipeline[j] \notin P!Keys(stages)}
<1>1. /\ DOMAIN P!Pipeline = 1 .. 3
      /\ \A i, j \in 1 .. 3 : P!Pipeline[i] = P!Pipeline[j] => i = j
  BY DEF P!Pipeline
<1>2. \A j \in 1 .. 3 : (\E i \in 1 .. j - 1 : P!Pipeline[i] = P!Pipeline[k]) <=> j \in k + 1 .. 3
  BY <1>1
<1>3. I = {j \in k + 1 .. 3 : P!Pipeline[j] \notin P!Keys(stages)}
  BY <1>1, <1>2
<1>4. P!NotReached(stages, P!Pipeline[k]) =
        [i \in DOMAIN P!At(P!Pipeline, I) |-> P!Stage(P!At(P!Pipeline, I)[i], "not_reached", None)]
  BY DEF P!NotReached
<1>5. I \in SUBSET (k + 1 .. 3)
  BY <1>3
<1> HIDE DEF I
<1>6. QED
  BY <1>3, <1>4, <1>5

LEMMA NotReachedIsTyped ==
  ASSUME NEW stages, NEW k \in 1 .. 3
  PROVE  P!NotReached(stages, P!Pipeline[k]) \in Seq(P!StageType)
<1>1. PICK I \in SUBSET (k + 1 .. 3) :
        P!NotReached(stages, P!Pipeline[k]) =
          [i \in DOMAIN P!At(P!Pipeline, I) |-> P!Stage(P!At(P!Pipeline, I)[i], "not_reached", None)]
  BY NotReachedIs
<1>2. \A j \in 1 .. 3 : P!Pipeline[j] \in P!StageKey
  BY DEF P!Pipeline, P!StageKey, P!Known
<1>3. I \in SUBSET {2, 3}
  OBVIOUS
<1>4. I = {} \/ I = {2} \/ I = {3} \/ I = 2 .. 3
  <2>1. I \subseteq {2, 3}
    BY <1>3
  <2>2. I = {} \/ I = {2} \/ I = {3} \/ I = {2, 3}
    BY <2>1
  <2>3. 2 .. 3 = {2, 3}
    OBVIOUS
  <2>4. QED
    BY <2>2, <2>3
<1>5. \E m \in Nat : /\ DOMAIN P!At(P!Pipeline, I) = 1 .. m
                     /\ \A i \in 1 .. m : P!At(P!Pipeline, I)[i] \in P!StageKey
  <2>1. CASE I = {}
    <3>1. P!At(P!Pipeline, {}) = << >> /\ 0 \in Nat
      BY AtNone
    <3>2. DOMAIN P!At(P!Pipeline, I) = 1 .. 0
      BY <2>1, <3>1
    <3>3. QED
      BY <3>2
  <2>2. ASSUME NEW b \in {2, 3}, I = {b}
        PROVE  \E m \in Nat : /\ DOMAIN P!At(P!Pipeline, I) = 1 .. m
                     /\ \A i \in 1 .. m : P!At(P!Pipeline, I)[i] \in P!StageKey
    <3>1. DOMAIN P!At(P!Pipeline, {b}) = 1 .. 1 /\ P!At(P!Pipeline, {b})[1] = P!Pipeline[b]
      <4>1. b \in Nat
        OBVIOUS
      <4>2. QED
        BY <4>1, AtOne
    <3>2. /\ DOMAIN P!At(P!Pipeline, I) = 1 .. 1
          /\ \A i \in 1 .. 1 : P!At(P!Pipeline, I)[i] \in P!StageKey
      BY <1>2, <2>2, <3>1
    <3>3. QED
      BY <3>2
  <2>3. CASE I = 2 .. 3
    <3>1. PICK a \in Nat, b \in Nat : a = 2 /\ b = 3 /\ a <= b + 1
      OBVIOUS
    <3>2. ReadsOff(P!At(P!Pipeline, a .. b), P!Pipeline, a, b)
      BY <3>1, AtInterval
    <3>3. /\ DOMAIN P!At(P!Pipeline, I) = 1 .. 2
          /\ \A i \in 1 .. 2 : P!At(P!Pipeline, I)[i] = P!Pipeline[2 + i - 1]
      BY <2>3, <3>1, <3>2 DEF ReadsOff
    <3>4. \A i \in 1 .. 2 : P!Pipeline[2 + i - 1] \in P!StageKey
      BY <1>2
    <3>5. QED
      BY <3>3, <3>4
  <2>4. QED
    BY <1>4, <2>1, <2>2, <2>3
<1>6. QED
  BY <1>1, <1>5, StagesAreTyped

(* Three lists of stages, one after the other.                             *)
Splices(all, a, b, c) ==
  /\ all \in Seq(P!StageType) /\ Len(all) = Len(a) + Len(b) + Len(c)
  /\ Len(a) \in Nat /\ Len(b) \in Nat /\ Len(c) \in Nat
  /\ \A i \in 1 .. Len(a) : all[i] = a[i]
  /\ \A i \in 1 .. Len(b) : all[Len(a) + i] = b[i]
  /\ \A i \in 1 .. Len(c) : all[Len(a) + Len(b) + i] = c[i]

LEMMA SplicedIs ==
  ASSUME NEW a \in Seq(P!StageType), NEW b \in Seq(P!StageType), NEW c \in Seq(P!StageType)
  PROVE  Splices(a \o b \o c, a, b, c)
BY DEF Splices

(* WithFailure, for the failure an execution can report.                   *)
LEMMA WithFailureIsTyped ==
  ASSUME NEW stages \in Timelines, NEW r,
         ~(r = None \/ r.succeeded \/ r.type = "render") => \E k \in 1 .. 3 : r.stage = P!Pipeline[k]
  PROVE  P!WithFailure(stages, r) \in Timelines
<1>1. CASE r = None \/ r.succeeded \/ r.type = "render"
  BY <1>1 DEF P!WithFailure
<1>2. CASE ~(r = None \/ r.succeeded \/ r.type = "render")
  <2>1. PICK k \in 1 .. 3 : r.stage = P!Pipeline[k]
    BY <1>2
  <2> DEFINE f == r.stage
             named == IF f \in P!Keys(stages) THEN stages
                      ELSE P!InsertAt(stages, 2, P!Stage(f, "failed", "classified"))
             failed == P!Stage(f, "failed", "classified")
  <2>2. f \in P!StageKey
    BY <2>1 DEF P!Pipeline, P!StageKey, P!Known
  <2>3. failed \in P!StageType
    BY <2>2, StagesAreTyped
  <2>4. named \in Timelines
    <3>1. P!InsertAt(stages, 2, failed) =
            SubSeq(stages, 1, 2 - 1) \o <<failed>> \o SubSeq(stages, 2, Len(stages))
      BY DEF P!InsertAt
    <3>2. stages \in Seq(P!StageType) /\ Len(stages) \in Nat /\ Len(stages) > 0
      BY DEF Timelines
    <3>3. SubSeq(stages, 1, 2 - 1) \in Seq(P!StageType) /\ SubSeq(stages, 2, Len(stages)) \in Seq(P!StageType)
      BY <3>2
    <3>4. <<failed>> \in Seq(P!StageType) /\ Len(<<failed>>) = 1
      BY <2>3
    <3> DEFINE a == SubSeq(stages, 1, 2 - 1)
               b == <<failed>>
               c == SubSeq(stages, 2, Len(stages))
    <3>5. a \in Seq(P!StageType) /\ b \in Seq(P!StageType) /\ c \in Seq(P!StageType) /\ Len(b) = 1
      BY <3>3, <3>4
    <3>6. P!InsertAt(stages, 2, failed) = a \o b \o c
      BY <3>1
    <3> HIDE DEF a, b, c, failed
    <3>7. /\ a \o b \o c \in Seq(P!StageType) /\ Len(a \o b \o c) = Len(a) + Len(b) + Len(c)
          /\ Len(a) \in Nat /\ Len(c) \in Nat
      <4>1. Splices(a \o b \o c, a, b, c)
        BY <3>5, SplicedIs, Zenon
      <4>2. QED
        BY <4>1, <3>5 DEF Splices
    <3>8. Len(a) + Len(b) + Len(c) > 0
      <4>1. Len(a) \in Nat /\ Len(b) = 1 /\ Len(c) \in Nat
        BY <3>5, <3>7
      <4>2. QED
        BY <4>1
    <3> DEFINE spliced == a \o b \o c
    <3>9. spliced \in Seq(P!StageType) /\ Len(spliced) > 0
      BY <3>7, <3>8
    <3> HIDE DEF spliced
    <3>10. spliced \in Timelines
      BY <3>9 DEF Timelines
    <3>11. QED
      BY <3>6, <3>10 DEF failed, spliced
  <2> DEFINE at == P!SelectInSeq(named, LAMBDA s : s.key = f)
             all == P!InsertNotReached(named, f)
  <2>5. P!WithFailure(stages, r) =
          [i \in DOMAIN all |->
             IF all[i].key = f /\ all[i].status = "failed" THEN failed ELSE all[i]]
    BY <1>2 DEF P!WithFailure
  <2>6. all = SubSeq(named, 1, at) \o P!NotReached(named, f) \o SubSeq(named, at + 1, Len(named))
    BY DEF P!InsertNotReached
  <2> HIDE DEF named, failed
  <2>7. named \in Seq(P!StageType) /\ Len(named) \in Nat /\ Len(named) > 0
    BY <2>4 DEF Timelines
  <2>8. at \in 0 .. Len(named)
    <3> DEFINE I == {i \in 1 .. Len(named) : named[i].key = f}
    <3>1. at = IF I # {} THEN P!Min(I) ELSE 0
      BY DEF P!SelectInSeq
    <3>2. I \subseteq 1 .. Len(named)
      OBVIOUS
    <3> HIDE DEF I, at
    <3>3. I # {} => P!Min(I) \in I
      BY <2>7, <3>2, MinAndMax
    <3>4. (I # {} => at \in 1 .. Len(named)) /\ (I = {} => at = 0)
      BY <3>1, <3>2, <3>3
    <3>5. QED
      BY <2>7, <3>4
  <2> HIDE DEF at
  <2>9. /\ SubSeq(named, 1, at) \in Seq(P!StageType) /\ Len(SubSeq(named, 1, at)) = at
        /\ SubSeq(named, at + 1, Len(named)) \in Seq(P!StageType)
        /\ Len(SubSeq(named, at + 1, Len(named))) = Len(named) - at
    BY <2>7, <2>8
  <2>10. P!NotReached(named, f) \in Seq(P!StageType)
    BY <2>1, NotReachedIsTyped
  <2> HIDE DEF all
  <2>11. all \in Seq(P!StageType) /\ Len(all) \in Nat /\ Len(all) > 0
    <3> DEFINE a == SubSeq(named, 1, at)
               b == P!NotReached(named, f)
               c == SubSeq(named, at + 1, Len(named))
    <3>1. a \in Seq(P!StageType) /\ b \in Seq(P!StageType) /\ c \in Seq(P!StageType)
      BY <2>9, <2>10
    <3>2. all = a \o b \o c
      BY <2>6
    <3>3. Len(a) = at /\ Len(c) = Len(named) - at
      BY <2>9
    <3> HIDE DEF a, b, c
    <3>4. Len(a) + Len(c) > 0 /\ Len(a) \in Nat /\ Len(c) \in Nat
      BY <2>7, <2>8, <3>3
    <3>5. /\ a \o b \o c \in Seq(P!StageType) /\ Len(a \o b \o c) = Len(a) + Len(b) + Len(c)
          /\ Len(b) \in Nat
      BY <3>1, SplicedIs DEF Splices
    <3>6. QED
      BY <3>2, <3>4, <3>5
  <2>12. QED
    BY <2>3, <2>5, <2>11 DEF Timelines
<1>3. QED
  BY <1>1, <1>2

LEMMA WithFinalizingIsTyped ==
  ASSUME NEW stages \in Timelines, NEW s
  PROVE  P!WithFinalizing(stages, s) \in Timelines
<1>1. P!Stage("finalizing", "running", None) \in P!StageType
  BY StagesAreTyped DEF P!StageKey
<1>2. Append(stages, P!Stage("finalizing", "running", None)) \in Timelines
  BY <1>1 DEF Timelines
<1>3. QED
  BY <1>2 DEF P!WithFinalizing

LEMMA CurrentIsTyped ==
  ASSUME NEW stages \in Timelines
  PROVE  P!Current(stages) \in P!StageKey \cup {None}
<1> DEFINE I == {i \in 1 .. Len(stages) : stages[i].status \in {"running", "failed", "unknown"}}
           at == P!SelectLastInSeq(stages, LAMBDA s : s.status \in {"running", "failed", "unknown"})
<1>1. at = IF I # {} THEN P!Max(I) ELSE 0
  BY DEF P!SelectLastInSeq
<1>2. P!Current(stages) = IF at # 0 THEN stages[at].key
                          ELSE IF Len(stages) = 1 THEN None ELSE P!Last(stages).key
  BY DEF P!Current
<1>3. I \subseteq 1 .. Len(stages)
  OBVIOUS
<1>4. stages \in Seq(P!StageType) /\ Len(stages) \in Nat /\ Len(stages) > 0
  BY DEF Timelines
<1> HIDE DEF I, at
<1>5. I # {} => P!Max(I) \in I
  BY <1>3, <1>4, MinAndMax
<1>6. at # 0 => at \in 1 .. Len(stages)
  BY <1>1, <1>3, <1>5
<1>7. \A i \in 1 .. Len(stages) : stages[i].key \in P!StageKey
  <2>1. \A i \in 1 .. Len(stages) : stages[i] \in P!StageType
    BY <1>4
  <2>2. QED
    BY <2>1 DEF P!StageType
<1>8. P!Last(stages) = stages[Len(stages)] /\ Len(stages) \in 1 .. Len(stages)
  BY <1>4 DEF P!Last
<1>9. QED
  BY <1>2, <1>6, <1>7, <1>8

-----------------------------------------------------------------------------
(* What a closed execution is shown as.                                    *)

LEMMA AtLen ==
  ASSUME NEW s, NEW I, NEW m \in Nat, DOMAIN P!At(s, I) = 1 .. m
  PROVE  Len(P!At(s, I)) = m
<1> DEFINE f == P!At(s, I)
           S == {f[i] : i \in 1 .. m}
<1>1. f = [i \in 1 .. m |-> f[i]]
  BY DEF P!At
<1>2. \A i \in 1 .. m : f[i] \in S
  OBVIOUS
<1> HIDE DEF f, S
<1>3. f \in [1 .. m -> S]
  BY <1>1, <1>2
<1>4. f \in Seq(S) /\ Len(f) = m
  BY <1>3
<1>5. QED
  BY <1>4 DEF f

(* The result comes with the event that ends the execution.                *)
LEMMA ResultIs ==
  ASSUME P!WorkflowConstants, plan \in Plans, history \in Seq(HistoryEvent),
         NEW k, NEW p, NEW n, TraceInv(k, p, n), P!ResultIn(history) # None
  PROVE  status # "running" /\ Tells(P!ResultIn(history), history, k, p, n)
<1>1. PICK i \in 1 .. Len(history) :
        history[i].type = "execution_completed" /\ P!ResultIn(history) = history[i].result
  BY DEF P!ResultIn
<1>2. i = 2 + k + p + n /\ Tells(P!ResultIn(history), history, k, p, n)
  BY <1>1 DEF TraceInv
<1>3. Trace(history, k, p, n)
  BY DEF TraceInv
<1>4. k \in Nat /\ p \in {0, 1} /\ n \in Nat /\ Len(history) \in Nat
  BY <1>3, TraceTypes
<1>5. Len(history) # 1 + k + p + n
  BY <1>2, <1>4
<1>6. QED
  BY <1>2, <1>5 DEF TraceInv

Fails(r) == ~(r = None \/ r.succeeded \/ r.type = "render")

LEMMA FailureIs ==
  ASSUME P!WorkflowConstants, plan \in Plans, history \in Seq(HistoryEvent),
         NEW k, NEW p, NEW n, TraceInv(k, p, n), Fails(P!ResultIn(history))
  PROVE  /\ P!Kind = "deployment" /\ k \in 1 .. 3 /\ Len(plan) \in 3 .. 4 /\ p = 1 /\ n = k + 1
         /\ Fell(history, k) /\ history[2 * n + 1].type = "completed"
         /\ \A i \in 1 .. 3 : plan[i] = P!Pipeline[i]
         /\ P!ResultIn(history).stage = P!Pipeline[k]
<1> DEFINE r == P!ResultIn(history)
<1>1. r # None /\ ~r.succeeded /\ r.type # "render"
  BY DEF Fails
<1>2. Tells(r, history, k, p, n)
  BY <1>1, ResultIs
<1> HIDE DEF r
<1>3. P!Kind = "deployment"
  BY <1>1, <1>2 DEF Tells, P!Kind
<1>4. Fell(history, k)
  BY <1>1, <1>2 DEF Tells
<1>5. Trace(history, k, p, n)
  BY DEF TraceInv
<1>6. k \in Nat /\ k <= Len(plan) /\ Len(plan) \in Nat
  BY <1>5, TraceTypes
<1>7. k \in 1 .. Len(plan) /\ plan[k] \in P!Known
  BY <1>4, <1>6 DEF Fell
<1>8. k \in 1 .. 3
  BY <1>7, PlanIsDistinct
<1>9. Len(plan) \in 3 .. 4 /\ plan[1] = "prepare" /\ plan[2] = "deploy" /\ plan[3] = "validate"
  BY <1>3, PlanIs
<1>10. \A i \in 1 .. 3 : plan[i] = P!Pipeline[i]
  BY <1>9 DEF P!Pipeline
<1>11. QED
  BY <1>2, <1>3, <1>4, <1>8, <1>9, <1>10 DEF Tells, r

(* What the history proves of each activity.                               *)
LEMMA ProvedIs ==
  ASSUME P!WorkflowConstants, plan \in Plans, history \in Seq(HistoryEvent), ClosesOnce(history),
         NEW k, NEW p, NEW n, Trace(history, k, p, n)
  PROVE  /\ P!Proved(None) = "completed"
         /\ \A j \in 1 .. k + p : P!Proved(Begun(j, k)) =
              IF Begun(j, k) \notin P!Known \/ j > n \/ history[2 * j + 1].type = "canceled"
                THEN "unknown"
              ELSE IF history[2 * j + 1].type = "completed" THEN "completed" ELSE "failed"
         /\ \A j \in k + 1 .. Len(plan) : P!Proved(plan[j]) =
              IF P!ResultIn(history) # None THEN "not_reached" ELSE None
         /\ p = 0 => P!Proved("publish") = None
<1>1. /\ k \in Nat /\ k <= Len(plan) /\ p \in {0, 1} /\ n \in Nat /\ Len(plan) \in Nat
      /\ (n = k + p \/ k + p = n + 1) /\ k \in 0 .. Len(plan) /\ p \in 0 .. 1
  BY TraceTypes DEF Trace
<1>2. /\ \A a : P!Scheduled(history, a) <=> \E i \in 1 .. k + p : a = Begun(i, k)
      /\ \A i \in 1 .. n : P!CloseOf(history, Begun(i, k)) = history[2 * i + 1].type
      /\ \A a : P!CloseOf(history, a) # None => \E i \in 1 .. n : a = Begun(i, k)
  BY TraceSays
<1>3. /\ \A i, j \in 1 .. k + p : Begun(i, k) = Begun(j, k) => i = j
      /\ \A i \in 1 .. k + p : Begun(i, k) \in Activity
  BY <1>1, BegunAre
<1>4. \A a \in Activity : a # None
  BY DEF Activity, P!WorkflowConstants
<1>5. ASSUME NEW j \in 1 .. k + p
      PROVE  P!Proved(Begun(j, k)) =
               IF Begun(j, k) \notin P!Known \/ j > n \/ history[2 * j + 1].type = "canceled"
                 THEN "unknown"
               ELSE IF history[2 * j + 1].type = "completed" THEN "completed" ELSE "failed"
  <2>1. Begun(j, k) # None /\ P!Scheduled(history, Begun(j, k))
    BY <1>2, <1>3, <1>4
  <2>2. CASE j <= n
    <3>1. j \in 1 .. n
      BY <1>1, <2>2
    <3>2. P!CloseOf(history, Begun(j, k)) = history[2 * j + 1].type
      BY <1>2, <3>1
    <3>3. history[2 * j + 1].type \in P!ClosingType
      BY <3>1 DEF Trace
    <3>4. history[2 * j + 1].type # None /\ ~(j > n)
      BY <1>1, <2>2, <3>3 DEF P!WorkflowConstants
    <3>5. QED
      BY <2>1, <3>2, <3>4 DEF P!Proved
  <2>3. CASE j > n
    <3>1. \A i \in 1 .. n : Begun(j, k) # Begun(i, k)
      BY <1>1, <1>3, <2>3
    <3>2. P!CloseOf(history, Begun(j, k)) = None
      BY <1>2, <3>1
    <3>3. QED
      BY <2>1, <2>3, <3>2 DEF P!Proved
  <2>4. QED
    BY <1>1, <2>2, <2>3
<1>6. ASSUME NEW j \in k + 1 .. Len(plan)
      PROVE  P!Proved(plan[j]) = IF P!ResultIn(history) # None THEN "not_reached" ELSE None
  <2>1. plan[j] # "publish" /\ plan[j] \in Activity
    BY <1>1, PlansAreKnown
  <2>2. \A i \in 1 .. k + p : plan[j] # Begun(i, k)
    <3> TAKE i \in 1 .. k + p
    <3>1. i <= k => i \in 1 .. Len(plan) /\ j \in 1 .. Len(plan) /\ i # j
      BY <1>1
    <3>2. i <= k => plan[i] # plan[j]
      BY <3>1, PlanIsDistinct
    <3>3. QED
      BY <2>1, <3>2 DEF Begun
  <2>3. ~P!Scheduled(history, plan[j])
    BY <1>2, <2>2
  <2>4. QED
    BY <1>4, <2>1, <2>3 DEF P!Proved
<1>7. ASSUME p = 0 PROVE P!Proved("publish") = None
  <2>1. "publish" \in Activity
    BY DEF Activity, P!Known
  <2>2. \A i \in 1 .. k + p : plan[i] # "publish" /\ Begun(i, k) = plan[i]
    BY <1>1, <1>7, PlansAreKnown DEF Begun
  <2>3. ~P!Scheduled(history, "publish")
    BY <1>2, <2>2
  <2>4. QED
    BY <1>4, <2>1, <2>3 DEF P!Proved
<1>8. P!Proved(None) = "completed"
  BY DEF P!Proved
<1>9. QED
  BY <1>5, <1>6, <1>7, <1>8

(* The stages of the history alone: that of the workflow and one for each  *)
(* activity begun, in the order they began.                                *)
BeginsWith(stages, k, p) ==
  /\ stages \in Seq(P!StageType) /\ Len(stages) = 1 + k + p
  /\ stages[1].key = "workflow" /\ stages[1].status = "completed"
  /\ \A j \in 1 .. k + p : /\ stages[j + 1].key = P!KeyOf(Begun(j, k))
                           /\ stages[j + 1].status = P!Proved(Begun(j, k))

LEMMA FromHistoryIs ==
  ASSUME P!WorkflowConstants, plan \in Plans, history \in Seq(HistoryEvent), ClosesOnce(history),
         NEW k, NEW p, NEW n, Trace(history, k, p, n), NEW s, s # "running"
  PROVE  BeginsWith(P!FromHistory(history, s), k, p)
<1> DEFINE C == {i \in DOMAIN history : history[i].type \in P!ClosingType}
           O == {i \in DOMAIN history :
                   history[i].type = "scheduled" /\ history[i].activity \in P!Open(history)}
           first == <<P!Stage("workflow", "completed", None)>>
           closings == [i \in DOMAIN P!At(history, C) |-> P!ClosedStage(P!At(history, C)[i])]
           open == [i \in DOMAIN P!At(history, O) |-> P!OpenStage(P!At(history, O)[i], s)]
<1>1. P!FromHistory(history, s) = first \o closings \o open
  BY DEF P!FromHistory, P!OpenIn
<1>2. /\ k \in Nat /\ p \in {0, 1} /\ n \in Nat /\ Len(history) \in Nat
      /\ (n = k + p \/ k + p = n + 1)
      /\ (Len(history) = 1 + k + p + n \/ Len(history) = 2 + k + p + n)
      /\ k \in 0 .. Len(plan) /\ p \in 0 .. 1
  BY TraceTypes DEF Trace
<1>3. /\ \A i \in 1 .. k + p : history[2 * i].type = "scheduled" /\ history[2 * i].activity = Begun(i, k)
      /\ \A i \in 1 .. n :
           history[2 * i + 1].type \in P!ClosingType /\ history[2 * i + 1].activity = Begun(i, k)
  BY DEF Trace
<1>4. C = {2 * i + 1 : i \in 1 .. n}
  <2>1. \A i \in 1 .. n : 2 * i + 1 \in 1 .. Len(history)
    BY <1>2
  <2>2. DOMAIN history = 1 .. Len(history)
    OBVIOUS
  <2>3. \A i \in 1 .. Len(history) : history[i].type \in P!ClosingType <=> \E j \in 1 .. n : i = 2 * j + 1
    BY EventsOfTrace
  <2>4. QED
    BY <2>1, <2>2, <2>3
<1>5. DOMAIN P!At(history, C) = 1 .. n /\ \A j \in 1 .. n : P!At(history, C)[j] = history[2 * j + 1]
  BY <1>2, <1>4, AtOdd
<1>6. \A i : i \in O <=> i \in {2 * j : j \in n + 1 .. k + p}
  <2>1. \A i \in 1 .. Len(history) : history[i].type = "scheduled" <=> \E j \in 1 .. k + p : i = 2 * j
    BY EventsOfTrace
  <2>2. \A j \in 1 .. k + p : Begun(j, k) \in P!Open(history) <=> j \in n + 1 .. k + p
    <3>1. P!Open(history) = {Begun(i, k) : i \in n + 1 .. k + p}
      BY TraceSays
    <3>2. \A i, j \in 1 .. k + p : Begun(i, k) = Begun(j, k) => i = j
      BY <1>2, BegunAre
    <3>3. \A i \in n + 1 .. k + p : i \in 1 .. k + p
      BY <1>2
    <3>4. QED
      BY <3>1, <3>2, <3>3
  <2>3. \A j \in 1 .. k + p : 2 * j \in 1 .. Len(history)
    BY <1>2
  <2>4. \A j \in n + 1 .. k + p : j \in 1 .. k + p
    BY <1>2
  <2>5. DOMAIN history = 1 .. Len(history)
    OBVIOUS
  <2>6. ASSUME NEW i \in O PROVE \E j \in n + 1 .. k + p : i = 2 * j
    BY <1>3, <2>1, <2>2, <2>5, <2>6
  <2>7. ASSUME NEW j \in n + 1 .. k + p PROVE 2 * j \in O
    BY <1>3, <2>2, <2>3, <2>4, <2>5
  <2>8. QED
    BY <2>6, <2>7
<1> HIDE DEF C, O
<1>7. /\ DOMAIN P!At(history, O) = 1 .. k + p - n
      /\ \A j \in 1 .. k + p - n : P!At(history, O)[j] = history[2 * (n + j)]
  <2>1. CASE n = k + p
    <3>1. O = {} /\ k + p - n = 0
      BY <1>2, <1>6, <2>1
    <3>2. P!At(history, O) = << >>
      BY <3>1, AtNone
    <3>3. QED
      BY <3>1, <3>2
  <2>2. CASE k + p = n + 1
    <3> DEFINE b == 2 * (n + 1)
    <3>1. k + p - n = 1 /\ b \in Nat /\ n + 1 .. k + p = {n + 1}
      BY <1>2, <2>2
    <3>2. \A i : i \in O <=> i = b
      BY <1>6, <3>1
    <3>3. \A j \in 1 .. 1 : 2 * (n + j) = b /\ j = 1
      BY <1>2
    <3> HIDE DEF b
    <3>4. O = {b}
      BY <3>2
    <3>5. DOMAIN P!At(history, O) = 1 .. 1 /\ P!At(history, O)[1] = history[b]
      BY <3>1, <3>4, AtOne
    <3>6. QED
      BY <3>1, <3>3, <3>5
  <2>3. QED
    BY <1>2, <2>1, <2>2
<1>8. /\ closings \in Seq(P!StageType) /\ Len(closings) = n
      /\ \A j \in 1 .. n : closings[j] = P!ClosedStage(history[2 * j + 1])
  BY <1>2, <1>5, StagesAreTyped
<1>9. /\ open \in Seq(P!StageType) /\ Len(open) = k + p - n
      /\ \A j \in 1 .. k + p - n : open[j] = P!OpenStage(history[2 * (n + j)], s)
  BY <1>2, <1>7, StagesAreTyped
<1>10. /\ first \in Seq(P!StageType) /\ Len(first) = 1
       /\ first[1].key = "workflow" /\ first[1].status = "completed"
  <2> DEFINE e == P!Stage("workflow", "completed", None)
  <2>1. e \in P!StageType
    BY StagesAreTyped DEF P!StageKey
  <2>2. e.key = "workflow" /\ e.status = "completed"
    BY DEF P!Stage
  <2> HIDE DEF e
  <2>3. <<e>> \in Seq(P!StageType) /\ Len(<<e>>) = 1 /\ <<e>>[1] = e
    BY <2>1
  <2>4. first = <<e>>
    BY DEF e
  <2> HIDE DEF first
  <2>5. QED
    BY <2>2, <2>3, <2>4
<1> HIDE DEF first, closings, open
<1> DEFINE base == first \o closings \o open
<1>11. /\ base \in Seq(P!StageType) /\ Len(base) = 1 + k + p /\ base[1] = first[1]
       /\ \A j \in 1 .. n : base[1 + j] = closings[j]
       /\ \A j \in 1 .. k + p - n : base[1 + n + j] = open[j]
  <2>1. /\ base \in Seq(P!StageType) /\ Len(base) = Len(first) + Len(closings) + Len(open)
        /\ \A i \in 1 .. Len(first) : base[i] = first[i]
        /\ \A i \in 1 .. Len(closings) : base[Len(first) + i] = closings[i]
        /\ \A i \in 1 .. Len(open) : base[Len(first) + Len(closings) + i] = open[i]
    <3>1. /\ first \in Seq(P!StageType) /\ closings \in Seq(P!StageType)
          /\ open \in Seq(P!StageType)
      BY <1>8, <1>9, <1>10
    <3>2. Splices(base, first, closings, open)
      BY <3>1, SplicedIs, Zenon
    <3>3. QED
      BY <3>2, Zenon DEF Splices
  <2> HIDE DEF base
  <2>2. Len(first) = 1 /\ Len(closings) = n /\ Len(open) = k + p - n
    BY <1>8, <1>9, <1>10
  <2>3. Len(base) = 1 + k + p /\ 1 \in 1 .. Len(first)
    BY <1>2, <2>1, <2>2
  <2>4. base[1] = first[1]
    BY <2>1, <2>3
  <2>5. /\ \A j \in 1 .. n : base[1 + j] = closings[j]
        /\ \A j \in 1 .. k + p - n : base[1 + n + j] = open[j]
    BY <2>1, <2>2
  <2>6. QED
    BY <2>1, <2>3, <2>4, <2>5
<1> HIDE DEF base
<1>12. \A j \in 1 .. k + p : P!Proved(Begun(j, k)) =
              IF Begun(j, k) \notin P!Known \/ j > n \/ history[2 * j + 1].type = "canceled"
                THEN "unknown"
              ELSE IF history[2 * j + 1].type = "completed" THEN "completed" ELSE "failed"
  BY ProvedIs
<1>13. ASSUME NEW j \in 1 .. k + p
       PROVE  base[j + 1].key = P!KeyOf(Begun(j, k)) /\ base[j + 1].status = P!Proved(Begun(j, k))
  <2>1. CASE j <= n
    <3>1. j \in 1 .. n /\ ~(j > n)
      BY <1>2, <2>1
    <3>2. base[j + 1] = P!ClosedStage(history[2 * j + 1])
      BY <1>8, <1>11, <3>1
    <3>3. history[2 * j + 1].activity = Begun(j, k)
      BY <1>3, <3>1
    <3>4. QED
      BY <1>12, <3>1, <3>2, <3>3 DEF P!ClosedStage, P!Stage, P!KeyOf
  <2>2. CASE j > n
    <3>1. j - n \in 1 .. k + p - n /\ n + (j - n) = j /\ 1 + n + (j - n) = j + 1
      BY <1>2, <2>2
    <3>2. base[j + 1] = P!OpenStage(history[2 * j], s)
      BY <1>9, <1>11, <3>1
    <3>3. history[2 * j].activity = Begun(j, k)
      BY <1>3
    <3>4. QED
      BY <1>12, <2>2, <3>2, <3>3 DEF P!OpenStage, P!Stage
  <2>3. QED
    BY <1>2, <2>1, <2>2
<1>14. QED
  BY <1>1, <1>10, <1>11, <1>13 DEF base, BeginsWith

LEMMA TimelineOf ==
  ASSUME NEW f \in [1 .. 5 -> P!StageType]
  PROVE  f \in Seq(P!StageType) /\ Len(f) = 5
<1>1. PICK m \in Nat : m = 5
  OBVIOUS
<1>2. f \in [1 .. m -> P!StageType]
  BY <1>1
<1>3. f \in Seq(P!StageType) /\ Len(f) = m
  BY <1>2
<1>4. QED
  BY <1>1, <1>3

(* _stages, when the failure it is told of is one of this history: between *)
(* its stage and the publication stand those that were not reached.        *)
LEMMA WithFailureIs ==
  ASSUME P!WorkflowConstants, plan \in Plans, history \in Seq(HistoryEvent),
         NEW k, NEW p, NEW n, TraceInv(k, p, n), Fails(P!ResultIn(history)),
         NEW stages, BeginsWith(stages, k, p)
  PROVE  LET all == P!WithFailure(stages, P!ResultIn(history)) IN
         /\ all \in Seq(P!StageType) /\ Len(all) = 5
         /\ \A i \in 1 .. k + 1 : all[i].key = stages[i].key /\ all[i].status = stages[i].status
         /\ \A i \in k + 2 .. 4 : all[i].key = plan[i - 1] /\ all[i].status = "not_reached"
         /\ all[5].key = stages[k + 2].key /\ all[5].status = stages[k + 2].status
<1> DEFINE f == P!ResultIn(history).stage
           failed == P!Stage(f, "failed", "classified")
<1>1. /\ k \in 1 .. 3 /\ Len(plan) \in 3 .. 4 /\ p = 1 /\ f = P!Pipeline[k]
      /\ \A i \in 1 .. 3 : plan[i] = P!Pipeline[i]
  BY FailureIs
<1>2. /\ \A i \in 1 .. 3 : P!Pipeline[i] \in P!Known \ {"publish"}
      /\ \A i, j \in 1 .. 3 : P!Pipeline[i] = P!Pipeline[j] => i = j
      /\ P!Known \subseteq P!StageKey /\ "workflow" \notin P!Known /\ DOMAIN P!Pipeline = 1 .. 3
  BY DEF P!Pipeline, P!Known, P!StageKey
<1>3. failed \in P!StageType /\ failed.key = f /\ failed.status = "failed"
  <2>1. f \in P!StageKey
    BY <1>1, <1>2
  <2>2. failed \in P!StageType
    BY <2>1, StagesAreTyped
  <2>3. QED
    BY <2>2 DEF P!Stage
<1> HIDE DEF failed, f
<1>4. /\ stages \in Seq(P!StageType) /\ Len(stages) = k + 2 /\ stages[1].key = "workflow"
      /\ \A j \in 1 .. k : stages[j + 1].key = P!Pipeline[j]
      /\ stages[k + 2].key = "publish"
  <2>1. \A j \in 1 .. k : Begun(j, k) = P!Pipeline[j] /\ P!KeyOf(P!Pipeline[j]) = P!Pipeline[j]
    BY <1>1, <1>2 DEF Begun, P!KeyOf
  <2>2. Begun(k + 1, k) = "publish" /\ P!KeyOf("publish") = "publish"
    BY <1>1 DEF Begun, P!KeyOf, P!Known
  <2>3. \A j \in 1 .. k + 1 : stages[j + 1].key = P!KeyOf(Begun(j, k))
    BY <1>1 DEF BeginsWith
  <2>4. stages[(k + 1) + 1].key = "publish" /\ (k + 1) + 1 = k + 2
    BY <1>1, <2>2, <2>3
  <2>5. stages \in Seq(P!StageType) /\ Len(stages) = 1 + k + p /\ stages[1].key = "workflow"
    BY DEF BeginsWith
  <2>6. QED
    BY <1>1, <2>1, <2>3, <2>4, <2>5
<1>5. \A i \in 1 .. k + 2 : stages[i].key = f <=> i = k + 1
  <2> TAKE i \in 1 .. k + 2
  <2>1. CASE i = 1
    BY <1>1, <1>2, <1>4, <2>1
  <2>2. CASE i = k + 2
    BY <1>1, <1>2, <1>4, <2>2
  <2>3. CASE i \in 2 .. k + 1
    <3>1. i - 1 \in 1 .. k /\ (i - 1) + 1 = i
      BY <1>1, <2>3
    <3>2. stages[i].key = P!Pipeline[i - 1]
      BY <1>4, <3>1
    <3>3. i - 1 \in 1 .. 3 /\ k \in 1 .. 3
      BY <1>1, <3>1
    <3>4. QED
      BY <1>1, <1>2, <3>1, <3>2, <3>3
  <2>4. QED
    BY <1>1, <2>1, <2>2, <2>3
<1>6. DOMAIN stages = 1 .. k + 2
  BY <1>1, <1>4
<1>7. f \in P!Keys(stages)
  <2>1. k + 1 \in 1 .. k + 2
    BY <1>1
  <2>2. QED
    BY <1>5, <1>6, <2>1 DEF P!Keys
<1>8. P!SelectInSeq(stages, LAMBDA s : s.key = f) = k + 1
  <2> DEFINE I == {i \in 1 .. Len(stages) : stages[i].key = f}
  <2>1. P!SelectInSeq(stages, LAMBDA s : s.key = f) = IF I # {} THEN P!Min(I) ELSE 0
    BY DEF P!SelectInSeq
  <2>2. I = {k + 1} /\ k + 1 <= k + 1
    BY <1>1, <1>4, <1>5
  <2>3. P!Min({k + 1}) = k + 1
    BY <2>2 DEF P!Min
  <2>4. QED
    BY <2>1, <2>2, <2>3
<1> DEFINE a == SubSeq(stages, 1, k + 1)
           b == P!NotReached(stages, f)
           c == SubSeq(stages, (k + 1) + 1, Len(stages))
           all == a \o b \o c
<1>9. P!InsertNotReached(stages, f) = all
  BY <1>8 DEF P!InsertNotReached
<1>10. /\ a \in Seq(P!StageType) /\ Len(a) = k + 1 /\ \A i \in 1 .. k + 1 : a[i] = stages[i]
       /\ c \in Seq(P!StageType) /\ Len(c) = 1 /\ c[1] = stages[k + 2]
  <2>1. /\ k + 1 \in 1 .. Len(stages) /\ k + 2 \in 1 .. Len(stages) /\ Len(stages) = k + 2
        /\ stages \in Seq(P!StageType)
    BY <1>1, <1>4
  <2>2. a \in Seq(P!StageType) /\ Len(a) = k + 1 /\ \A i \in 1 .. k + 1 : a[i] = stages[i]
    BY <2>1
  <2>3. c \in Seq(P!StageType) /\ Len(c) = 1 /\ c[1] = stages[k + 2]
    BY <1>1, <2>1
  <2>4. QED
    BY <2>2, <2>3
<1>11. /\ b \in Seq(P!StageType) /\ Len(b) = 3 - k
       /\ \A i \in 1 .. 3 - k : b[i].key = P!Pipeline[k + i] /\ b[i].status = "not_reached"
  <2>1. PICK I \in SUBSET (k + 1 .. 3) :
          /\ I = {j \in k + 1 .. 3 : P!Pipeline[j] \notin P!Keys(stages)}
          /\ P!NotReached(stages, P!Pipeline[k]) =
               [i \in DOMAIN P!At(P!Pipeline, I) |->
                  P!Stage(P!At(P!Pipeline, I)[i], "not_reached", None)]
    <3>1. k \in 1 .. 3
      BY <1>1
    <3>2. QED
      BY <3>1, NotReachedIs
  <2>2. \A j \in k + 1 .. 3 : P!Pipeline[j] \notin P!Keys(stages)
    <3> SUFFICES ASSUME NEW j \in k + 1 .. 3, NEW i \in 1 .. k + 2, stages[i].key = P!Pipeline[j]
                 PROVE  FALSE
      BY <1>6 DEF P!Keys
    <3>1. j \in 1 .. 3
      BY <1>1
    <3>2. CASE i = 1
      BY <1>2, <1>4, <3>1, <3>2
    <3>3. CASE i = k + 2
      BY <1>2, <1>4, <3>1, <3>3
    <3>4. CASE i \in 2 .. k + 1
      <4>1. i - 1 \in 1 .. k /\ (i - 1) + 1 = i /\ i - 1 \in 1 .. 3 /\ i - 1 # j
        BY <1>1, <3>4
      <4>2. stages[i].key = P!Pipeline[i - 1]
        BY <1>4, <4>1
      <4>3. QED
        BY <1>2, <3>1, <4>1, <4>2
    <3>5. QED
      BY <1>1, <3>2, <3>3, <3>4
  <2>3. I = k + 1 .. 3
    BY <2>1, <2>2
  <2>4. PICK x \in Nat, y \in Nat : x = k + 1 /\ y = 3
    BY <1>1
  <2>5. ReadsOff(P!At(P!Pipeline, x .. y), P!Pipeline, x, y)
    <3>1. x <= y + 1
      BY <1>1, <2>4
    <3>2. QED
      BY <3>1, AtInterval
  <2>6. /\ DOMAIN P!At(P!Pipeline, I) = 1 .. 3 - k
        /\ \A i \in 1 .. 3 - k : P!At(P!Pipeline, I)[i] = P!Pipeline[k + i]
    <3>1. y + 1 - x = 3 - k /\ \A i \in 1 .. 3 - k : x + i - 1 = k + i
      BY <1>1, <2>4
    <3>2. I = x .. y
      BY <2>3, <2>4
    <3>3. QED
      BY <2>5, <3>1, <3>2 DEF ReadsOff
  <2>7. \A i \in 1 .. 3 - k : k + i \in 1 .. 3
    BY <1>1
  <2>8. /\ DOMAIN b = 1 .. 3 - k
        /\ \A i \in 1 .. 3 - k : b[i] = P!Stage(P!Pipeline[k + i], "not_reached", None)
    BY <1>1, <2>1, <2>6
  <2>9. b \in Seq(P!StageType)
    BY <1>1, NotReachedIsTyped
  <2> HIDE DEF b
  <2>10. Len(b) = 3 - k
    BY <1>1, <2>8, <2>9
  <2>11. QED
    BY <2>8, <2>9, <2>10 DEF P!Stage
<1> HIDE DEF a, b, c
<1>12. /\ all \in Seq(P!StageType) /\ Len(all) = 5
       /\ \A i \in 1 .. k + 1 : all[i] = stages[i]
       /\ \A i \in 1 .. 3 - k : all[k + 1 + i] = b[i]
       /\ all[5] = stages[k + 2]
  <2>1. /\ all \in Seq(P!StageType) /\ Len(all) = Len(a) + Len(b) + Len(c)
        /\ \A i \in 1 .. Len(a) : all[i] = a[i]
        /\ \A i \in 1 .. Len(b) : all[Len(a) + i] = b[i]
        /\ \A i \in 1 .. Len(c) : all[Len(a) + Len(b) + i] = c[i]
    <3>1. a \in Seq(P!StageType) /\ b \in Seq(P!StageType) /\ c \in Seq(P!StageType)
      BY <1>10, <1>11
    <3>2. Splices(all, a, b, c)
      BY <3>1, SplicedIs, Zenon
    <3>3. QED
      BY <3>2, Zenon DEF Splices
  <2> HIDE DEF all
  <2>2. Len(a) = k + 1 /\ Len(b) = 3 - k /\ Len(c) = 1
    BY <1>10, <1>11
  <2>3. Len(all) = 5 /\ k + 1 + (3 - k) + 1 = 5
    BY <1>1, <2>1, <2>2
  <2>4. all[5] = c[1]
    BY <2>1, <2>2, <2>3
  <2>5. \A i \in 1 .. 3 - k : all[k + 1 + i] = b[i]
    BY <2>1, <2>2
  <2>6. \A i \in 1 .. k + 1 : all[i] = stages[i]
    BY <1>10, <2>1, <2>2
  <2>7. QED
    BY <1>10, <2>1, <2>3, <2>4, <2>5, <2>6
<1> DEFINE done == [i \in DOMAIN all |->
                      IF all[i].key = f /\ all[i].status = "failed" THEN failed ELSE all[i]]
<1>13. P!WithFailure(stages, P!ResultIn(history)) = done
  BY <1>7, <1>9 DEF P!WithFailure, Fails, f, failed
<1> HIDE DEF all
<1>14. /\ done \in Seq(P!StageType) /\ Len(done) = 5
       /\ \A i \in 1 .. 5 : done[i].key = all[i].key /\ done[i].status = all[i].status
  <2>1. DOMAIN all = 1 .. 5 /\ \A i \in 1 .. 5 : all[i] \in P!StageType
    <3>1. all \in Seq(P!StageType)
      BY <1>12
    <3>2. DOMAIN all = 1 .. Len(all) /\ \A i \in 1 .. Len(all) : all[i] \in P!StageType
      BY <3>1
    <3>3. QED
      BY <1>12, <3>2
  <2>2. \A i \in 1 .. 5 : done[i] = IF all[i].key = f /\ all[i].status = "failed" THEN failed ELSE all[i]
    BY <2>1
  <2>3. done \in [1 .. 5 -> P!StageType]
    BY <1>3, <2>1
  <2> HIDE DEF done
  <2>4. done \in Seq(P!StageType) /\ Len(done) = 5
    BY <2>3, TimelineOf
  <2>5. QED
    BY <1>3, <2>2, <2>4
<1> HIDE DEF done
<1>15. \A i \in k + 2 .. 4 : done[i].key = plan[i - 1] /\ done[i].status = "not_reached"
  <2> TAKE i \in k + 2 .. 4
  <2>1. /\ i - k - 1 \in 1 .. 3 - k /\ k + 1 + (i - k - 1) = i /\ k + (i - k - 1) = i - 1
        /\ i \in 1 .. 5 /\ i - 1 \in 1 .. 3
    BY <1>1
  <2>2. all[i] = b[i - k - 1]
    BY <1>12, <2>1
  <2>3. all[i].key = P!Pipeline[i - 1] /\ all[i].status = "not_reached"
    BY <1>11, <2>1, <2>2
  <2>4. QED
    BY <1>1, <1>14, <2>1, <2>3
<1>16. \A i \in 1 .. k + 1 : done[i].key = stages[i].key /\ done[i].status = stages[i].status
  <2>1. \A i \in 1 .. k + 1 : i \in 1 .. 5
    BY <1>1
  <2>2. QED
    BY <1>12, <1>14, <2>1
<1>17. done[5].key = stages[k + 2].key /\ done[5].status = stages[k + 2].status
  <2>1. 5 \in 1 .. 5
    OBVIOUS
  <2>2. QED
    BY <1>12, <1>14, <2>1
<1>18. QED
  BY <1>13, <1>14, <1>15, <1>16, <1>17

(* How far the timeline goes before the publication: as far as was begun,  *)
(* or, after a failure, the whole pipeline.                                *)
Reach(k) == IF Fails(P!ResultIn(history)) THEN 4 ELSE k + 1

LEMMA ReachIs ==
  ASSUME P!WorkflowConstants, plan \in Plans, history \in Seq(HistoryEvent),
         NEW k, NEW p, NEW n, TraceInv(k, p, n)
  PROVE  /\ Reach(k) \in Nat /\ k + 1 <= Reach(k) /\ Reach(k) <= Len(plan) + 1
         /\ Fails(P!ResultIn(history)) => p = 1
         /\ \A j \in k + 1 .. Len(plan) :
              P!ResultIn(history) # None /\ plan[j] \notin Foreign <=> j + 1 <= Reach(k)
<1>1. Trace(history, k, p, n)
  BY DEF TraceInv
<1>2. k \in Nat /\ k <= Len(plan) /\ p \in {0, 1} /\ Len(plan) \in Nat
  BY <1>1, TraceTypes
<1>3. CASE Fails(P!ResultIn(history))
  <2>1. /\ P!Kind = "deployment" /\ k \in 1 .. 3 /\ Len(plan) \in 3 .. 4 /\ p = 1
        /\ \A i \in 1 .. 3 : plan[i] = P!Pipeline[i]
    BY <1>3, FailureIs
  <2>2. \A i \in 1 .. 3 : plan[i] \notin Foreign
    BY <2>1 DEF P!Pipeline, P!WorkflowConstants, P!Known
  <2>3. \A i \in 4 .. Len(plan) : plan[i] \in Foreign
    BY <2>1, PlanIs
  <2>4. P!ResultIn(history) # None
    BY <1>3 DEF Fails
  <2>5. Reach(k) = 4
    BY <1>3 DEF Reach
  <2>6. \A j \in k + 1 .. Len(plan) : plan[j] \notin Foreign <=> j + 1 <= 4
    BY <2>1, <2>2, <2>3
  <2>7. QED
    BY <2>1, <2>4, <2>5, <2>6
<1>4. CASE ~Fails(P!ResultIn(history))
  <2>1. Reach(k) = k + 1
    BY <1>4 DEF Reach
  <2>2. ASSUME NEW j \in k + 1 .. Len(plan), P!ResultIn(history) # None PROVE plan[j] \in Foreign
    <3>1. Tells(P!ResultIn(history), history, k, p, n)
      BY <2>2, ResultIs
    <3>2. Fell(history, k)
      BY <1>1, <1>2, <3>1 DEF Trace, Tells
    <3>3. P!Kind = "render" /\ k > 0
      BY <1>4, <2>2, <3>1, <3>2 DEF Tells, Fails, Fell
    <3>4. j \in 2 .. Len(plan)
      BY <1>2, <3>3
    <3>5. QED
      BY <3>3, <3>4, PlanIs
  <2>3. \A j \in k + 1 .. Len(plan) : ~(j + 1 <= k + 1)
    BY <1>2
  <2>4. QED
    BY <1>2, <1>4, <2>1, <2>2, <2>3
<1>5. QED
  BY <1>3, <1>4

(* A timeline that goes as far, and says what is proved of each activity,  *)
(* is exact.                                                               *)
Placed(stages, a, p) ==
  /\ stages \in Seq(P!StageType) /\ Len(stages) = a + p
  /\ stages[1].key = "workflow" /\ stages[1].status = "completed"
  /\ \A i \in 2 .. a : /\ stages[i].key = P!KeyOf(plan[i - 1])
                       /\ stages[i].status = P!Proved(plan[i - 1])
  /\ p = 1 => stages[a + 1].key = "publish" /\ stages[a + 1].status = P!Proved("publish")

LEMMA PlacedIsExact ==
  ASSUME P!WorkflowConstants, plan \in Plans, history \in Seq(HistoryEvent), ClosesOnce(history),
         NEW k, NEW p, NEW n, TraceInv(k, p, n),
         NEW detail, Placed(detail.stages, Reach(k), p)
  PROVE  P!Exact(detail)
<1> DEFINE a == Reach(k)
           all == <<None>> \o P!Steps
           I == {i \in DOMAIN all : /\ P!Proved(all[i]) # None
                                    /\ all[i] \in Foreign => P!Proved(all[i]) # "not_reached"}
           order == P!At(all, I)
           m == Len(plan) + 2
<1>1. Trace(history, k, p, n)
  BY DEF TraceInv
<1>2. k \in Nat /\ k <= Len(plan) /\ p \in {0, 1} /\ n \in Nat /\ Len(plan) \in Nat /\ m \in Nat
  BY <1>1, TraceTypes
<1>3. /\ a \in Nat /\ k + 1 <= a /\ a <= Len(plan) + 1
      /\ \A j \in k + 1 .. Len(plan) :
           P!ResultIn(history) # None /\ plan[j] \notin Foreign <=> j + 1 <= a
  BY ReachIs
<1>4. /\ DOMAIN all = 1 .. m /\ all[1] = None /\ all[m] = "publish"
      /\ \A j \in 1 .. Len(plan) : all[j + 1] = plan[j]
  <2>1. /\ P!Steps \in Seq(Activity) /\ Len(P!Steps) = Len(plan) + 1
        /\ P!Steps[Len(plan) + 1] = "publish" /\ \A i \in 1 .. Len(plan) : P!Steps[i] = plan[i]
    BY StepsAre
  <2> DEFINE S == P!Steps
  <2>2. S \in Seq(Activity \cup {None}) /\ <<None>> \in Seq(Activity \cup {None}) /\ Len(<<None>>) = 1
    BY <2>1
  <2> HIDE DEF S
  <2>3. /\ DOMAIN all = 1 .. Len(S) + 1 /\ all[1] = None
        /\ \A i \in 1 .. Len(S) : all[i + 1] = S[i]
    BY <2>2 DEF S
  <2>4. /\ Len(S) = Len(plan) + 1 /\ S[Len(plan) + 1] = "publish"
        /\ \A i \in 1 .. Len(plan) : S[i] = plan[i]
    BY <2>1 DEF S
  <2> HIDE DEF all
  <2>5. DOMAIN all = 1 .. m
    BY <1>2, <2>3, <2>4
  <2>6. all[m] = "publish"
    <3>1. Len(plan) + 1 \in 1 .. Len(S) /\ m = (Len(plan) + 1) + 1
      BY <1>2, <2>4
    <3>2. QED
      BY <2>3, <2>4, <3>1
  <2>7. \A j \in 1 .. Len(plan) : all[j + 1] = plan[j]
    <3>1. \A j \in 1 .. Len(plan) : j \in 1 .. Len(S)
      BY <1>2, <2>4
    <3>2. QED
      BY <2>3, <2>4, <3>1
  <2>8. QED
    BY <2>3, <2>5, <2>6, <2>7
<1> HIDE DEF all, m, a
<1> DEFINE In(i) == /\ P!Proved(all[i]) # None
                    /\ all[i] \in Foreign => P!Proved(all[i]) # "not_reached"
           Sure == {"unknown", "completed", "failed"}
<1>5. None \notin Sure /\ "not_reached" \notin Sure /\ None # "not_reached" /\ None \notin Foreign
  BY DEF P!WorkflowConstants, P!ClosingType
<1>6. /\ P!Proved(None) = "completed"
      /\ \A j \in 1 .. k + p : P!Proved(Begun(j, k)) \in Sure
      /\ \A j \in k + 1 .. Len(plan) : P!Proved(plan[j]) =
           IF P!ResultIn(history) # None THEN "not_reached" ELSE None
      /\ p = 0 => P!Proved("publish") = None
  BY <1>1, ProvedIs
<1>7. In(1)
  BY <1>4, <1>5, <1>6
<1>8. ASSUME NEW i \in 2 .. k + 1 PROVE In(i)
  <2>1. i - 1 \in 1 .. k + p /\ i - 1 \in 1 .. Len(plan) /\ (i - 1) + 1 = i /\ i - 1 <= k
    BY <1>2
  <2>2. all[i] = Begun(i - 1, k)
    BY <1>4, <2>1 DEF Begun
  <2>3. QED
    BY <1>5, <1>6, <2>1, <2>2
<1>9. ASSUME NEW i \in k + 2 .. Len(plan) + 1 PROVE In(i) <=> i <= a
  <2>1. i - 1 \in k + 1 .. Len(plan) /\ i - 1 \in 1 .. Len(plan) /\ (i - 1) + 1 = i
    BY <1>2
  <2>2. all[i] = plan[i - 1]
    BY <1>4, <2>1
  <2>3. P!ResultIn(history) # None /\ plan[i - 1] \notin Foreign <=> i <= a
    BY <1>3, <2>1
  <2>4. P!Proved(plan[i - 1]) = IF P!ResultIn(history) # None THEN "not_reached" ELSE None
    BY <1>6, <2>1
  <2>5. QED
    BY <1>5, <2>2, <2>3, <2>4
<1>10. In(m) <=> p = 1
  <2>1. CASE p = 1
    <3>1. k + 1 \in 1 .. k + p /\ Begun(k + 1, k) = "publish"
      BY <1>2, <2>1 DEF Begun
    <3>2. P!Proved("publish") \in Sure
      BY <1>6, <3>1
    <3>3. QED
      BY <1>4, <1>5, <2>1, <3>2
  <2>2. CASE p = 0
    BY <1>4, <1>6, <2>2
  <2>3. QED
    BY <1>2, <2>1, <2>2
<1>11. \A i \in 1 .. m : In(i) <=> i <= a \/ (p = 1 /\ i = m)
  <2> TAKE i \in 1 .. m
  <2>1. i = 1 \/ i \in 2 .. k + 1 \/ i \in k + 2 .. Len(plan) + 1 \/ i = m
    BY <1>2 DEF m
  <2>2. CASE i = 1
    BY <1>2, <1>3, <1>7, <2>2
  <2>3. CASE i \in 2 .. k + 1
    <3>1. i <= a
      BY <1>2, <1>3, <2>3
    <3>2. QED
      BY <1>8, <2>3, <3>1
  <2>4. CASE i \in k + 2 .. Len(plan) + 1
    <3>1. i # m
      BY <1>2, <2>4 DEF m
    <3>2. QED
      BY <1>9, <2>4, <3>1
  <2>5. CASE i = m
    <3>1. ~(m <= a)
      BY <1>2, <1>3 DEF m
    <3>2. QED
      BY <1>10, <2>5, <3>1
  <2>6. QED
    BY <2>1, <2>2, <2>3, <2>4, <2>5
<1>12. I = {i \in 1 .. m : i <= a \/ (p = 1 /\ i = m)}
  BY <1>4, <1>11
<1> HIDE DEF I, In
<1>13. a < m /\ a + p \in Nat
  BY <1>2, <1>3 DEF m
<1>14. /\ DOMAIN order = 1 .. a + p
       /\ \A i \in 1 .. a : order[i] = all[i]
       /\ p = 1 => order[a + 1] = all[m]
  <2>1. CASE p = 1
    <3>1. I = (1 .. a) \cup {m}
      BY <1>2, <1>3, <1>12, <1>13, <2>1
    <3>2. /\ DOMAIN P!At(all, (1 .. a) \cup {m}) = 1 .. a + 1
          /\ \A i \in 1 .. a : P!At(all, (1 .. a) \cup {m})[i] = all[i]
          /\ P!At(all, (1 .. a) \cup {m})[a + 1] = all[m]
      BY <1>2, <1>3, <1>13, AtIntervalAnd
    <3>3. QED
      BY <2>1, <3>1, <3>2
  <2>2. CASE p = 0
    <3>1. PICK b \in Nat : b = 1 /\ b <= a + 1
      BY <1>3
    <3>2. I = b .. a
      <4>1. \A i : i \in b .. a <=> i \in 1 .. m /\ i <= a
        BY <1>2, <1>3, <1>13, <3>1
      <4>2. I = {i \in 1 .. m : i <= a}
        BY <1>12, <2>2
      <4>3. QED
        BY <4>1, <4>2
    <3>3. ReadsOff(P!At(all, b .. a), all, b, a)
      <4>1. b <= a + 1
        BY <3>1
      <4>2. QED
        BY <1>3, <4>1, AtInterval
    <3>4. a + 1 - b = a /\ a + p = a /\ \A i \in 1 .. a : b + i - 1 = i
      BY <1>3, <2>2, <3>1
    <3>5. QED
      BY <2>2, <3>2, <3>3, <3>4 DEF ReadsOff
  <2>3. QED
    BY <1>2, <2>1, <2>2
<1>15. Len(order) = a + p
  BY <1>13, <1>14, AtLen
<1>16. /\ detail.stages \in Seq(P!StageType) /\ Len(detail.stages) = a + p
       /\ detail.stages[1].key = "workflow" /\ detail.stages[1].status = "completed"
       /\ \A i \in 2 .. a : /\ detail.stages[i].key = P!KeyOf(plan[i - 1])
                            /\ detail.stages[i].status = P!Proved(plan[i - 1])
       /\ p = 1 => /\ detail.stages[a + 1].key = "publish"
                   /\ detail.stages[a + 1].status = P!Proved("publish")
  BY DEF Placed, a
<1> HIDE DEF order
<1>17. ASSUME NEW i \in DOMAIN order
       PROVE  /\ detail.stages[i].key = (IF order[i] = None THEN "workflow" ELSE P!KeyOf(order[i]))
              /\ detail.stages[i].status = P!Proved(order[i])
  <2>1. i = 1 \/ i \in 2 .. a \/ (p = 1 /\ i = a + 1)
    BY <1>2, <1>3, <1>14
  <2>2. CASE i = 1
    <3>1. 1 \in 1 .. a
      BY <1>2, <1>3
    <3>2. order[1] = None
      BY <1>4, <1>14, <3>1
    <3>3. QED
      BY <1>6, <1>16, <2>2, <3>2
  <2>3. CASE i \in 2 .. a
    <3>1. i \in 1 .. a /\ i - 1 \in 1 .. Len(plan) /\ (i - 1) + 1 = i
      BY <1>2, <1>3, <2>3
    <3>2. order[i] = plan[i - 1]
      BY <1>4, <1>14, <3>1
    <3>3. plan[i - 1] \in Activity
      BY <3>1, PlansAreKnown
    <3>4. plan[i - 1] # None
      BY <3>3 DEF Activity, P!WorkflowConstants
    <3>5. QED
      BY <1>16, <2>3, <3>2, <3>4
  <2>4. CASE p = 1 /\ i = a + 1
    <3>1. order[i] = "publish"
      BY <1>4, <1>14, <2>4
    <3>2. "publish" # None /\ P!KeyOf("publish") = "publish"
      BY DEF P!WorkflowConstants, P!Known, P!KeyOf
    <3>3. QED
      BY <1>16, <2>4, <3>1, <3>2
  <2>5. QED
    BY <2>1, <2>2, <2>3, <2>4
<1>18. P!Exact(detail) <=>
         /\ Len(detail.stages) = Len(order)
         /\ \A i \in DOMAIN order :
              /\ detail.stages[i].key = (IF order[i] = None THEN "workflow" ELSE P!KeyOf(order[i]))
              /\ detail.stages[i].status = P!Proved(order[i])
  BY DEF P!Exact, order, I, all
<1>19. QED
  BY <1>15, <1>16, <1>17, <1>18

LEMMA StagesOfClosed ==
  ASSUME P!WorkflowConstants, plan \in Plans, history \in Seq(HistoryEvent), ClosesOnce(history),
         NEW k, NEW p, NEW n, TraceInv(k, p, n),
         NEW desc, desc.status # "running", desc.pending = << >>
  PROVE  Placed(P!Stages(desc, history, P!ResultIn(history)), Reach(k), p)
<1> DEFINE r == P!ResultIn(history)
           base == P!FromHistory(history, desc.status)
           st == P!Stages(desc, history, r)
<1>1. Trace(history, k, p, n)
  BY DEF TraceInv
<1>2. k \in Nat /\ k <= Len(plan) /\ p \in {0, 1} /\ n \in Nat /\ Len(plan) \in Nat
  BY <1>1, TraceTypes
<1>3. BeginsWith(base, k, p)
  BY <1>1, FromHistoryIs
<1>4. P!WithPending(base, history, desc) = base
  <2> DEFINE M == {i \in DOMAIN desc.pending :
                     /\ desc.pending[i] \notin P!Open(history)
                     /\ ~P!Has(base, P!KeyOf(desc.pending[i]), "running")}
             missing == P!At(desc.pending, M)
             added == [i \in DOMAIN missing |->
                P!Stage(P!KeyOf(missing[i]),
                  IF missing[i] \in P!Known /\ desc.status = "running" THEN "running" ELSE "unknown",
                  None)]
  <2>1. P!WithPending(base, history, desc) = base \o added
    BY DEF P!WithPending
  <2>2. M = {}
    OBVIOUS
  <2> HIDE DEF M
  <2>3. missing = << >>
    BY <2>2, AtNone
  <2> HIDE DEF missing
  <2>4. added = << >>
    BY <2>3
  <2>5. base \in Seq(P!StageType)
    BY <1>3 DEF BeginsWith
  <2> HIDE DEF added, base
  <2>6. base \o added = base
    BY <2>4, <2>5
  <2>7. QED
    BY <2>1, <2>6
<1>5. st = P!WithFailure(base, r)
  BY <1>4 DEF P!Stages, P!WithFinalizing
<1> HIDE DEF base, st
<1>6. /\ base \in Seq(P!StageType) /\ Len(base) = 1 + k + p
      /\ base[1].key = "workflow" /\ base[1].status = "completed"
      /\ \A j \in 1 .. k : /\ base[j + 1].key = P!KeyOf(plan[j])
                           /\ base[j + 1].status = P!Proved(plan[j])
      /\ p = 1 => base[k + 2].key = "publish" /\ base[k + 2].status = P!Proved("publish")
  <2>1. \A j \in 1 .. k + p : /\ base[j + 1].key = P!KeyOf(Begun(j, k))
                              /\ base[j + 1].status = P!Proved(Begun(j, k))
    BY <1>3 DEF BeginsWith
  <2>2. \A j \in 1 .. k : j \in 1 .. k + p /\ Begun(j, k) = plan[j]
    BY <1>2 DEF Begun
  <2>3. p = 1 => k + 1 \in 1 .. k + p /\ Begun(k + 1, k) = "publish" /\ (k + 1) + 1 = k + 2
    BY <1>2 DEF Begun
  <2>4. P!KeyOf("publish") = "publish"
    BY DEF P!KeyOf, P!Known
  <2>5. p = 1 => base[k + 2].key = "publish" /\ base[k + 2].status = P!Proved("publish")
    BY <2>1, <2>3, <2>4
  <2>6. QED
    BY <1>3, <2>1, <2>2, <2>5 DEF BeginsWith
<1>7. CASE ~Fails(r)
  <2>1. st = base /\ Reach(k) = k + 1
    BY <1>5, <1>7 DEF P!WithFailure, Fails, Reach
  <2>2. \A i \in 2 .. k + 1 : i - 1 \in 1 .. k /\ (i - 1) + 1 = i
    BY <1>2
  <2>3. \A i \in 2 .. k + 1 : /\ st[i].key = P!KeyOf(plan[i - 1])
                              /\ st[i].status = P!Proved(plan[i - 1])
    BY <1>6, <2>1, <2>2
  <2>4. (k + 1) + 1 = k + 2 /\ (k + 1) + p = 1 + k + p
    BY <1>2
  <2>5. QED
    BY <1>6, <2>1, <2>3, <2>4 DEF Placed, st, r
<1>8. CASE Fails(r)
  <2>1. /\ k \in 1 .. 3 /\ Len(plan) \in 3 .. 4 /\ p = 1
        /\ \A i \in 1 .. 3 : plan[i] = P!Pipeline[i]
    BY <1>8, FailureIs
  <2>2. /\ st \in Seq(P!StageType) /\ Len(st) = 5
        /\ \A i \in 1 .. k + 1 : st[i].key = base[i].key /\ st[i].status = base[i].status
        /\ \A i \in k + 2 .. 4 : st[i].key = plan[i - 1] /\ st[i].status = "not_reached"
        /\ st[5].key = base[k + 2].key /\ st[5].status = base[k + 2].status
    BY <1>3, <1>5, <1>8, WithFailureIs
  <2>3. r # None
    BY <1>8 DEF Fails
  <2>4. \A j \in k + 1 .. Len(plan) : P!Proved(plan[j]) = "not_reached"
    BY <1>1, <2>3, ProvedIs
  <2>5. ASSUME NEW i \in 2 .. 4
        PROVE  st[i].key = P!KeyOf(plan[i - 1]) /\ st[i].status = P!Proved(plan[i - 1])
    <3>1. CASE i <= k + 1
      <4>1. i - 1 \in 1 .. k /\ (i - 1) + 1 = i /\ i \in 1 .. k + 1
        BY <1>2, <3>1
      <4>2. QED
        BY <1>6, <2>2, <4>1
    <3>2. CASE i > k + 1
      <4>1. i \in k + 2 .. 4 /\ i - 1 \in k + 1 .. Len(plan) /\ i - 1 \in 1 .. 3
        BY <2>1, <3>2
      <4>2. P!KeyOf(plan[i - 1]) = plan[i - 1]
        BY <2>1, <4>1 DEF P!KeyOf, P!Pipeline, P!Known
      <4>3. QED
        BY <2>2, <2>4, <4>1, <4>2
    <3>3. QED
      BY <1>2, <3>1, <3>2
  <2>6. st[1].key = "workflow" /\ st[1].status = "completed"
    <3>1. 1 \in 1 .. k + 1
      BY <1>2
    <3>2. QED
      BY <1>6, <2>2, <3>1
  <2>7. Reach(k) = 4
    BY <1>8 DEF Reach
  <2>8. 4 + 1 = 5 /\ 4 + p = 5
    BY <2>1
  <2>9. QED
    BY <1>6, <2>1, <2>2, <2>5, <2>6, <2>7, <2>8 DEF Placed, st, r
<1>9. QED
  BY <1>7, <1>8

(* The stage that ended a failed deployment is its current one.            *)
LEMMA CurrentOfFailure ==
  ASSUME P!WorkflowConstants, plan \in Plans, history \in Seq(HistoryEvent), ClosesOnce(history),
         NEW k, NEW p, NEW n, TraceInv(k, p, n), Fails(P!ResultIn(history)),
         NEW stages, Placed(stages, Reach(k), p)
  PROVE  P!Current(stages) = P!ResultIn(history).stage
<1> DEFINE bad == {"running", "failed", "unknown"}
           I == {i \in 1 .. Len(stages) : stages[i].status \in bad}
<1>1. Trace(history, k, p, n)
  BY DEF TraceInv
<1>2. /\ k \in 1 .. 3 /\ Len(plan) \in 3 .. 4 /\ p = 1 /\ n = k + 1
      /\ Fell(history, k) /\ history[2 * n + 1].type = "completed"
      /\ \A i \in 1 .. 3 : plan[i] = P!Pipeline[i]
      /\ P!ResultIn(history).stage = P!Pipeline[k]
  BY FailureIs
<1>3. Reach(k) = 4 /\ P!ResultIn(history) # None
  BY DEF Reach, Fails
<1>4. /\ \A j \in 1 .. k + p : P!Proved(Begun(j, k)) =
              IF Begun(j, k) \notin P!Known \/ j > n \/ history[2 * j + 1].type = "canceled"
                THEN "unknown"
              ELSE IF history[2 * j + 1].type = "completed" THEN "completed" ELSE "failed"
      /\ \A j \in k + 1 .. Len(plan) : P!Proved(plan[j]) = "not_reached"
  BY <1>1, <1>3, ProvedIs
<1>5. /\ Len(stages) = 4 + p
      /\ \A i \in 2 .. 4 : /\ stages[i].key = P!KeyOf(plan[i - 1])
                           /\ stages[i].status = P!Proved(plan[i - 1])
      /\ p = 1 => stages[4 + 1].status = P!Proved("publish")
  BY <1>3 DEF Placed
<1>6. stages[k + 1].status \in bad /\ stages[k + 1].key = P!Pipeline[k]
  <2>1. Begun(k, k) = plan[k] /\ k \in 1 .. k + p /\ ~(k > n) /\ k + 1 \in 2 .. 4 /\ (k + 1) - 1 = k
    BY <1>2 DEF Begun
  <2>2. plan[k] \in P!Known /\ history[2 * k + 1].type # "completed"
    BY <1>2 DEF Fell
  <2>3. P!Proved(plan[k]) \in {"unknown", "failed"}
    BY <1>4, <2>1, <2>2
  <2>4. stages[k + 1].key = P!KeyOf(plan[k]) /\ stages[k + 1].status = P!Proved(plan[k])
    BY <1>5, <2>1
  <2>5. P!KeyOf(plan[k]) = plan[k]
    BY <2>2 DEF P!KeyOf
  <2>6. plan[k] = P!Pipeline[k]
    BY <1>2
  <2>7. QED
    BY <2>3, <2>4, <2>5, <2>6
<1>7. \A i \in k + 2 .. 4 : stages[i].status \notin bad
  <2> TAKE i \in k + 2 .. 4
  <2>1. i \in 2 .. 4 /\ i - 1 \in k + 1 .. Len(plan)
    BY <1>2
  <2>2. stages[i].status = "not_reached"
    BY <1>4, <1>5, <2>1
  <2>3. QED
    BY <2>2
<1>8. stages[5].status \notin bad
  <2>1. Begun(k + 1, k) = "publish" /\ k + 1 \in 1 .. k + p /\ ~(k + 1 > n) /\ 4 + 1 = 5
    BY <1>2 DEF Begun
  <2>2. "publish" \in P!Known
    BY DEF P!Known
  <2>3. P!Proved("publish") = "completed"
    BY <1>2, <1>4, <2>1, <2>2
  <2>4. stages[5].status = "completed"
    BY <1>2, <1>5, <2>1, <2>3
  <2>5. QED
    BY <2>4
<1>9. Len(stages) = 5
  BY <1>2, <1>5
<1> HIDE DEF bad
<1>10. k + 1 \in I /\ \A i \in I : k + 1 >= i /\ i \in Nat
  <2>1. k + 1 \in 1 .. Len(stages)
    BY <1>2, <1>9
  <2>2. \A i \in 1 .. 5 : i <= k + 1 \/ i \in k + 2 .. 4 \/ i = 5
    BY <1>2
  <2>3. \A i \in I : i <= k + 1 /\ i \in Nat
    BY <1>7, <1>8, <1>9, <2>2
  <2>4. QED
    BY <1>2, <1>6, <2>1, <2>3
<1>11. P!SelectLastInSeq(stages, LAMBDA s : s.status \in {"running", "failed", "unknown"}) =
         IF I # {} THEN P!Max(I) ELSE 0
  BY DEF P!SelectLastInSeq, bad
<1> HIDE DEF I
<1>12. P!Max(I) = k + 1
  <2>1. P!Max(I) = CHOOSE x \in I : \A y \in I : x >= y
    BY DEF P!Max
  <2>2. \A x \in I : (\A y \in I : x >= y) => x = k + 1
    BY <1>2, <1>10
  <2>3. \A y \in I : k + 1 >= y
    BY <1>10
  <2>4. QED
    BY <1>10, <2>1, <2>2, <2>3
<1>13. P!SelectLastInSeq(stages, LAMBDA s : s.status \in {"running", "failed", "unknown"}) = k + 1
  BY <1>10, <1>11, <1>12
<1>14. k + 1 # 0
  BY <1>2
<1>15. P!Current(stages) = stages[k + 1].key
  BY <1>13, <1>14 DEF P!Current
<1>16. QED
  BY <1>2, <1>6, <1>15

-----------------------------------------------------------------------------
(* The read under way and the page.  What the API was told of a closed     *)
(* execution stays true, for it does not move again.                       *)
Statuses == P!Closed \cup {"running"}

DescribedFits ==
  described # None =>
    /\ described.status \in Statuses
    /\ \E m \in Nat : DOMAIN described.pending = 1 .. m
    /\ described.status # "running" => status # "running" /\ described.pending = << >>

ShownFits == shown # None /\ shown.status # "running" => status # "running"

ReadInv == DescribedFits /\ ShownFits /\ ClosedReadIsExact

LEMMA ReadOfInit == ASSUME P!WorkflowConstants, P!Init PROVE ReadInv
<1>1. status = "running" /\ described = None /\ shown = None /\ polling = TRUE
  BY DEF P!Init
<1>2. QED
  BY <1>1 DEF ReadInv, DescribedFits, ShownFits, ClosedReadIsExact, P!TypeOK,
              P!ClosedReadIsExact, P!FailureIsNamed

LEMMA ReadWhileRunning ==
  ASSUME P!WorkflowConstants, ReadInv, status = "running", status' \in Statuses,
         UNCHANGED <<described, shown, polling>>
  PROVE  ReadInv'
<1>1. DescribedFits'
  BY DEF ReadInv, DescribedFits
<1>2. shown # None => shown.status = "running"
  BY DEF ReadInv, ShownFits
<1>3. ShownFits' /\ P!ClosedReadIsExact'
  BY <1>2 DEF ShownFits, P!ClosedReadIsExact
<1>4. P!TypeOK'
  BY DEF ReadInv, ClosedReadIsExact, P!TypeOK, Statuses
<1>5. P!FailureIsNamed'
  BY DEF ReadInv, ClosedReadIsExact, P!FailureIsNamed
<1>6. QED
  BY <1>1, <1>3, <1>4, <1>5 DEF ReadInv, ClosedReadIsExact

LEMMA ReadOfExecution ==
  ASSUME P!WorkflowConstants, ReadInv,
         \/ P!Schedule
         \/ \E type \in P!ClosingType : P!ActivityCloses(type)
         \/ P!Return
         \/ \E s \in {"timed_out", "canceled", "terminated"} : P!EndedFromOutside(s)
  PROVE  ReadInv'
<1>1. status = "running" /\ UNCHANGED <<described, shown, polling>>
  BY DEF P!Schedule, P!ActivityCloses, P!Return, P!EndedFromOutside
<1>2. status' \in Statuses
  BY <1>1 DEF P!Schedule, P!ActivityCloses, P!Return, P!EndedFromOutside, Statuses, P!Closed
<1>3. QED
  BY <1>1, <1>2, ReadWhileRunning

(* An exact timeline stays exact while the execution does not move.        *)
LEMMA ExactKept ==
  ASSUME UNCHANGED P!execution, NEW d, P!Exact(d), shown' = d
  PROVE  P!Exact(shown)'
<1>1. plan' = plan /\ history' = history
  BY DEF P!execution
<1>2. P!Steps' = P!Steps
  BY <1>1 DEF P!Steps
<1>3. \A a : P!Proved(a)' = P!Proved(a)
  BY <1>1 DEF P!Proved
<1>4. QED
  BY <1>1, <1>2, <1>3 DEF P!Exact

LEMMA ReadUnchanged ==
  ASSUME ReadInv, UNCHANGED <<P!execution, shown>>, polling' \in BOOLEAN, DescribedFits'
  PROVE  ReadInv'
<1>1. status' = status /\ shown' = shown
  BY DEF P!execution
<1>2. P!Exact(shown) => P!Exact(shown)'
  <2>1. PICK d : d = shown
    OBVIOUS
  <2>2. QED
    BY <1>1, <2>1, ExactKept
<1>3. ShownFits' /\ P!ClosedReadIsExact'
  BY <1>1, <1>2 DEF ReadInv, ShownFits, ClosedReadIsExact, P!ClosedReadIsExact
<1>4. P!TypeOK'
  BY <1>1 DEF ReadInv, ClosedReadIsExact, P!TypeOK, DescribedFits, Statuses
<1>5. P!FailureIsNamed'
  BY <1>1 DEF ReadInv, ClosedReadIsExact, P!FailureIsNamed
<1>6. QED
  BY <1>3, <1>4, <1>5 DEF ReadInv, ClosedReadIsExact

LEMMA ReadOfDescribe ==
  ASSUME P!WorkflowConstants, HistoryInv, ReadInv, P!Describe
  PROVE  ReadInv'
<1> DEFINE O == {i \in DOMAIN history :
                   history[i].type = "scheduled" /\ history[i].activity \in P!Open(history)}
           open == [i \in DOMAIN P!OpenIn(history) |-> P!OpenIn(history)[i].activity]
<1>1. /\ described' = [status |-> status, pending |-> IF status = "running" THEN open ELSE << >>]
      /\ UNCHANGED <<P!execution, shown, polling>>
  BY DEF P!Describe
<1>2. \E m \in Nat : DOMAIN open = 1 .. m
  <2>1. O \subseteq 1 .. Len(history) /\ Len(history) \in Nat
    BY DEF HistoryInv, HistoryFits
  <2>2. P!OpenIn(history) = P!At(history, O)
    BY DEF P!OpenIn
  <2> HIDE DEF O
  <2>3. DOMAIN P!At(history, O) = 1 .. Cardinality(O) /\ Cardinality(O) \in Nat
    BY <2>1, SelectionIsFinite
  <2>4. QED
    BY <2>2, <2>3
<1> HIDE DEF open
<1>3. status \in Statuses /\ status' = status /\ polling' \in BOOLEAN
  BY <1>1 DEF ReadInv, ClosedReadIsExact, P!TypeOK, Statuses, P!execution
<1>4. \E m \in Nat : DOMAIN described'.pending = 1 .. m
  <2>1. DOMAIN << >> = 1 .. 0 /\ 0 \in Nat
    OBVIOUS
  <2>2. described'.pending = IF status = "running" THEN open ELSE << >>
    BY <1>1
  <2>3. QED
    BY <1>2, <2>1, <2>2
<1>5. described'.status = status /\ (status # "running" => described'.pending = << >>)
  BY <1>1
<1>6. DescribedFits'
  BY <1>3, <1>4, <1>5 DEF DescribedFits, Statuses, P!Closed
<1>7. QED
  BY <1>1, <1>3, <1>6, ReadUnchanged

(* What a read makes of a description and the history.                     *)
LEMMA DetailIs ==
  ASSUME NEW desc, NEW h
  PROVE  LET d == P!Detail(desc, h)
             r == P!ResultIn(h)
         IN  /\ d.status = desc.status /\ d.outcome = P!SummaryOutcome(desc.status, r)
             /\ d.stages = P!Stages(desc, h, r) /\ d.current = P!Current(d.stages)
             /\ d.deployment = IF P!Kind = "deployment" THEN P!DeploymentOf(desc.status, r) ELSE None
             /\ d.failure = P!FailureSummary(desc.status, r)
BY DEF P!Detail

LEMMA OutcomesAre ==
  ASSUME NEW s \in Statuses, NEW r
  PROVE  /\ P!SummaryOutcome(s, r) \in {"running", "succeeded", "failed", "execution_failed", "unknown"}
         /\ P!SummaryOutcome(s, r) = "failed" => r # None /\ ~r.succeeded
BY DEF P!SummaryOutcome, P!ExecutionFailure, Statuses, P!Closed

LEMMA ReadOfHistory ==
  ASSUME P!WorkflowConstants, HistoryInv, HistoryTraced, ReadInv, P!ReadHistory
  PROVE  ReadInv'
<1>1. PICK d : d = P!Detail(described, history)
  OBVIOUS
<1>2. /\ described # None /\ shown' = d /\ described' = None /\ UNCHANGED P!execution
      /\ polling' = ~P!IsTerminalWorkflow(d)
  BY <1>1 DEF P!ReadHistory, P!Answer
<1>3. PICK r : r = P!ResultIn(history)
  OBVIOUS
<1>4. /\ d.status = described.status /\ d.outcome = P!SummaryOutcome(described.status, r)
      /\ d.stages = P!Stages(described, history, r) /\ d.current = P!Current(d.stages)
      /\ d.deployment = IF P!Kind = "deployment" THEN P!DeploymentOf(described.status, r) ELSE None
      /\ d.failure = P!FailureSummary(described.status, r)
  BY <1>1, <1>3, DetailIs
<1>5. plan \in Plans /\ history \in Seq(HistoryEvent) /\ ClosesOnce(history)
  BY DEF HistoryInv, HistoryFits
<1>6. PICK k, p, n : TraceInv(k, p, n)
  BY DEF HistoryTraced
<1>7. /\ described.status \in Statuses
      /\ \E m \in Nat : DOMAIN described.pending = 1 .. m
      /\ described.status # "running" => status # "running" /\ described.pending = << >>
  BY <1>2 DEF ReadInv, DescribedFits
<1>8. /\ d.outcome \in {"running", "succeeded", "failed", "execution_failed", "unknown"}
      /\ d.outcome = "failed" => r # None /\ ~r.succeeded
  BY <1>4, <1>7, OutcomesAre
<1>9. d.stages \in Timelines
  <2> DEFINE a == P!FromHistory(history, described.status)
             b == P!WithPending(a, history, described)
             c == P!WithFailure(b, r)
  <2>1. a \in Timelines
    BY <1>5, FromHistoryIsTyped
  <2>2. b \in Timelines
    <3> HIDE DEF a
    <3>1. QED
      BY <1>7, <2>1, WithPendingIsTyped
  <2>3. ~(r = None \/ r.succeeded \/ r.type = "render") => \E i \in 1 .. 3 : r.stage = P!Pipeline[i]
    BY <1>3, <1>5, <1>6, FailureIs DEF Fails
  <2>4. c \in Timelines
    <3> HIDE DEF b
    <3>1. QED
      BY <2>2, <2>3, WithFailureIsTyped
  <2>5. d.stages = P!WithFinalizing(c, described.status)
    BY <1>4 DEF P!Stages
  <2> HIDE DEF c
  <2>6. QED
    BY <2>4, <2>5, WithFinalizingIsTyped
<1>10. P!TypeOK'
  <2>1. d.current \in P!StageKey \cup {None}
    BY <1>4, <1>9, CurrentIsTyped
  <2>2. \A i \in DOMAIN d.stages : d.stages[i] \in P!StageType
    BY <1>9 DEF Timelines
  <2>3. polling' \in BOOLEAN
    BY <1>2 DEF P!IsTerminalWorkflow
  <2>4. status' = status /\ status \in Statuses
    BY <1>2 DEF P!execution, ReadInv, ClosedReadIsExact, P!TypeOK, Statuses
  <2>5. d.status \in Statuses
    BY <1>4, <1>7
  <2>6. QED
    BY <1>2, <1>8, <2>1, <2>2, <2>3, <2>4, <2>5 DEF P!TypeOK, Statuses
<1>11. ASSUME d.status # "running" PROVE P!Exact(d) /\ Placed(d.stages, Reach(k), p)
  <2>1. Placed(P!Stages(described, history, P!ResultIn(history)), Reach(k), p)
    BY <1>4, <1>5, <1>6, <1>7, <1>11, StagesOfClosed
  <2>2. Placed(d.stages, Reach(k), p)
    BY <1>3, <1>4, <2>1
  <2>3. QED
    BY <1>5, <1>6, <2>2, PlacedIsExact
<1>12. P!ClosedReadIsExact'
  <2>1. d.status # "running" => P!Exact(shown)'
    BY <1>2, <1>11, ExactKept
  <2>2. QED
    BY <1>2, <2>1 DEF P!ClosedReadIsExact
<1>13. P!FailureIsNamed'
  <2> SUFFICES ASSUME d.outcome = "failed", d.status = "completed", d.deployment # None
               PROVE  d.current = d.deployment.stage /\ d.failure = [stage |-> d.deployment.stage]
    BY <1>2 DEF P!FailureIsNamed
  <2>1. r # None /\ ~r.succeeded /\ P!Kind = "deployment"
    BY <1>4, <1>8
  <2>2. r.type # "render"
    <3>1. Tells(r, history, k, p, n)
      BY <1>3, <1>5, <1>6, <2>1, ResultIs
    <3>2. QED
      BY <2>1, <3>1 DEF Tells
  <2>3. Fails(P!ResultIn(history))
    BY <1>3, <2>1, <2>2 DEF Fails
  <2>4. d.current = r.stage
    BY <1>3, <1>4, <1>5, <1>6, <1>11, <2>3, CurrentOfFailure
  <2>5. described.status = "completed"
    BY <1>4
  <2>6. d.deployment.stage = r.stage /\ d.failure = [stage |-> r.stage]
    BY <1>4, <2>1, <2>5 DEF P!DeploymentOf, P!FailureSummary
  <2>7. QED
    BY <2>4, <2>6
<1>14. DescribedFits' /\ ShownFits'
  <2>1. status' = status
    BY <1>2 DEF P!execution
  <2>2. QED
    BY <1>2, <1>4, <1>7, <2>1 DEF DescribedFits, ShownFits
<1>15. QED
  BY <1>10, <1>12, <1>13, <1>14 DEF ReadInv, ClosedReadIsExact

LEMMA ReadOfNoHistory ==
  ASSUME P!WorkflowConstants, ReadInv, P!HistoryFails
  PROVE  ReadInv'
<1>1. PICK d : d = P!WithoutHistory(described)
  OBVIOUS
<1>2. /\ described # None /\ shown' = d /\ described' = None /\ UNCHANGED P!execution
      /\ polling' = ~P!IsTerminalWorkflow(d)
  BY <1>1 DEF P!HistoryFails, P!Answer
<1>3. /\ d.status = described.status /\ d.outcome = P!SummaryOutcome(described.status, None)
      /\ d.stages = << >> /\ d.current = None /\ d.deployment = None
  BY <1>1 DEF P!WithoutHistory
<1>4. /\ described.status \in Statuses
      /\ described.status # "running" => status # "running"
  BY <1>2 DEF ReadInv, DescribedFits
<1>5. d.outcome \in {"running", "succeeded", "failed", "execution_failed", "unknown"}
  BY <1>3, <1>4, OutcomesAre
<1>6. status' = status /\ status \in Statuses
  BY <1>2 DEF P!execution, ReadInv, ClosedReadIsExact, P!TypeOK, Statuses
<1>7. P!TypeOK'
  BY <1>2, <1>3, <1>4, <1>5, <1>6 DEF P!TypeOK, Statuses, P!IsTerminalWorkflow
<1>8. P!ClosedReadIsExact' /\ P!FailureIsNamed'
  BY <1>2, <1>3 DEF P!ClosedReadIsExact, P!FailureIsNamed
<1>9. DescribedFits' /\ ShownFits'
  BY <1>2, <1>3, <1>4, <1>6 DEF DescribedFits, ShownFits
<1>10. QED
  BY <1>7, <1>8, <1>9 DEF ReadInv, ClosedReadIsExact

TimelineInv == ProjectionInv /\ HistoryTraced /\ ReadInv

LEMMA NextTimelineInv ==
  ASSUME P!WorkflowConstants, TimelineInv, [P!Next]_P!vars
  PROVE  TimelineInv'
<1>1. HistoryInv /\ HistoryTraced /\ ReadInv
  BY DEF TimelineInv, ProjectionInv
<1>2. CASE P!Schedule
  BY <1>1, <1>2, TraceOfSchedule, ReadOfExecution, NextIInv DEF TimelineInv, P!Next
<1>3. ASSUME NEW type \in P!ClosingType, P!ActivityCloses(type) PROVE TimelineInv'
  BY <1>1, <1>3, TraceOfActivityCloses, ReadOfExecution, NextIInv DEF TimelineInv, P!Next
<1>4. CASE P!Return
  BY <1>1, <1>4, TraceOfReturn, ReadOfExecution, NextIInv DEF TimelineInv, P!Next
<1>5. ASSUME NEW s \in {"timed_out", "canceled", "terminated"}, P!EndedFromOutside(s) PROVE TimelineInv'
  BY <1>1, <1>5, TraceOfEnd, ReadOfExecution, NextIInv DEF TimelineInv, P!Next
<1>6. ASSUME UNCHANGED P!execution, ReadInv' PROVE TimelineInv'
  BY <1>1, <1>6, TraceUnchanged, NextIInv DEF TimelineInv
<1>7. CASE P!Describe
  BY <1>1, <1>6, <1>7, ReadOfDescribe DEF P!Describe
<1>8. CASE P!ReadHistory
  BY <1>1, <1>6, <1>8, ReadOfHistory DEF P!ReadHistory, P!Answer
<1>9. CASE P!HistoryFails
  BY <1>1, <1>6, <1>9, ReadOfNoHistory DEF P!HistoryFails, P!Answer
<1>10. CASE UNCHANGED P!vars
  <2>1. UNCHANGED P!execution /\ UNCHANGED <<described, shown, polling>>
    BY <1>10 DEF P!vars, P!execution
  <2>2. polling' \in BOOLEAN
    BY <1>1, <2>1 DEF ReadInv, ClosedReadIsExact, P!TypeOK
  <2>3. DescribedFits'
    BY <1>1, <2>1 DEF ReadInv, DescribedFits, P!execution
  <2>4. ReadInv'
    BY <1>1, <2>1, <2>2, <2>3, ReadUnchanged
  <2>5. QED
    BY <1>6, <2>1, <2>4
<1>11. QED
  BY <1>2, <1>3, <1>4, <1>5, <1>7, <1>8, <1>9, <1>10 DEF P!Next

(* The page of an execution told to have closed shows what the history     *)
(* proves of each activity, in the order of the plan, whatever ended it    *)
(* and whenever the two reads happened; and the stage that failed is the   *)
(* same in the timeline, in the deployment and in the failure              *)
(* (workflows.py:251-336, 386-542, 609-665).                               *)
THEOREM ClosedReadsAreExact == P!Spec => []ClosedReadIsExact
<1>1. P!Init => TimelineInv
  BY WorkflowInputs, InitIInv, TraceOfInit, ReadOfInit DEF TimelineInv
<1>2. TimelineInv /\ [P!Next]_P!vars => TimelineInv'
  BY WorkflowInputs, NextTimelineInv
<1>3. TimelineInv => ClosedReadIsExact
  BY DEF TimelineInv, ReadInv
<1>4. QED
  BY <1>1, <1>2, <1>3, PTL DEF P!Spec
=============================================================================
