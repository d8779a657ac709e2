------------------------------- MODULE Browser ------------------------------
(* The page that is open polls, or is a device's.                          *)
EXTENDS UsePolling

CONSTANTS DetailInterval, DetailStaleAfter, BaseTimeout, LiveTimeout

VARIABLES
  page, dVisible, dMounted, dRequest, dLate, dTimers, dTimer, dStaleTimer,
  dData, dError, dStale, dOpened, dUnreported

D == INSTANCE DeviceDetail WITH
  Interval <- DetailInterval, StaleAfter <- DetailStaleAfter,
  visible <- dVisible, mounted <- dMounted, request <- dRequest, late <- dLate,
  timers <- dTimers, timer <- dTimer, staleTimer <- dStaleTimer, data <- dData,
  error <- dError, stale <- dStale, opened <- dOpened, unreported <- dUnreported

ASSUME DetailTimes == D!DetailConstants

detail == <<dVisible, dMounted, dRequest, dLate, dTimers, dTimer, dStaleTimer, dData, dError,
            dStale, dOpened, dUnreported>>
browser == <<page, vars, detail>>

BrowserInit ==
  /\ Init /\ D!Init
  /\ \/ page = "polling" /\ ~dVisible
     \/ page = "device" /\ ~visible

Polls(A) == page = "polling" /\ A /\ UNCHANGED <<page, detail>>
ShowsDevice(A) == page = "device" /\ A /\ UNCHANGED <<page, vars>>

BrowserNext == Polls(Next) \/ ShowsDevice(D!Next)

(* The browser's clock runs and its timers and timeouts fire.              *)
BrowserSpec ==
  /\ BrowserInit /\ [][BrowserNext]_browser
  /\ WF_browser(Polls(Tick)) /\ WF_browser(ShowsDevice(D!Tick))
  /\ \A i \in TimerId :
       WF_browser(Polls(Fire(i))) /\ WF_browser(ShowsDevice(D!Fire(i)))
  /\ WF_browser(Polls(FireStale)) /\ WF_browser(ShowsDevice(D!FireStale))
  /\ WF_browser(Polls(TimesOut)) /\ WF_browser(ShowsDevice(D!TimesOut))

(* One clock per device page, whose mark and reason are true; its state is  *)
(* of the right kind (DeviceDetailPage.tsx:12-86).                          *)
DetailIsSound == D!DetailIsSound

(* The live read ends and, if it failed, the page says so                   *)
(* (DeviceDetailPage.tsx:31-78).                                            *)
LiveReadReported == D!LiveReadReported

(* No refresh takes the comparison away (DeviceDetailPage.tsx:37-50).       *)
ComparisonRetained == D!ComparisonRetained

(* A visible device page keeps refreshing (DeviceDetailPage.tsx:26-82).     *)
KeepsRefreshing == D!KeepsRefreshing
=============================================================================
