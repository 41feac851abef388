---------------------------- MODULE LanPageProofs ----------------------------
(***************************************************************************)
(* LanPage for any number of users, and of renders in flight.              *)
(*                                                                         *)
(* OneScan is inductive with the types.  LatestPageWins needs, of the      *)
(* renders, that the one which is the latest loads the page of             *)
(* location.hash: then a render that is shown shows that page.             *)
(* With that, a page that says a scan is running has its timer or render.  *)
(***************************************************************************)
EXTENDS LanPage, TLAPS

\* What the latest render loads.
LatestIsForHash ==
  \A x \in Renders : render[x] # NoRender /\ render[x].latest => render[x].page = hash

IInv == TypeOK /\ OneScan /\ LatestIsForHash /\ LatestPageWins
-----------------------------------------------------------------------------
(* The scan *)

\* A start, which may be refused, leaves one scan at most.
LEMMA StartKeepsOne ==
  ASSUME ScanTypeOK, OneScan, StartLanScan
  PROVE  ScanTypeOK' /\ OneScan'
<1>1. CASE scan.running
  BY <1>1 DEF ScanTypeOK, OneScan, StartLanScan, scanVars
<1>2. CASE ~scan.running
  <2>1. jobs = 0
    BY <1>2 DEF ScanTypeOK, OneScan
  <2>2. scan' = [running |-> TRUE, failed |-> FALSE] /\ jobs' = 1 /\ inventory' = inventory
    BY <1>2, <2>1 DEF StartLanScan, Launch
  <2>3. QED
    BY <2>2 DEF ScanTypeOK, OneScan
<1>3. QED
  BY <1>1, <1>2

\* Whatever the updater does.
LEMMA ScanKeepsOne ==
  ASSUME ScanTypeOK, OneScan, ScanNext
  PROVE  ScanTypeOK' /\ OneScan'
<1>1. CASE ScanSucceeds
  BY <1>1 DEF ScanTypeOK, OneScan, ScanSucceeds, EndOfScan
<1>2. CASE ScanFails
  BY <1>2 DEF ScanTypeOK, OneScan, ScanFails, EndOfScan
<1>3. CASE InitialScan
  BY <1>3, StartKeepsOne DEF InitialScan
<1>4. CASE IntervalScan
  BY <1>4, StartKeepsOne DEF IntervalScan
<1>5. CASE UpdaterRestart
  BY <1>5 DEF ScanTypeOK, OneScan, UpdaterRestart, Idle
<1>6. QED
  BY <1>1, <1>2, <1>3, <1>4, <1>5 DEF ScanNext

\* What the page leaves alone.
LEMMA ScanUnchanged ==
  ASSUME ScanTypeOK, OneScan, UNCHANGED scanVars
  PROVE  ScanTypeOK' /\ OneScan'
BY DEF ScanTypeOK, OneScan, scanVars
-----------------------------------------------------------------------------
(* The renders *)

PageTypeOK ==
  /\ hash \in Pages
  /\ render \in [Renders -> {NoRender} \cup Calls]
  /\ lanPoll \in Users \cup {Nowhere}
  /\ view \in [page : Pages \cup {Nowhere, Failed}, scanning : BOOLEAN]
  /\ click \in {NoClick} \cup [step : ClickSteps, attached : BOOLEAN, running : BOOLEAN]

PageInv == PageTypeOK /\ LatestIsForHash /\ LatestPageWins

\* A slot at one of the steps holds a call.
LEMMA AtIsCall ==
  ASSUME PageTypeOK, NEW x \in Renders, NEW step \in Steps, At(x, step)
  PROVE  render[x] \in Calls /\ render[x] # NoRender
BY DEF PageTypeOK, At, NoRender, Steps, Calls

\* A new render is the latest, and loads the page of location.hash.
LEMMA RouteKeeps ==
  ASSUME PageTypeOK, hash' \in Pages, Route(hash')
  PROVE  /\ render' \in [Renders -> {NoRender} \cup Calls]
         /\ LatestIsForHash'
         /\ \E x \in Renders :
              render'[x] # NoRender /\ render'[x].latest /\ render'[x].page = hash'
<1>1. PICK x \in Renders :
        /\ render[x] = NoRender
        /\ render' = [Superseded EXCEPT ![x] = Rendering(hash')]
  BY DEF Route
<1>2. Rendering(hash') \in Calls /\ Rendering(hash') # NoRender
  BY DEF Rendering, Calls, Steps, Network, Unknown, NoRender
<1>3. ASSUME NEW y \in Renders, y # x
      PROVE  /\ render'[y] \in {NoRender} \cup Calls
             /\ render'[y] = NoRender \/ ~render'[y].latest
  <2>1. render'[y] = Superseded[y]
    BY <1>1, <1>3 DEF Superseded
  <2>2. CASE render[y] = NoRender
    BY <2>1, <2>2 DEF Superseded
  <2>3. CASE render[y] # NoRender
    <3>1. render[y] \in Calls
      BY <2>3 DEF PageTypeOK
    <3>2. render'[y] = [render[y] EXCEPT !.latest = FALSE]
      BY <2>1, <2>3 DEF Superseded
    <3>3. QED
      BY <3>1, <3>2 DEF Calls
  <2>4. QED
    BY <2>2, <2>3
<1>4. render'[x] = Rendering(hash')
  BY <1>1 DEF Superseded
<1>5. render' \in [Renders -> {NoRender} \cup Calls]
  <2>1. DOMAIN render' = Renders /\ render' = [y \in Renders |-> render'[y]]
    BY <1>1 DEF Superseded
  <2>2. QED
    BY <2>1, <1>2, <1>3, <1>4
<1>6. LatestIsForHash'
  BY <1>2, <1>3, <1>4 DEF LatestIsForHash, Rendering
<1>7. QED
  BY <1>2, <1>4, <1>5, <1>6 DEF Rendering

\* A render that is shown, if it is the latest, or else forgotten.
LEMMA ShowKeeps ==
  ASSUME PageInv, NEW x \in Renders, render[x] # NoRender,
         NEW page, NEW running \in BOOLEAN,
         page = render[x].page \/ page = Failed,
         Show(x, page, running), lanPoll' \in Users \cup {Nowhere}, hash' = hash
  PROVE  PageInv'
<1>1. render[x] \in Calls
  BY DEF PageInv, PageTypeOK
<1>2. render' = [render EXCEPT ![x] = NoRender]
  BY DEF Show, Step
<1>3. render' \in [Renders -> {NoRender} \cup Calls]
  BY <1>2 DEF PageInv, PageTypeOK
<1>4. LatestIsForHash'
  BY <1>2 DEF PageInv, PageTypeOK, LatestIsForHash
<1>5. click' \in {NoClick} \cup [step : ClickSteps, attached : BOOLEAN, running : BOOLEAN]
  BY DEF PageInv, PageTypeOK, Show
<1>6. CASE render[x].latest
  <2>1. view' = Showing(page, running)
    BY <1>6 DEF Show
  <2>2. page \in Pages \cup {Failed}
    BY <1>1 DEF Calls, Pages
  <2>3. page = hash \/ page = Failed
    BY <1>6 DEF PageInv, LatestIsForHash
  <2>4. view' \in [page : Pages \cup {Nowhere, Failed}, scanning : BOOLEAN]
    BY <2>1, <2>2 DEF Showing
  <2>5. LatestPageWins'
    BY <2>1, <2>3 DEF LatestPageWins, Showing
  <2>6. QED
    BY <1>3, <1>4, <1>5, <2>4, <2>5 DEF PageInv, PageTypeOK
<1>7. CASE ~render[x].latest
  <2>1. view' = view
    BY <1>7 DEF Show
  <2>2. LatestPageWins'
    BY <1>2, <1>7, <2>1 DEF PageInv, PageTypeOK, LatestPageWins
  <2>3. QED
    BY <1>3, <1>4, <1>5, <2>1, <2>2 DEF PageInv, PageTypeOK
<1>8. QED
  BY <1>1, <1>6, <1>7 DEF Calls

\* A render that goes on to its next await.
LEMMA StepKeeps ==
  ASSUME PageInv, NEW x \in Renders, render[x] # NoRender,
         NEW next \in Calls, next.latest = render[x].latest, next.page = render[x].page,
         Step(x, next), UNCHANGED <<hash, lanPoll, view, click>>
  PROVE  PageInv'
<1>1. render' = [render EXCEPT ![x] = next]
  BY DEF Step
<1>2. next # NoRender
  BY DEF Calls, NoRender, Steps
<1>3. PageTypeOK'
  BY <1>1 DEF PageInv, PageTypeOK
<1>4. LatestIsForHash'
  BY <1>1 DEF PageInv, PageTypeOK, LatestIsForHash
<1>5. LatestPageWins'
  BY <1>1, <1>2 DEF PageInv, PageTypeOK, LatestPageWins
<1>6. QED
  BY <1>3, <1>4, <1>5 DEF PageInv

\* What LanPage leaves alone.
LEMMA PageUnchanged ==
  ASSUME PageInv, UNCHANGED pageVars
  PROVE  PageInv'
BY DEF PageInv, PageTypeOK, LatestIsForHash, LatestPageWins, pageVars
-----------------------------------------------------------------------------
(* The steps of the page *)

\* What the panel says of the network.
LEMMA LanViewTypes ==
  ASSUME ScanTypeOK, NEW lan \in LanViews
  PROVE  lan \in Network /\ lan.running \in BOOLEAN
<1>1. inventory \in BOOLEAN /\ scan.running \in BOOLEAN
  BY DEF ScanTypeOK
<1>2. [network |-> inventory, running |-> scan.running] \in Network /\ Unknown \in Network
  BY <1>1 DEF Network, Unknown
<1>3. lan \in Network
  BY <1>2 DEF LanViews
<1> QED
  BY <1>3 DEF Network

\* The data of a page comes, or is asked for again, or does not come.
LEMMA RenderStepKeeps ==
  ASSUME PageInv, ScanTypeOK, NEW x \in Renders, RenderStep(x)
  PROVE  PageInv'
<1>1. CASE Load(x)
  <2>1. render[x] # NoRender
    BY <1>1, AtIsCall DEF Load, PageInv, Steps
  <2>2. QED
    BY <1>1, <2>1, ShowKeeps DEF Load, PageInv, PageTypeOK
<1>2. CASE Answer(x)
  <2>1. PICK step \in {"got", "last"}, lan \in LanViews :
          Step(x, [render[x] EXCEPT !.step = step, !.data = lan])
    BY <1>2 DEF Answer
  <2>2. render[x] \in Calls /\ render[x] # NoRender
    BY <1>2, AtIsCall DEF Answer, PageInv, Steps
  <2>3. lan \in Network
    BY LanViewTypes
  <2> DEFINE next == [render[x] EXCEPT !.step = step, !.data = lan]
  <2>4. next \in Calls /\ next.latest = render[x].latest /\ next.page = render[x].page
    <3>1. render[x].page \in Users
      BY <1>2, <2>2 DEF Answer, At, Calls
    <3>2. QED
      BY <2>2, <2>3, <3>1 DEF Calls, Steps
  <2>5. UNCHANGED <<hash, lanPoll, view, click>>
    BY <1>2 DEF Answer
  <2>6. QED
    BY <2>1, <2>2, <2>4, <2>5, StepKeeps
<1>3. CASE AskForScan(x) \/ ScanAsked(x) \/ ScanNotAsked(x)
  <2>1. PICK step \in {"ask", "again"} : Step(x, [render[x] EXCEPT !.step = step])
    BY <1>3 DEF AskForScan, ScanAsked, ScanNotAsked
  <2>2. render[x] \in Calls /\ render[x] # NoRender
    BY <1>3, AtIsCall DEF AskForScan, ScanAsked, ScanNotAsked, PageInv, Steps
  <2> DEFINE next == [render[x] EXCEPT !.step = step]
  <2>3. next \in Calls /\ next.latest = render[x].latest /\ next.page = render[x].page
    <3>1. render[x].page \in Users
      BY <1>3, <2>2 DEF AskForScan, ScanAsked, ScanNotAsked, At, Calls
    <3>2. QED
      BY <2>2, <3>1 DEF Calls, Steps
  <2>4. UNCHANGED <<hash, lanPoll, view, click>>
    BY <1>3 DEF AskForScan, ScanAsked, ScanNotAsked
  <2>5. QED
    BY <2>1, <2>2, <2>3, <2>4, StepKeeps
<1>4. CASE ShowLanPage(x)
  <2>1. render[x] \in Calls /\ render[x] # NoRender
    BY <1>4, AtIsCall DEF ShowLanPage, Ready, PageInv, Steps
  <2>2. render[x].data.running \in BOOLEAN
    BY <2>1 DEF Calls, Network
  <2>3. lanPoll' \in Users \cup {Nowhere}
    BY <1>4, <2>1 DEF ShowLanPage, Ready, At, SetTimer, PageInv, PageTypeOK, Calls
  <2>4. QED
    BY <1>4, <2>1, <2>2, <2>3, ShowKeeps DEF ShowLanPage
<1>5. CASE LoadFails(x)
  <2>1. render[x] # NoRender
    BY <1>5, AtIsCall DEF LoadFails, PageInv, Steps
  <2>2. QED
    BY <1>5, <2>1, ShowKeeps DEF LoadFails, PageInv, PageTypeOK
<1>6. QED
  BY <1>1, <1>2, <1>3, <1>4, <1>5 DEF RenderStep

\* A new render is started.
LEMMA RoutingKeeps ==
  ASSUME PageInv, hash' \in Pages, Route(hash'), lanPoll' \in Users \cup {Nowhere},
         UNCHANGED view,
         click' \in {NoClick} \cup [step : ClickSteps, attached : BOOLEAN, running : BOOLEAN]
  PROVE  PageInv'
<1>1. PageTypeOK'
  BY RouteKeeps DEF PageInv, PageTypeOK
<1>2. QED
  BY <1>1, RouteKeeps DEF PageInv, LatestPageWins

\* Nothing but the click, the timer, or what the page says of the scan.
LEMMA OtherKeeps ==
  ASSUME PageInv, UNCHANGED <<hash, render>>, lanPoll' \in Users \cup {Nowhere},
         view' \in [page : Pages \cup {Nowhere, Failed}, scanning : BOOLEAN],
         view'.page = view.page,
         click' \in {NoClick} \cup [step : ClickSteps, attached : BOOLEAN, running : BOOLEAN]
  PROVE  PageInv'
BY DEF PageInv, PageTypeOK, LatestIsForHash, LatestPageWins

LEMMA ClickIsCall ==
  ASSUME PageTypeOK, NEW step \in ClickSteps, click.step = step
  PROVE  click \in [step : ClickSteps, attached : BOOLEAN, running : BOOLEAN]
BY DEF PageTypeOK, NoClick, ClickSteps

\* A button's request is made, answered or fails.
LEMMA ClickStepKeeps ==
  ASSUME PageInv, ScanTypeOK, ClickStep
  PROVE  PageInv'
<1>1. CASE RescanAnswered \/ ChangeAnswered
  <2>1. click \in [step : ClickSteps, attached : BOOLEAN, running : BOOLEAN]
    BY <1>1, ClickIsCall DEF RescanAnswered, ChangeAnswered, PageInv, ClickSteps
  <2>2. click' \in [step : ClickSteps, attached : BOOLEAN, running : BOOLEAN]
    <3>1. CASE RescanAnswered
      BY <2>1, <3>1 DEF RescanAnswered, ClickSteps
    <3>2. CASE ChangeAnswered
      <4>1. PICK lan \in LanViews :
              click' = [click EXCEPT !.step = "body", !.running = lan.running]
        BY <3>2 DEF ChangeAnswered
      <4>2. lan.running \in BOOLEAN
        BY LanViewTypes
      <4> QED
        BY <2>1, <4>1, <4>2 DEF ClickSteps
    <3> QED
      BY <1>1, <3>1, <3>2
  <2>3. QED
    BY <1>1, <2>2, OtherKeeps DEF RescanAnswered, ChangeAnswered, PageInv, PageTypeOK
<1>2. CASE RescanRoutes
  BY <1>2, RoutingKeeps DEF RescanRoutes, PageInv, PageTypeOK
<1>3. CASE ChangeShown
  <2>1. click \in [step : ClickSteps, attached : BOOLEAN, running : BOOLEAN]
    BY <1>3, ClickIsCall DEF ChangeShown, PageInv, ClickSteps
  <2>2. view \in [page : Pages \cup {Nowhere, Failed}, scanning : BOOLEAN]
    BY DEF PageInv, PageTypeOK
  <2>3. /\ view' \in [page : Pages \cup {Nowhere, Failed}, scanning : BOOLEAN]
        /\ view'.page = view.page
    BY <1>3, <2>1, <2>2 DEF ChangeShown
  <2>4. QED
    BY <1>3, <2>3, OtherKeeps DEF ChangeShown, PageInv, PageTypeOK
<1>4. CASE ClickFails
  BY <1>4, OtherKeeps DEF ClickFails, PageInv, PageTypeOK
<1>5. QED
  BY <1>1, <1>2, <1>3, <1>4 DEF ClickStep

LEMMA PageKeeps ==
  ASSUME PageInv, ScanTypeOK, [Next]_vars
  PROVE  PageInv'
<1>1. CASE ScanNext /\ UNCHANGED pageVars
  BY <1>1, PageUnchanged
<1>2. CASE \E x \in Renders : RenderStep(x)
  BY <1>2, RenderStepKeeps
<1>3. CASE \E page \in Pages : Navigate(page)
  BY <1>3, RoutingKeeps DEF Navigate, PageInv, PageTypeOK
<1>4. CASE Retry
  BY <1>4, RoutingKeeps DEF Retry, PageInv, PageTypeOK
<1>5. CASE PollFires
  <2>1. CASE hash = lanPoll
    BY <1>5, <2>1, RoutingKeeps DEF PollFires, PageInv, PageTypeOK
  <2>2. CASE hash # lanPoll
    BY <1>5, <2>2, OtherKeeps DEF PollFires, PageInv, PageTypeOK
  <2>3. QED
    BY <2>1, <2>2
<1>6. CASE Rescan \/ Change
  <2>1. PICK step \in ClickSteps : click' = [step |-> step, attached |-> TRUE, running |-> FALSE]
    BY <1>6 DEF Rescan, Change, ClickSteps
  <2>2. QED
    BY <1>6, <2>1, OtherKeeps DEF Rescan, Change, PageInv, PageTypeOK
<1>7. CASE ClickStep
  BY <1>7, ClickStepKeeps
<1>8. CASE UNCHANGED vars
  BY <1>8, PageUnchanged DEF vars, pageVars
<1>9. QED
  BY <1>1, <1>2, <1>3, <1>4, <1>5, <1>6, <1>7, <1>8 DEF Next
-----------------------------------------------------------------------------
(* The invariant *)

LEMMA StartHolds ==
  ASSUME Init
  PROVE  IInv
<1>1. ScanTypeOK /\ OneScan
  BY DEF Init, ScanInit, ScanTypeOK, OneScan, Idle
<1>2. PICK x \in Renders :
        render = [y \in Renders |-> IF y = x THEN Rendering(hash) ELSE NoRender]
  BY DEF Init
<1>3. Rendering(hash) \in Calls /\ Rendering(hash) # NoRender
  BY DEF Init, Rendering, Calls, Steps, Network, Unknown, NoRender
<1>4. PageTypeOK
  BY <1>2, <1>3 DEF Init, PageTypeOK, Showing
<1>5. LatestIsForHash /\ LatestPageWins
  BY <1>2, <1>3 DEF LatestIsForHash, LatestPageWins, Rendering
<1>6. QED
  BY <1>1, <1>4, <1>5 DEF IInv, TypeOK, PageTypeOK

LEMMA ScanStepKeeps ==
  ASSUME ScanTypeOK, OneScan, [Next]_vars
  PROVE  ScanTypeOK' /\ OneScan'
<1>1. CASE ScanNext
  BY <1>1, ScanKeepsOne
<1>2. CASE StartLanScan
  BY <1>2, StartKeepsOne
<1>3. CASE UNCHANGED scanVars
  BY <1>3, ScanUnchanged
<1>4. CASE \E x \in Renders : RenderStep(x)
  BY <1>2, <1>3, <1>4
  DEF RenderStep, Load, Answer, AskForScan, ScanAsked, ScanNotAsked, ShowLanPage, LoadFails
<1>5. CASE \E page \in Pages : Navigate(page)
  BY <1>3, <1>5 DEF Navigate
<1>6. CASE Retry \/ PollFires \/ Rescan \/ Change
  BY <1>3, <1>6 DEF Retry, PollFires, Rescan, Change
<1>7. CASE ClickStep
  BY <1>2, <1>3, <1>7
  DEF ClickStep, RescanAnswered, RescanRoutes, ChangeAnswered, ChangeShown, ClickFails
<1>8. CASE UNCHANGED vars
  BY <1>3, <1>8 DEF vars, scanVars
<1>9. QED
  BY <1>1, <1>4, <1>5, <1>6, <1>7, <1>8 DEF Next

LEMMA NextKeeps ==
  ASSUME IInv, [Next]_vars
  PROVE  IInv'
<1>1. ScanTypeOK /\ OneScan /\ PageInv
  BY DEF IInv, TypeOK, PageInv, PageTypeOK
<1>2. ScanTypeOK' /\ OneScan'
  BY <1>1, ScanStepKeeps
<1>3. PageInv'
  BY <1>1, PageKeeps
<1>4. QED
  BY <1>2, <1>3 DEF IInv, TypeOK, PageInv, PageTypeOK

LEMMA Invariant == Spec => []IInv
BY StartHolds, NextKeeps, PTL DEF Spec

(***************************************************************************)
(* The page, its timer and its renders stay what app.js makes of them, for *)
(* every number of users and of renders in flight.                         *)
(***************************************************************************)
THEOREM TypeCorrect == Spec => []TypeOK
<1>1. IInv => TypeOK
  BY DEF IInv
<1>2. QED
  BY <1>1, Invariant, PTL

(***************************************************************************)
(* However the panel's requests, the schedule and restarts of the updater  *)
(* are interleaved: one scan at most runs, and startLanScan refuses one    *)
(* exactly while it does (updater/src/server.ts:93-123).                   *)
(***************************************************************************)
THEOREM OneScanSafe == Spec => []OneScan
<1>1. IInv => OneScan
  BY DEF IInv
<1>2. QED
  BY <1>1, Invariant, PTL

(***************************************************************************)
(* In whatever order the answers of any number of renders come, the page   *)
(* on the screen is the one asked for last (app.js:503-527).               *)
(***************************************************************************)
THEOREM LatestPageWinsSafe == Spec => []LatestPageWins
<1>1. IInv => LatestPageWins
  BY DEF IInv
<1>2. QED
  BY <1>1, Invariant, PTL
-----------------------------------------------------------------------------
(***************************************************************************)
(* A page that says that a scan is running is polled: its timer is set, or *)
(* the render that will replace it is loading.  That is what ScanShown     *)
(* rests on; with it only the requests' answers and the timer are needed.  *)
(***************************************************************************)
Loading == \E x \in Renders : render[x] # NoRender /\ render[x].latest

Polled == SaysScanning => lanPoll = view.page \/ Loading

PollInv == IInv /\ Polled

\* A render that starts is loading.
LEMMA RouteLoads ==
  ASSUME PageTypeOK, hash' \in Pages, Route(hash')
  PROVE  Loading'
BY RouteKeeps DEF Loading

\* A render that is dropped at its end was not the latest.
LEMMA ShowLoads ==
  ASSUME PageTypeOK, NEW x \in Renders, NEW page, NEW running, Show(x, page, running),
         ~render[x].latest, Loading
  PROVE  Loading'
BY DEF Loading, Show, Step, PageTypeOK

\* One that goes on is loading as before.
LEMMA StepLoads ==
  ASSUME PageTypeOK, NEW x \in Renders, render[x] \in Calls, NEW step \in Steps, NEW data,
         \/ Step(x, [render[x] EXCEPT !.step = step, !.data = data])
         \/ Step(x, [render[x] EXCEPT !.step = step]),
         Loading
  PROVE  Loading'
<1>1. PICK y \in Renders : render[y] # NoRender /\ render[y].latest
  BY DEF Loading
<1>2. CASE y = x
  <2>1. PICK next : /\ render' = [render EXCEPT ![x] = next]
                     /\ \/ next = [render[x] EXCEPT !.step = step, !.data = data]
                        \/ next = [render[x] EXCEPT !.step = step]
    BY DEF Step
  <2>2. next.latest = render[x].latest /\ next.step = step
    BY <2>1 DEF Calls
  <2>3. render'[x] = next
    BY <2>1 DEF PageTypeOK
  <2> QED BY <1>1, <1>2, <2>2, <2>3 DEF Loading, NoRender, Steps
<1>3. CASE y # x
  BY <1>1, <1>3 DEF Loading, Step, PageTypeOK
<1> QED BY <1>2, <1>3

\* A page's load ends, or goes on.
LEMMA RenderStepPolls ==
  ASSUME PageInv, Polled, \A u, v \in Users : u = v, NEW x \in Renders, RenderStep(x)
  PROVE  Polled'
<1>1. CASE Load(x) \/ LoadFails(x)
  <2>1. PICK page \in {Elsewhere, Failed} : Show(x, page, FALSE)
    BY <1>1 DEF Load, LoadFails
  <2>2. lanPoll' = lanPoll
    BY <1>1 DEF Load, LoadFails
  <2>3. CASE render[x].latest
    BY <2>1, <2>3 DEF Show, Showing, Polled, SaysScanning
  <2>4. CASE ~render[x].latest
    BY <2>1, <2>2, <2>4, ShowLoads DEF Show, Polled, SaysScanning, OnLanPage, PageInv
  <2> QED BY <2>3, <2>4
<1>2. CASE Answer(x) \/ AskForScan(x) \/ ScanAsked(x) \/ ScanNotAsked(x)
  <2>1. \E step \in Steps :
          \/ \E lan \in LanViews : Step(x, [render[x] EXCEPT !.step = step, !.data = lan])
          \/ Step(x, [render[x] EXCEPT !.step = step])
    BY <1>2 DEF Answer, AskForScan, ScanAsked, ScanNotAsked, Steps
  <2>2. UNCHANGED <<lanPoll, view>>
    BY <1>2 DEF Answer, AskForScan, ScanAsked, ScanNotAsked
  <2>3. render[x] \in Calls
    BY <1>2, AtIsCall DEF Answer, AskForScan, ScanAsked, ScanNotAsked, PageInv, Steps
  <2>4. Loading => Loading'
    BY <2>1, <2>3, StepLoads DEF PageInv
  <2> QED BY <2>2, <2>4 DEF Polled, SaysScanning, OnLanPage
<1>3. CASE ShowLanPage(x)
  <2>1. render[x] \in Calls /\ render[x] # NoRender
    BY <1>3, AtIsCall DEF ShowLanPage, Ready, PageInv, Steps
  <2>2. render[x].page \in Users
    BY <1>3, <2>1 DEF ShowLanPage, Ready, At, Calls
  <2>3. lanPoll' = IF render[x].data.running THEN render[x].page ELSE lanPoll
    BY <1>3 DEF ShowLanPage, SetTimer
  <2>4. Show(x, render[x].page, render[x].data.running)
    BY <1>3 DEF ShowLanPage
  <2>5. CASE render[x].latest
    BY <2>3, <2>4, <2>5 DEF Show, Showing, Polled, SaysScanning
  <2>6. CASE ~render[x].latest
    <3>1. view' = view
      BY <2>4, <2>6 DEF Show
    <3>2. SaysScanning /\ lanPoll = view.page => lanPoll' = view.page
      BY <2>2, <2>3 DEF SaysScanning, OnLanPage
    <3>3. Loading => Loading'
      BY <2>4, <2>6, ShowLoads DEF PageInv
    <3> QED BY <3>1, <3>2, <3>3 DEF Polled, SaysScanning, OnLanPage
  <2> QED BY <2>1, <2>5, <2>6 DEF Calls
<1> QED BY <1>1, <1>2, <1>3 DEF RenderStep

LEMMA PollKept ==
  ASSUME PollInv, ~ChangeAnnouncesScan, \A u, v \in Users : u = v, [Next]_vars
  PROVE  Polled'
<1>0. PageInv /\ Polled
  BY DEF PollInv, IInv, TypeOK, PageInv, PageTypeOK
<1>1. CASE (ScanNext /\ UNCHANGED pageVars) \/ UNCHANGED vars
  BY <1>0, <1>1 DEF vars, pageVars, Polled, SaysScanning, OnLanPage, Loading
<1>2. CASE \E x \in Renders : RenderStep(x)
  BY <1>0, <1>2, RenderStepPolls
<1>3. CASE \E page \in Pages : Navigate(page)
  BY <1>0, <1>3, RouteLoads DEF Navigate, PageInv, PageTypeOK, Polled
<1>4. CASE Retry \/ RescanRoutes
  BY <1>0, <1>4, RouteLoads DEF Retry, RescanRoutes, PageInv, PageTypeOK, Polled
<1>5. CASE PollFires
  <2>1. CASE hash = lanPoll
    BY <1>0, <1>5, <2>1, RouteLoads DEF PollFires, PageInv, PageTypeOK, Polled
  <2>2. CASE hash # lanPoll
    <3>1. UNCHANGED <<render, view>>
      BY <1>5, <2>2 DEF PollFires
    <3>2. SaysScanning => Loading
      <4>1. SaysScanning /\ view.page # hash => Loading
        BY <1>0, LanPageAssumption
        DEF SaysScanning, OnLanPage, PageInv, LatestPageWins, Loading
      <4> QED BY <1>0, <2>2, <4>1 DEF Polled
    <3> QED BY <3>1, <3>2 DEF Polled, SaysScanning, OnLanPage, Loading
  <2> QED BY <2>1, <2>2
<1>6. CASE Rescan \/ Change \/ RescanAnswered \/ ChangeAnswered \/ ClickFails
  BY <1>0, <1>6 DEF Rescan, Change, RescanAnswered, ChangeAnswered, ClickFails, Polled,
                    SaysScanning, OnLanPage, Loading
<1>7. CASE ChangeShown
  <2>1. UNCHANGED <<render, lanPoll>>
    BY <1>7 DEF ChangeShown
  <2>2. click \in [step : ClickSteps, attached : BOOLEAN, running : BOOLEAN]
    BY <1>0, <1>7, ClickIsCall DEF ChangeShown, PageInv, ClickSteps
  <2>3. view' = view \/ view' = [view EXCEPT !.scanning = click.running]
    BY <1>7 DEF ChangeShown
  <2>4. view \in [page : Pages \cup {Nowhere, Failed}, scanning : BOOLEAN]
    BY <1>0 DEF PageInv, PageTypeOK
  <2>5. view'.page = view.page /\ (view'.scanning => view.scanning)
    BY <1>7, <2>2, <2>4 DEF ChangeShown, ChangeAnnouncesScan
  <2> QED BY <1>0, <2>1, <2>5 DEF Polled, SaysScanning, OnLanPage, Loading
<1> QED
  BY <1>1, <1>2, <1>3, <1>4, <1>5, <1>6, <1>7 DEF Next, ClickStep

(***************************************************************************)
(* As long as no response of a change announces a scan (app.js:429-432),   *)
(* and there is one page the one timer can be set for (app.js:423-426): a  *)
(* page that says that a scan is running, and so bars another, is polled.  *)
(* Whatever is in flight, a step that takes the timer or the render away   *)
(* puts the other in its place, or a page that does not say so.            *)
(***************************************************************************)
THEOREM ScanningPageIsPolled ==
  ASSUME \A u, v \in Users : u = v
  PROVE  Spec /\ []~ChangeAnnouncesScan => []Polled
<1>1. Init => PollInv
  BY StartHolds, LanPageAssumption
  DEF PollInv, Polled, SaysScanning, OnLanPage, Showing, Init
<1>2. PollInv /\ ~ChangeAnnouncesScan /\ [Next]_vars => PollInv'
  BY PollKept, NextKeeps DEF PollInv
<1>3. PollInv => Polled
  BY DEF PollInv
<1> QED
  BY <1>1, <1>2, <1>3, PTL DEF Spec
=============================================================================
