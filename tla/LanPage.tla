------------------------------- MODULE LanPage -------------------------------
(***************************************************************************)
(* The panel in the browser (web/public/app.js): the router, which renders *)
(* the page that location.hash names after awaiting its data, and the page *)
(* of a user's LAN access, which starts a scan when none has been made and *)
(* polls while one is running.  web/src/app.ts hands its requests on to    *)
(* the updater, and the scan is LanScan's.                                 *)
(*                                                                         *)
(* A step is the code between two awaits, or the moment at which the       *)
(* updater answers a request.  One browser window is modelled; another     *)
(* window can start scans too (IntervalScan).  Of what a page shows only   *)
(* whether it says that a scan is running is kept, which also disables its *)
(* button for another scan.                                                *)
(***************************************************************************)
EXTENDS LanScan

CONSTANTS
  Users,      \* VPN users, each with a page for the LAN access
  Elsewhere,  \* stands for the pages without such a timer
  Nowhere,    \* no page: nothing shown yet, no timer set
  Failed,     \* the card that says "Unable to load"
  Renders     \* bound: calls of route that can be in flight

ASSUME LanPageAssumption ==
  /\ Elsewhere \notin Users
  /\ Nowhere \notin Users \cup {Elsewhere}
  /\ Failed \notin Users \cup {Elsewhere, Nowhere}

VARIABLES
  hash,    \* the page that location.hash names
  render,  \* slot -> a call of route in flight
  lanPoll, \* the page of the timer that is set
  view,    \* the page on the screen, and whether it says that a scan is running
  click    \* what a button of the LAN page does, while it awaits the panel

pageVars == <<hash, render, lanPoll, view, click>>
vars == <<scan, jobs, inventory, hash, render, lanPoll, view, click>>
-----------------------------------------------------------------------------
Pages == Users \cup {Elsewhere}

NoRender == [step |-> "none"]

NoClick == [step |-> "none"]

Unknown == [network |-> FALSE, running |-> FALSE]

\* What the panel says of the network: what the updater does, or nothing when the
\* updater answers its GET /lan with an error status.
LanViews == {[network |-> inventory, running |-> scan.running], Unknown}

\* latest: id = renderId.
Rendering(page) ==
  [step |-> "get", page |-> page, latest |-> TRUE, data |-> Unknown]

Showing(page, running) == [page |-> page, scanning |-> running]

\* Every earlier render is no longer the latest.
Superseded ==
  [x \in Renders |-> IF render[x] = NoRender THEN NoRender
                                             ELSE [render[x] EXCEPT !.latest = FALSE]]

\* route, up to its first await.
Route(page) ==
  \E x \in Renders :
    /\ render[x] = NoRender
    /\ render' = [Superseded EXCEPT ![x] = Rendering(page)]

At(x, step) == render[x].step = step

Step(x, r) == render' = [render EXCEPT ![x] = r]

\* Variant: whichever render ends last is shown.
ShowLast(x, page, running) ==
  /\ view' = Showing(page, running)
  /\ click' = IF click = NoClick THEN click ELSE [click EXCEPT !.attached = FALSE]
  /\ Step(x, NoRender)

\* The end of route.  The elements of the page shown before are gone.
Show(x, page, running) ==
  /\ IF render[x].latest
       THEN /\ view' = Showing(page, running)
            /\ click' = IF click = NoClick THEN click ELSE [click EXCEPT !.attached = FALSE]
       ELSE UNCHANGED <<view, click>>
  /\ Step(x, NoRender)
-----------------------------------------------------------------------------
(* Loading a page *)

\* A page without a timer: its data comes, and it is shown.
Load(x) ==
  /\ At(x, "get")
  /\ render[x].page = Elsewhere
  /\ Show(x, Elsewhere, FALSE)
  /\ UNCHANGED <<scanVars, hash, lanPoll>>

\* The panel answers a GET for a LAN page with what the updater says now.
Answer(x) ==
  /\ \E lan \in LanViews :
       \/ /\ At(x, "get")
          /\ render[x].page \in Users
          /\ Step(x, [render[x] EXCEPT !.step = "got", !.data = lan])
       \/ /\ At(x, "again")
          /\ Step(x, [render[x] EXCEPT !.step = "last", !.data = lan])
  /\ UNCHANGED <<scanVars, hash, lanPoll, view, click>>

Ready(x) ==
  \/ At(x, "got") /\ (render[x].data.network \/ render[x].data.running)
  \/ At(x, "last")

\* Variant: the timer is set by the first render only.
SetOnce(x) ==
  lanPoll' = IF view.page # render[x].page /\ render[x].data.running THEN render[x].page
                                                                     ELSE lanPoll

\* lanPage sets the timer, whoever will see the page.
SetTimer(x) ==
  lanPoll' = IF render[x].data.running THEN render[x].page ELSE lanPoll

\* Nothing is known of the network and no scan is running: start one.
AskForScan(x) ==
  /\ At(x, "got")
  /\ ~Ready(x)
  /\ Step(x, [render[x] EXCEPT !.step = "ask"])
  /\ UNCHANGED <<scanVars, hash, lanPoll, view, click>>

ScanAsked(x) ==
  /\ At(x, "ask")
  /\ StartLanScan
  /\ Step(x, [render[x] EXCEPT !.step = "again"])
  /\ UNCHANGED <<hash, lanPoll, view, click>>

\* That request fails, which does not matter.
ScanNotAsked(x) ==
  /\ At(x, "ask")
  /\ Step(x, [render[x] EXCEPT !.step = "again"])
  /\ UNCHANGED <<scanVars, hash, lanPoll, view, click>>

ShowLanPage(x) ==
  /\ Ready(x)
  /\ SetTimer(x)
  /\ Show(x, render[x].page, render[x].data.running)
  /\ UNCHANGED <<scanVars, hash>>

\* A GET fails.
LoadFails(x) ==
  /\ At(x, "get") \/ At(x, "again")
  /\ Show(x, Failed, FALSE)
  /\ UNCHANGED <<scanVars, hash, lanPoll>>
-----------------------------------------------------------------------------
(* What starts a render *)

\* A link, the address bar, or go after a button's request.
Navigate(page) ==
  /\ page # hash
  /\ hash' = page
  /\ Route(page)
  /\ UNCHANGED <<scanVars, lanPoll, view, click>>

Retry ==
  /\ view.page = Failed
  /\ Route(hash)
  /\ UNCHANGED <<scanVars, hash, lanPoll, view, click>>

\* The timer of lanPage, 4 seconds later.
PollFires ==
  /\ lanPoll # Nowhere
  /\ lanPoll' = Nowhere
  /\ IF hash = lanPoll THEN Route(hash) ELSE UNCHANGED render
  /\ UNCHANGED <<scanVars, hash, view, click>>
-----------------------------------------------------------------------------
(* Buttons of the LAN page *)

OnLanPage == view.page \in Users

\* "Rescan network", which is disabled while the page says that one is running.
Rescan ==
  /\ OnLanPage
  /\ ~view.scanning
  /\ click = NoClick
  /\ click' = [step |-> "rescan", attached |-> TRUE, running |-> FALSE]
  /\ UNCHANGED <<scanVars, hash, render, lanPoll, view>>

RescanAnswered ==
  /\ click.step = "rescan"
  /\ StartLanScan
  /\ click' = [click EXCEPT !.step = "route"]
  /\ UNCHANGED <<hash, render, lanPoll, view>>

RescanRoutes ==
  /\ click.step = "route"
  /\ Route(hash)
  /\ click' = NoClick
  /\ UNCHANGED <<scanVars, hash, lanPoll, view>>

\* Any change of the policy; its response comes with a new view of the network.
Change ==
  /\ OnLanPage
  /\ click = NoClick
  /\ click' = [step |-> "change", attached |-> TRUE, running |-> FALSE]
  /\ UNCHANGED <<scanVars, hash, render, lanPoll, view>>

ChangeAnswered ==
  /\ click.step = "change"
  /\ \E lan \in LanViews :
       click' = [click EXCEPT !.step = "body", !.running = lan.running]
  /\ UNCHANGED <<scanVars, hash, render, lanPoll, view>>

\* The container gets a new body; it may no longer be on the screen.
ChangeShown ==
  /\ click.step = "body"
  /\ view' = IF click.attached THEN [view EXCEPT !.scanning = click.running] ELSE view
  /\ click' = NoClick
  /\ UNCHANGED <<scanVars, hash, render, lanPoll>>

\* The request of a button fails: a toast.
ClickFails ==
  /\ click.step \in {"rescan", "change"}
  /\ click' = NoClick
  /\ UNCHANGED <<scanVars, hash, render, lanPoll, view>>
-----------------------------------------------------------------------------
Init ==
  /\ ScanInit
  /\ hash \in Pages
  /\ \E x \in Renders : render = [y \in Renders |-> IF y = x THEN Rendering(hash) ELSE NoRender]
  /\ lanPoll = Nowhere
  /\ view = Showing(Nowhere, FALSE)
  /\ click = NoClick

\* What goes on by itself.
RenderStep(x) ==
  \/ Load(x) \/ Answer(x) \/ AskForScan(x) \/ ScanAsked(x) \/ ScanNotAsked(x)
  \/ ShowLanPage(x) \/ LoadFails(x)

ClickStep == RescanAnswered \/ RescanRoutes \/ ChangeAnswered \/ ChangeShown \/ ClickFails

Next ==
  \/ ScanNext /\ UNCHANGED pageVars
  \/ \E x \in Renders : RenderStep(x)
  \/ \E page \in Pages : Navigate(page)
  \/ Retry \/ PollFires \/ Rescan \/ Change
  \/ ClickStep

Spec == Init /\ [][Next]_vars

\* Requests are answered or fail, and timers fire.
Fairness ==
  /\ \A x \in Renders : WF_vars(RenderStep(x))
  /\ WF_vars(PollFires)
  /\ WF_vars(ClickStep)

FairSpec == Spec /\ Fairness
-----------------------------------------------------------------------------
(* Properties *)

Steps == {"get", "got", "ask", "again", "last"}

Network == [network : BOOLEAN, running : BOOLEAN]

\* Only the page of a user asks for more than one thing.
Calls ==
  [step : {"get"}, page : Pages, latest : BOOLEAN, data : Network]
    \cup [step : Steps, page : Users, latest : BOOLEAN, data : Network]

ClickSteps == {"rescan", "route", "change", "body"}

TypeOK ==
  /\ ScanTypeOK
  /\ hash \in Pages
  /\ render \in [Renders -> {NoRender} \cup Calls]
  /\ lanPoll \in Users \cup {Nowhere}
  /\ view \in [page : Pages \cup {Nowhere, Failed}, scanning : BOOLEAN]
  /\ click \in {NoClick} \cup [step : ClickSteps, attached : BOOLEAN, running : BOOLEAN]

(***************************************************************************)
(* The latest page wins (app.js:503-527, "A slower, older render must not  *)
(* overwrite the page the user moved to."): in whatever order the data of  *)
(* the pages comes, what is on the screen is what the user asked for last, *)
(* or a failure to load it, unless that is still loading.                  *)
(***************************************************************************)
LatestPageWins ==
  view.page # hash =>
    \/ view.page = Failed
    \/ \E x \in Renders : render[x] # NoRender /\ render[x].latest /\ render[x].page = hash

SaysScanning == OnLanPage /\ view.scanning

\* The response of a change tells a page of a scan it did not know of.
ChangeAnnouncesScan ==
  click.step = "body" /\ click.running /\ click.attached /\ ~view.scanning

(***************************************************************************)
(* When the user stays on a page and no more scans are running, the page   *)
(* does not go on saying that one is, so that its button can be used again *)
(* (docs/LAN-ACCESS.md:26: "Rescan network refreshes the inventory on      *)
(* demand."), however the polls, the user's moves and the scans of others  *)
(* are interleaved.  With two exceptions: a scan that the response of a    *)
(* change announces is not polled for (app.js:429-432 sets no timer), and  *)
(* there is one timer for all pages, which a slow render of another user's *)
(* page takes away (app.js:423-426): with two Users this is false.         *)
(***************************************************************************)
ScanShown ==
  \A page \in Pages :
    <>[](hash = page /\ ~scan.running) /\ []~ChangeAnnouncesScan => []<>~SaysScanning
=============================================================================
