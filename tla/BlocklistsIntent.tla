-------------------------- MODULE BlocklistsIntent --------------------------
(***************************************************************************)
(* What the administrator asked of each source, next to what Blocklists    *)
(* makes of it: asked is not a variable of the program, it only remembers  *)
(* the last reply the program gave.                                        *)
(***************************************************************************)
EXTENDS Blocklists

VARIABLE asked  \* source -> the state the administrator was told it is in

intentVars == <<vars, asked>>

\* The state a registry has a source in.
State(g, s) ==
  IF s \notin DOMAIN g THEN "gone" ELSE IF g[s].enabled THEN "on" ELSE "off"

\* A change answered while some request awaits a download may be undone by that
\* request, which saves the registry it read before.
Raced == "raced"

Records(s, state) ==
  asked' = [asked EXCEPT ![s] =
              IF \E r \in Requests : op'[r] \in Awaiting THEN Raced ELSE state]

Asked(enabled) == IF enabled THEN "on" ELSE "off"

\* A change that is answered with an error, or not at all, is made or not; whoever
\* asked looks what has become of it.
LeftOpen(s) == Records(s, State(registry', s))

\* A download answers whoever adds its source; a refresh changes no state.
Downloads(r, list) ==
  \/ AddCompletes(r, list) /\ Records(op[r].src, "on")
  \/ RefreshCompletes(r, list) /\ UNCHANGED asked
  \/ /\ (Crashes /\ DownloadCut(r, list)) \/ (WriteFaults /\ DownloadThrows(r, list))
     /\ IF op[r].kind = "add" THEN LeftOpen(op[r].src) ELSE UNCHANGED asked

Changes(s) ==
  \/ \E enabled \in BOOLEAN : SetEnabled(s, enabled) /\ Records(s, Asked(enabled))
  \/ Remove(s) /\ Records(s, "gone")
  \/ /\ s \in DOMAIN registry
     /\ (Crashes /\ ChangeCut(s)) \/ (WriteFaults /\ ChangeThrows(s))
     /\ LeftOpen(s)

AsksNothing ==
  \/ \E r \in Requests :
       \/ \E s \in Sources : AddBegins(r, s) \/ RefreshBegins(r, s) \/ RefreshAllNext(r, s)
       \/ RefreshAllBegins(r) \/ AddFails(r) \/ RefreshFails(r) \/ RefreshAllEnds(r)
  \/ Lookup
  \/ Reload
  \/ Crashes /\ Restart(cache, registry) /\ UNCHANGED now

IntentInit == Init /\ asked = [s \in Sources |-> State(registry, s)]

\* The steps of Next, with what they make of asked.
IntentNext ==
  \/ \E r \in Requests, list \in Lists : Downloads(r, list)
  \/ \E s \in Sources : Changes(s)
  \/ AsksNothing /\ UNCHANGED asked

IntentSpec == IntentInit /\ [][IntentNext]_intentVars
-----------------------------------------------------------------------------
(***************************************************************************)
(* What was switched, added or removed stays so (lists.ts:336-425):        *)
(* refreshes of this and other lists, failed ones, crashes and writes cut  *)
(* short in between notwithstanding, only a request that was awaiting its  *)
(* download when the change was made can undo it.                          *)
(***************************************************************************)
ChangesLast == \A s \in Sources : asked[s] \in {State(registry, s), Raced}
=============================================================================
