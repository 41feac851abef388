------------------------------- MODULE LanScan -------------------------------
(***************************************************************************)
(* The updater's scan of the home network (updater/src/server.ts:74-123,   *)
(* 277-301): a flag in memory, the calls of runLanScan that await their    *)
(* docker process, and the inventory file.  What a scan finds is left out, *)
(* but for whether there is an inventory at all.                           *)
(***************************************************************************)
EXTENDS Integers

VARIABLES
  scan,      \* lanScan: whether one is running, and whether the last one failed
  jobs,      \* how many calls of runLanScan await their process
  inventory  \* is there an inventory file?

scanVars == <<scan, jobs, inventory>>

Idle == [running |-> FALSE, failed |-> FALSE]
-----------------------------------------------------------------------------
\* runLanScan up to its await.
Launch ==
  /\ scan' = [running |-> TRUE, failed |-> FALSE]
  /\ jobs' = jobs + 1
  /\ UNCHANGED inventory

\* Variant: the flag is not looked at.
StartAlways == Launch

\* startLanScan: nothing happens while a scan is running.
StartLanScan == IF scan.running THEN UNCHANGED scanVars ELSE Launch

\* The finally clause.
EndOfScan(failed) == scan' = [running |-> FALSE, failed |-> failed]

\* The process ends well; the file is replaced by a rename.
ScanSucceeds ==
  /\ jobs > 0
  /\ inventory' = TRUE
  /\ jobs' = jobs - 1
  /\ EndOfScan(FALSE)

\* docker fails, takes 10 minutes, or the file cannot be written.
ScanFails ==
  /\ jobs > 0
  /\ jobs' = jobs - 1
  /\ EndOfScan(TRUE)
  /\ UNCHANGED inventory

\* The timer 90 seconds after the start.
InitialScan ==
  /\ ~inventory
  /\ StartLanScan

\* The interval of LAN_SCAN_INTERVAL_HOURS, or POST /lan/scan by another page.
IntervalScan == StartLanScan

\* The updater stops and starts: what awaited a process is gone.
UpdaterRestart ==
  /\ scan' = Idle
  /\ jobs' = 0
  /\ UNCHANGED inventory

ScanInit ==
  /\ scan = Idle
  /\ jobs = 0
  /\ inventory \in BOOLEAN

ScanNext == ScanSucceeds \/ ScanFails \/ InitialScan \/ IntervalScan \/ UpdaterRestart
-----------------------------------------------------------------------------
(* Properties *)

ScanTypeOK ==
  /\ scan \in [running : BOOLEAN, failed : BOOLEAN]
  /\ jobs \in Nat
  /\ inventory \in BOOLEAN

(***************************************************************************)
(* Whoever asks for a scan, and however the last one ended: at most one is *)
(* running, and the flag that refuses another (server.ts:119-123) is up    *)
(* exactly while one is, so a scan that fails does not bar all later ones. *)
(***************************************************************************)
OneScan == jobs <= 1 /\ (scan.running <=> jobs = 1)
=============================================================================
