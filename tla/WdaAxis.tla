------------------------------ MODULE WdaAxis ------------------------------
(***************************************************************************)
(* The wda_state of one iPhone (src/common/ioshost/manager.go) as pure     *)
(* transitions: what the device control link, the clock and a WDA job do   *)
(* to it.  DeviceManager and IosJobs drive it.                             *)
(***************************************************************************)

WdaStates == {"unspecified", "missing", "preparing", "installed", "ready",
              "renewalDue", "expired", "failed"}

\* profileExpiresAt as the clock sees it; "none": no profile was recorded
Expiries == {"none", "fresh", "due", "past"}

\* outcomes of a job as OnTerminal delivers them
Outcomes == {"ok", "cancelled", "failed"}

\* States in which the WDA runner is known to be on the phone.
Provisioned == {"installed", "ready", "renewalDue", "expired"}

\* onDeviceState when deviceControlOn changes to online.
onState(wda, online) ==
    CASE online /\ wda # "preparing" -> "ready"
      [] ~online /\ wda = "ready" -> "installed"
      [] OTHER -> wda

\* refreshWdaExpiryLocked: renewBeforeDays is folded into Expiries.
refreshWdaExpiry(wda, expiry) ==
    CASE wda \notin {"ready", "installed", "renewalDue"} -> wda
      [] expiry = "past" -> "expired"
      [] expiry = "due" -> "renewalDue"
      [] OTHER -> wda

NoteWdaJobStarted(wda) == "preparing"

\* Mutant: a cancelled job leaves PREPARING behind.
NoteWdaJobResult_cancelledKeeps(wda, ctlOn, outcome) ==
    CASE outcome = "cancelled" -> wda
      [] outcome = "ok" -> IF ctlOn THEN "ready" ELSE "installed"
      [] OTHER -> "failed"

\* A cancelled job leaves the state alone unless it is PREPARING.
NoteWdaJobResult(wda, ctlOn, outcome) ==
    CASE outcome = "cancelled" -> IF wda = "preparing" THEN "missing" ELSE wda
      [] outcome = "ok" -> IF ctlOn THEN "ready" ELSE "installed"
      [] OTHER -> "failed"
=============================================================================
