---------------------------- MODULE TunnelAgent ----------------------------
(***************************************************************************)
(* The tunnels to one phone: the loop that reconciles USB tunnels          *)
(* (src/common/ioshost/tunnel.go) and the LAN agent that keeps a tunnel to *)
(* a claimed phone without a cable (lan.go), with the flag WDA jobs pause  *)
(* both by.  Both look at usbmuxd first and act on what they saw later.    *)
(***************************************************************************)
EXTENDS Naturals

CONSTANTS ForceAfterFailures,   \* forceAfterFailures
          MaxChanges            \* bound: changes of the cable

VARIABLES
    plugged, claimed, lanUp,    \* the cable, DeviceManager.ClaimedUDIDs, the phone answers on the LAN
    changes,                    \* changes of the cable so far
    paused,                     \* TunnelAgent.paused
    \* the reconcile loop
    pc,           \* "idle"; "update" after a probe, or "force"; "started" or
                  \* "forced" while UpdateTunnels starts a tunnel
    probed,       \* the probe of this tick saw the phone
    lastSet,      \* lastReconciledSet has the phone
    streak,       \* probeFailStreak
    entry,        \* the manager's tunnel of the phone: "none", "usb" or "lan"
    external,     \* the manager has it marked as external
    firstDone,    \* FirstUpdateCompleted
    \* the LAN agent
    act,          \* action of the current pass
    tun,          \* lanState.tun is set
    backoff,      \* now is before nextTry
    lanOn,        \* managedDevice.lanOn
    stop          \* Stop: "no", "drop", "off" or "done"

vars == <<plugged, claimed, lanUp, changes, paused, pc, probed, lastSet, streak, entry,
          external, firstDone, act, tun, backoff, lanOn, stop>>

manager == <<entry, external>>

TypeOK ==
    /\ {plugged, claimed, lanUp, paused, probed, lastSet, external, firstDone,
        tun, backoff, lanOn} \subseteq BOOLEAN
    /\ changes \in 0 .. MaxChanges /\ pc \in {"idle", "update", "force", "started", "forced"}
    /\ entry \in {"none", "usb", "lan"}
    /\ streak \in 0 .. ForceAfterFailures - 1
    /\ act \in {"idle", "drop", "off", "probe", "open", "add", "on"}
    /\ stop \in {"no", "drop", "off", "done"}

Init ==
    /\ plugged \in BOOLEAN /\ claimed \in BOOLEAN /\ lanUp = TRUE /\ changes = 0 /\ paused = FALSE
    /\ pc = "idle" /\ probed = FALSE /\ lastSet = FALSE /\ streak = 0
    /\ entry = "none" /\ external = FALSE /\ firstDone = FALSE
    /\ act = "idle" /\ tun = FALSE /\ backoff = FALSE
    /\ lanOn = FALSE /\ stop = "no"

----------------------------------------------------------------------------
(* The reconcile loop.                                                     *)

Ticks == pc = "idle" /\ ~(paused /\ firstDone)

\* usbmuxd did not answer: keep the tunnels, or force an update after too many.
ProbeFails ==
    /\ Ticks
    /\ IF streak + 1 < ForceAfterFailures THEN streak' = streak + 1 /\ UNCHANGED pc
       ELSE streak' = 0 /\ pc' = "force"
    /\ UNCHANGED <<probed, lastSet, entry, firstDone>>

\* Mutant: only the set of devices is compared.
Steady_membershipOnly == plugged = lastSet

\* The same devices as last time, and each has a tunnel, of whichever kind.
Steady == plugged = lastSet /\ (plugged => entry # "none")

\* usbmuxd answered: nothing to do, or update.  (The throttle of five seconds
\* between attempts only delays the update.)
ProbeOk ==
    /\ Ticks /\ streak' = 0
    /\ IF Steady THEN UNCHANGED <<pc, probed>> ELSE pc' = "update" /\ probed' = plugged
    /\ UNCHANGED <<lastSet, entry, firstDone>>

\* UpdateTunnels: its own enumeration fails and every tunnel is torn down that
\* is not external.
UpdateFails ==
    /\ pc \in {"update", "force"} /\ pc' = "idle" /\ probed' = FALSE
    /\ entry' = IF external THEN entry ELSE "none"
    /\ UNCHANGED <<lastSet, streak, firstDone>>

\* It returns without an error; only the update after a probe records the set.
Updated ==
    /\ pc' = "idle" /\ firstDone' = TRUE /\ probed' = FALSE
    /\ lastSet' = IF pc \in {"update", "started"} THEN probed ELSE lastSet
    /\ UNCHANGED streak

\* There is nothing to start; the tunnel of an absent phone goes.
UpdatePrunes ==
    /\ pc \in {"update", "force"} /\ ~(plugged /\ entry = "none")
    /\ entry' = IF plugged \/ external THEN entry ELSE "none"
    /\ Updated

\* A tunnel is started for a present phone that has none, outside the lock ...
UpdateStarts ==
    /\ pc \in {"update", "force"} /\ plugged /\ entry = "none"
    /\ pc' = IF pc = "update" THEN "started" ELSE "forced"
    /\ UNCHANGED <<probed, lastSet, streak, entry, firstDone>>

\* ... and registered over whatever is there by then; or it fails, or was not
\* tried so soon after a failure.
UpdateOk(up) ==
    /\ pc \in {"started", "forced"}
    /\ entry' = IF up THEN "usb" ELSE entry
    /\ Updated

Reconcile ==
    /\ \/ ProbeFails \/ ProbeOk \/ UpdateFails \/ UpdatePrunes \/ UpdateStarts
       \/ \E up \in BOOLEAN : UpdateOk(up)
    /\ UNCHANGED <<plugged, claimed, lanUp, changes, paused, external, act, tun, backoff,
                   lanOn, stop>>

----------------------------------------------------------------------------
(* The LAN agent.                                                          *)

\* Mutant: a pause keeps the absent phone from being opened, and not from being probed.
Pass_opensUnpausedOnly ==
    /\ act = "idle" /\ stop = "no"
    /\ \/ ~claimed /\ backoff' = FALSE /\ tun' = FALSE /\ act' = IF tun THEN "drop" ELSE "idle"
       \/ /\ claimed /\ tun /\ UNCHANGED backoff
          /\ \/ plugged /\ tun' = FALSE /\ act' = "drop"
             \/ ~plugged /\ act' = "probe" /\ UNCHANGED tun
       \/ claimed /\ ~tun /\ ~plugged /\ ~backoff /\ ~paused /\ act' = "open" /\ UNCHANGED <<tun, backoff>>
    /\ UNCHANGED <<manager, lanOn, stop>>

\* reconcile up to its unlock: what this pass will do.
Pass ==
    /\ act = "idle" /\ stop = "no"
    /\ \/ ~claimed /\ backoff' = FALSE /\ tun' = FALSE /\ act' = IF tun THEN "drop" ELSE "idle"
       \/ /\ claimed /\ tun /\ ~paused /\ UNCHANGED backoff
          /\ \/ plugged /\ tun' = FALSE /\ act' = "drop"
             \/ ~plugged /\ act' = "probe" /\ UNCHANGED tun
       \/ claimed /\ ~tun /\ ~plugged /\ ~backoff /\ act' = "open" /\ UNCHANGED <<tun, backoff>>
    /\ UNCHANGED <<manager, lanOn, stop>>

\* RemoveExternalTunnel: what is marked external goes, whichever tunnel it is.
RemoveExternal == external' = FALSE /\ entry' = IF external THEN "none" ELSE entry

\* drop, then setReachable(false).
Drop == act = "drop" /\ act' = "off" /\ RemoveExternal /\ UNCHANGED <<tun, backoff, lanOn, stop>>
Off == act = "off" /\ act' = "idle" /\ lanOn' = FALSE /\ UNCHANGED <<tun, backoff, manager, stop>>

\* A live tunnel is verified; a dead one is dropped and tried again at once.
Probe ==
    /\ act = "probe"
    /\ IF lanUp THEN act' = "idle" /\ UNCHANGED <<tun, backoff>>
       ELSE act' = "drop" /\ tun' = FALSE /\ backoff' = FALSE
    /\ UNCHANGED <<manager, lanOn, stop>>

\* open: pairing fails (and backs off), or the tunnel is kept unless Stop came.
Open ==
    /\ act = "open"
    /\ \/ act' = "idle" /\ backoff' = TRUE /\ UNCHANGED tun
       \/ lanUp /\ IF stop = "no" THEN act' = "add" /\ tun' = TRUE /\ backoff' = FALSE
                   ELSE act' = "idle" /\ backoff' = TRUE /\ UNCHANGED tun
    /\ UNCHANGED <<manager, lanOn, stop>>

\* AddExternalTunnel, over whatever is there, then setReachable(true).
Add ==
    /\ act = "add" /\ act' = "on" /\ entry' = "lan" /\ external' = TRUE
    /\ UNCHANGED <<tun, backoff, lanOn, stop>>
On == act = "on" /\ act' = "idle" /\ lanOn' = TRUE /\ UNCHANGED <<tun, backoff, manager, stop>>

BackoffOver == backoff /\ backoff' = FALSE /\ UNCHANGED <<act, tun, manager, lanOn, stop>>

\* Stop, on the way out of the process.
StopStep ==
    \/ stop = "no" /\ stop' = (IF tun THEN "drop" ELSE "done") /\ tun' = FALSE
       /\ UNCHANGED <<manager, lanOn>>
    \/ stop = "drop" /\ stop' = "off" /\ RemoveExternal /\ UNCHANGED <<tun, lanOn>>
    \/ stop = "off" /\ stop' = "done" /\ lanOn' = FALSE /\ UNCHANGED <<tun, manager>>

PassStep == Pass \/ Drop \/ Off \/ Probe \/ Open \/ Add \/ On
LanStep == PassStep \/ BackoffOver \/ (StopStep /\ UNCHANGED <<act, backoff>>)

LanAgent == LanStep /\ UNCHANGED <<plugged, claimed, lanUp, changes, paused, pc, probed, lastSet,
                                   streak, firstDone>>

----------------------------------------------------------------------------
(* The environment.                                                        *)

Cable == changes < MaxChanges /\ changes' = changes + 1 /\ plugged' = ~plugged /\ UNCHANGED <<claimed, lanUp, paused>>
Claiming == claimed' = ~claimed /\ UNCHANGED <<plugged, lanUp, changes, paused>>
Wifi == lanUp' = ~lanUp /\ UNCHANGED <<plugged, claimed, changes, paused>>
PauseResume == paused' = ~paused /\ UNCHANGED <<plugged, claimed, lanUp, changes>>

Environment ==
    /\ Cable \/ Claiming \/ Wifi \/ PauseResume
    /\ UNCHANGED <<pc, probed, lastSet, streak, firstDone, act, tun, backoff, manager,
                   lanOn, stop>>

Next == Reconcile \/ LanAgent \/ Environment

\* Both tickers run; usbmuxd answers the probe and the update, and a tunnel
\* starts, when tried often enough; backoff ends; an open that can succeed does
\* at some attempt.
Fairness ==
    /\ WF_vars(Reconcile) /\ SF_vars(Reconcile /\ ProbeOk)
    /\ SF_vars(Reconcile /\ UpdateStarts) /\ SF_vars(Reconcile /\ UpdateOk(TRUE))
    /\ WF_vars(LanAgent /\ PassStep) /\ WF_vars(LanAgent /\ BackoffOver)
    /\ SF_vars(LanAgent /\ Open /\ tun')

Spec == Init /\ [][Next]_vars /\ Fairness

----------------------------------------------------------------------------
\* Between passes the LAN agent's state, the tunnel manager's mark and the device
\* inventory agree on whether the phone has a LAN tunnel.
LanViewsAgree == act = "idle" /\ stop = "no" => tun = external /\ external = lanOn

\* A phone that stays on the cable has its USB tunnel again and again, unless
\* jobs keep the agent paused: a tunnel torn down by a failed enumeration is
\* rebuilt although the set of devices did not change, and a LAN tunnel that got
\* into its place, or the mark it left on it, is in the way for a while only.
PluggedGetsTunnel == <>[](plugged /\ ~paused /\ stop = "no") => []<>(entry = "usb")

\* A claimed phone off the cable that answers on the LAN ends up reachable, also
\* while a job holds the agent paused ("otherwise a job dispatched to a LAN-only
\* device whose tunnel dropped would park in waitForDevice forever", reconcile).
AbsentIsServed == <>[](claimed /\ ~plugged /\ lanUp /\ stop = "no") => <>[]lanOn

\* Releasing a phone takes its LAN tunnel down.
ReleasedIsDropped == <>[](~claimed /\ stop = "no") => <>[](~external /\ ~lanOn)

\* "A genuine unplug still tears down its tunnel" (tunnel.go).
UnplugTearsDown == <>[](~plugged /\ ~paused) => <>[](entry # "usb")
=============================================================================
