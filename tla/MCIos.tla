------------------------------- MODULE MCIos -------------------------------
(***************************************************************************)
(* The iOS side of a node, for TLC: WDA jobs (IosJobs), tunnels            *)
(* (TunnelAgent) and USB discovery (Discovery). Each runs on state of its  *)
(* own and models what the others do to it as its environment, so a        *)
(* behaviour is one of exactly one of them, chosen at the start.           *)
(***************************************************************************)
EXTENDS IosJobs, Sequences

CONSTANTS TunnelForceAfterFailures, TunnelMaxChanges, UsbMaxPlugs

VARIABLES
    part,           \* the component this behaviour is of
    tunnelPlugged, tunnelClaimed, tunnelLanUp, tunnelChanges, tunnelPaused,
    tunnelPc, tunnelProbed, tunnelLastSet, tunnelStreak, tunnelEntry,
    tunnelExternal, tunnelFirstDone, tunnelAct, tunnelTun, tunnelBackoff,
    tunnelLanOn, tunnelStop,
    usbPlugged, usbPresent, usbScans, usbPolling, usbEvents, usbPlugs

T == INSTANCE TunnelAgent WITH
    ForceAfterFailures <- TunnelForceAfterFailures,
    MaxChanges <- TunnelMaxChanges, plugged <- tunnelPlugged,
    claimed <- tunnelClaimed, lanUp <- tunnelLanUp,
    changes <- tunnelChanges, paused <- tunnelPaused, pc <- tunnelPc,
    probed <- tunnelProbed, lastSet <- tunnelLastSet,
    streak <- tunnelStreak, entry <- tunnelEntry,
    external <- tunnelExternal, firstDone <- tunnelFirstDone, act <- tunnelAct, tun <- tunnelTun,
    backoff <- tunnelBackoff,
    lanOn <- tunnelLanOn, stop <- tunnelStop

D == INSTANCE Discovery WITH
    MaxPlugs <- UsbMaxPlugs, plugged <- usbPlugged, present <- usbPresent,
    scans <- usbScans, polling <- usbPolling, events <- usbEvents,
    plugs <- usbPlugs

tunnelVars ==
    <<tunnelPlugged, tunnelClaimed, tunnelLanUp, tunnelChanges,
      tunnelPaused, tunnelPc, tunnelProbed, tunnelLastSet, tunnelStreak,
      tunnelEntry, tunnelExternal, tunnelFirstDone, tunnelAct, tunnelTun,
      tunnelBackoff, tunnelLanOn, tunnelStop>>
usbVars ==
    <<usbPlugged, usbPresent, usbScans, usbPolling, usbEvents, usbPlugs>>
allVars == <<part, wdaVars, tunnelVars, usbVars>>

AllInit ==
    /\ part \in {"wda", "tunnel", "usb"}
    /\ WdaInit
    /\ T!Init
    /\ D!Init
    /\ part # "wda" => wda = "installed" /\ present
    /\ part # "tunnel" => tunnelPlugged /\ tunnelClaimed
    /\ part # "usb" => usbPlugged

\* Only the chosen component takes steps.
AllNext ==
    \/ part = "wda" /\ WdaNext /\ UNCHANGED <<part, tunnelVars, usbVars>>
    \/ part = "tunnel" /\ T!Next /\ UNCHANGED <<part, wdaVars, usbVars>>
    \/ part = "usb" /\ D!Next /\ UNCHANGED <<part, wdaVars, tunnelVars>>

\* Each component's fairness, as its module states it.
AllFairness ==
    /\ WF_wdaVars(part = "wda" /\ Dispatch)
    /\ \A j \in Jobs : WF_wdaVars(part = "wda" /\ TimedStep(j))
    /\ WF_tunnelVars(part = "tunnel" /\ T!Reconcile)
    /\ SF_tunnelVars(part = "tunnel" /\ T!Reconcile /\ T!ProbeOk)
    /\ SF_tunnelVars(part = "tunnel" /\ T!Reconcile /\ T!UpdateStarts)
    /\ SF_tunnelVars(part = "tunnel" /\ T!Reconcile /\ T!UpdateOk(TRUE))
    /\ WF_tunnelVars(part = "tunnel" /\ T!LanAgent /\ T!PassStep)
    /\ WF_tunnelVars(part = "tunnel" /\ T!LanAgent /\ T!BackoffOver)
    /\ SF_tunnelVars(part = "tunnel" /\ T!LanAgent /\ T!Open /\ tunnelTun')
    /\ WF_usbVars(part = "usb" /\ D!Subscribe)
    /\ WF_usbVars(part = "usb" /\ D!Tick)
    /\ SF_usbVars(part = "usb" /\ D!applyEvent)
    /\ \A s \in D!Scanners : WF_usbVars(part = "usb" /\ D!applySnapshot(s))

AllSpec == AllInit /\ [][AllNext]_allVars /\ AllFairness

-----------------------------------------------------------------------------
\* The shape of every component's state.
AllTypeOK ==
    /\ WdaTypeOK /\ T!TypeOK /\ D!TypeOK

\* Tunnels: agent, registry and inventory agree on the LAN tunnel between
\* passes (TunnelAgent, lan.go:204-363).
LanViewsAgree == T!LanViewsAgree

\* Tunnels: a phone on the cable has its tunnel again and again (TunnelAgent,
\* tunnel.go:108-196).
PluggedGetsTunnel == part = "tunnel" => T!PluggedGetsTunnel

\* Tunnels: a claimed phone off the cable is reached over the network
\* (TunnelAgent, lan.go:204-330).
AbsentIsServed == part = "tunnel" => T!AbsentIsServed

\* Tunnels: the LAN tunnel of a released phone is dropped (TunnelAgent,
\* lan.go:204-273).
ReleasedIsDropped == T!ReleasedIsDropped

\* Discovery: the inventory follows the cable (Discovery, manager.go:638-743,
\* 840-862).
PresenceConverges == part = "usb" => D!PresenceConverges
=============================================================================
