----------------------------- MODULE Discovery -----------------------------
(***************************************************************************)
(* How an iOS host learns whether a phone is attached                      *)
(* (src/common/ioshost/manager.go, run, pollLoop, Rescan, applySnapshot    *)
(* and applyEvent).  A rescan enumerates outside the lock and applies what *)
(* it saw later; the goroutine of run and that of an IosDiscover frame     *)
(* rescan independently, so that lists may be applied out of order.        *)
(***************************************************************************)
EXTENDS Naturals, Sequences

CONSTANTS MaxPlugs   \* bound: changes of the cable

VARIABLES
    plugged,   \* the cable
    present,   \* managedDevice.present
    scans,     \* "run" or "discover" -> where its rescan is and what it saw
    polling,   \* run: "subscribe" (after the first rescan), "events" or "poll"
    events,    \* attach (TRUE) and detach (FALSE) events not yet received
    plugs      \* changes of the cable so far

vars == <<plugged, present, scans, polling, events, plugs>>

Scanners == {"run", "discover"}
NoScan == [pc |-> "idle", seen |-> FALSE]

TypeOK ==
    /\ plugged \in BOOLEAN /\ present \in BOOLEAN
    /\ scans \in [Scanners -> [pc : {"idle", "listed"}, seen : BOOLEAN]]
    /\ polling \in {"subscribe", "events", "poll"}
    /\ events \in Seq(BOOLEAN) /\ Len(events) <= MaxPlugs /\ plugs \in 0 .. MaxPlugs

Init ==
    /\ plugged \in BOOLEAN /\ present = FALSE
    /\ scans = [run |-> [pc |-> "listed", seen |-> plugged], discover |-> NoScan]
    /\ polling = "subscribe" /\ events = <<>> /\ plugs = 0

\* Rescan: enumerate.  A failed enumeration changes nothing the model has.
List(s) == scans[s] = NoScan /\ scans' = [scans EXCEPT ![s] = [pc |-> "listed", seen |-> plugged]]

\* The ticker of run and of pollLoop.
Tick ==
    /\ polling # "subscribe" /\ List("run") /\ UNCHANGED <<plugged, present, polling, events, plugs>>

\* An IosDiscover frame.
Discover == List("discover") /\ UNCHANGED <<plugged, present, polling, events, plugs>>

\* run after its first rescan: events, or polling when there is no stream.
Subscribe ==
    /\ polling = "subscribe" /\ scans["run"] = NoScan /\ polling' \in {"events", "poll"}
    /\ UNCHANGED <<plugged, present, scans, events, plugs>>

\* The event stream ends; what it still held is lost.
StreamEnds ==
    /\ polling = "events" /\ scans["run"] = NoScan /\ polling' = "poll" /\ events' = <<>>
    /\ UNCHANGED <<plugged, present, scans, plugs>>

\* Mutant: a device the list lacks keeps its presence.
applySnapshot_keepsAbsent(s) ==
    /\ scans[s].pc = "listed" /\ scans' = [scans EXCEPT ![s] = NoScan]
    /\ present' = (present \/ scans[s].seen) /\ UNCHANGED <<plugged, polling, events, plugs>>

\* applySnapshot: the device is present when the list has it.
applySnapshot(s) ==
    /\ scans[s].pc = "listed" /\ scans' = [scans EXCEPT ![s] = NoScan]
    /\ present' = scans[s].seen /\ UNCHANGED <<plugged, polling, events, plugs>>

\* applyEvent: a detach is applied at once, an attach by a rescan.
applyEvent ==
    /\ polling = "events" /\ scans["run"] = NoScan /\ events # <<>> /\ events' = Tail(events)
    /\ IF Head(events) THEN List("run") /\ UNCHANGED present
       ELSE present' = FALSE /\ UNCHANGED scans
    /\ UNCHANGED <<plugged, polling, plugs>>

Cable ==
    /\ plugs < MaxPlugs /\ plugs' = plugs + 1 /\ plugged' = ~plugged
    /\ events' = IF polling = "events" THEN Append(events, plugged') ELSE events
    /\ UNCHANGED <<present, scans, polling>>

Next ==
    \/ Tick \/ Discover \/ Subscribe \/ StreamEnds \/ applyEvent \/ Cable
    \/ \E s \in Scanners : applySnapshot(s)

\* The ticker and the events of run are served, and a rescan that enumerated
\* applies its list.  (select is fair between ready channels with probability
\* one; a tick follows at the latest 30 seconds after the last.)
Fairness ==
    /\ WF_vars(Subscribe) /\ WF_vars(Tick) /\ SF_vars(applyEvent) /\ \A s \in Scanners : WF_vars(applySnapshot(s))

Spec == Init /\ [][Next]_vars /\ Fairness

----------------------------------------------------------------------------
\* The inventory follows the cable: events may be lost and lists applied late
\* or out of order, but once the cable is left alone the host's view is right
\* for good ("Fall back to polling rather than going blind", run).
PresenceConverges ==
    /\ <>[]plugged => <>[]present
    /\ <>[]~plugged => <>[]~present
=============================================================================
