CONSTANTS
    Jobs = {j1, j2}
    MaxWdaFrames = 2
    TunnelForceAfterFailures = 2
    TunnelMaxChanges = 2
    UsbMaxPlugs = 3
SPECIFICATION AllSpec
INVARIANTS PausedHasJob
PROPERTIES PreparingEnds PluggedGetsTunnel AbsentIsServed PresenceConverges
CHECK_DEADLOCK FALSE
